SPECIFICATION GlobalSpec
CONSTANTS
    Setter = {s1, s2}
    Listener = {l1}
    Word = {w1, w2}
    GlobalValue = {v1, v2}
    Zero = Zero
    Room = 2
INVARIANTS
    ListenersUpToDate
\* whoever has nothing to do waits for the next call
