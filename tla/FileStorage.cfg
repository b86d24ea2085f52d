SPECIFICATION Spec
CONSTANTS
    Value = {v1, v2}
    Blocks = 2
    Zero = Zero
    Missing = Missing
INVARIANTS
    OneGoodCopy
    LoadOkIsSaved
    LoadRecovers
PROPERTIES
    LoadKeepsGoodFile
