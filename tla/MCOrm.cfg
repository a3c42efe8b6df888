CONSTANTS
    Rows = {1, 2}
    Cols = {"id", "x", "y"}
    Fields = {"id", "x"}
    MaxStatements = 3
    None = None
SPECIFICATION Spec
INVARIANTS TypeOK AllOrNothing Migrated NoResidue
CHECK_DEADLOCK FALSE
