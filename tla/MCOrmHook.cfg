CONSTANTS
    Rows = {1, 2}
    Cols = {"id", "x", "y"}
    Fields = {"id", "x"}
    MaxStatements = 2
    None = None
SPECIFICATION Spec
PROPERTIES ChangesOnlyMatching
CHECK_DEADLOCK FALSE
