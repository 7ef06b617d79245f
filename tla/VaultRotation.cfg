CONSTANTS
    Ids = {1, 2}
    Values = {"x", "y"}
    KeyIds = {1, 2}
    Batch = 1
SPECIFICATION Spec
CHECK_DEADLOCK FALSE
PROPERTIES RotationMoves
