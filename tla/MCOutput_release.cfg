CONSTANTS
    IntMax = 40
    Width = 6
    Asserts = FALSE
    Circuits = {"bytecode", "rw", "copy"}
    Options <- MCOptions
    Assignments <- MCAssignments
SPECIFICATION Spec
INVARIANT SizesAreWritten
CHECK_DEADLOCK FALSE
