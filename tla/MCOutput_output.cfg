CONSTANTS
    IntMax = 40
    Width = 6
    Asserts = TRUE
    Circuits = {"bytecode", "rw", "copy"}
    Options <- MCOptions
    Assignments <- MCAssignments
SPECIFICATION Spec
INVARIANTS TypeOK ExportIsAsked RefusedOnlyOutside RangesReadBack FileReadsBack
CHECK_DEADLOCK FALSE
