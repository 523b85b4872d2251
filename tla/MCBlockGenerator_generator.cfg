CONSTANTS
    Arguments <- MCArguments
    MaxRuns = 2
    MaxHits = 1
SPECIFICATION Spec
INVARIANTS TypeOK ArtifactsAreGone FilesBelongTogether
PROPERTIES ClusterEnds
CHECK_DEADLOCK FALSE
