\* Two uploads of one comparison, three reruns, deletions at any time.
SPECIFICATION Spec
CONSTANTS
    Uploads <- TwoUploads
    Reruns <- ThreeReruns
    Comparisons <- OneComparison
    ComparisonOf <- SameComparison
    NoBatch = NoBatch
INVARIANTS
    TypeOK
    RepeatsEarlier
    VersionsCount
    RefusedOnlyBeside
    Numbering
CHECK_DEADLOCK FALSE
