\* Two uploads of one comparison.
SPECIFICATION Spec
CONSTANTS
    Uploads <- TwoUploads
    Reruns <- NoReruns
    Comparisons <- OneComparison
    ComparisonOf <- SameComparison
    NoBatch = NoBatch
INVARIANTS
    OneActive
CHECK_DEADLOCK FALSE
