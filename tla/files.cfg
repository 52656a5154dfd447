\* Two uploads of one content and a rerun beside the sweep, one crash;
\* the results of the first upload expire, the sweep goes on for ever.
SPECIFICATION FairSpec
CONSTANTS
    Files <- OneFile
    Uploads <- TwoUploads
    Reruns <- OneRerun
    NoFile = NoFile
    NoBatch = NoBatch
    FileOf <- SameFile
    Aging <- FirstAges
    MaxCrashes = 1
INVARIANTS
    TypeOK
    UndisturbedFileKept
PROPERTIES
    ExpiredReferenceRemoved
    OrphanCollected
CHECK_DEADLOCK FALSE
