\* Two uploads of one content beside the sweep.
SPECIFICATION Spec
CONSTANTS
    Files <- OneFile
    Uploads <- TwoUploads
    Reruns <- NoReruns
    NoFile = NoFile
    NoBatch = NoBatch
    FileOf <- SameFile
    Aging <- FirstAges
    MaxCrashes = 0
INVARIANTS
    ReferencedFileKept
CHECK_DEADLOCK FALSE
