\* An administrator and an account still to be created, which may log in twice, and two edits; one death.
SPECIFICATION FairSpec
CONSTANTS
    Logins <- ThreeLogins
    Users <- TwoUsers
    NameOf <- LoginNames
    MaxAttempts = 1
    Edits <- TwoEdits
    Creates <- OneCreate
    NewName <- CreatedNames
    Changes <- SomeChanges
    Admins <- OnlyAlice
    Earlier <- AliceIsIn
    NoAccount = NoAccount
    NoRequest = NoRequest
    Initial = Initial
    MaxCrashes = 1
INVARIANTS
    TypeOK
    AttemptsBounded
    SessionsCurrent
    AdminRemains
PROPERTIES
    LockoutEnds
CHECK_DEADLOCK FALSE
