\* Files of three rows, in four layouts, with the headers named to be in line 1 or 2 or not named,
\* of either type of business.
SPECIFICATION Spec
CONSTANTS
    Templates <- ThreeTemplates
    Blank = "_"
    Files <- SmallFiles
    Texts <- Everything
    TextOf <- Stripped
    Requests <- Asked
    AmountOf <- Amounts
    TimeOf <- Times
    Window <- Day
INVARIANTS
    TypeOK
    DetectionIsRight
    RowsAccounted
    ComparedIsOneOrder
    ProblemsOnOneSheet
CHECK_DEADLOCK FALSE
