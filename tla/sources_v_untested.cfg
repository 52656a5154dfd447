\* Two edits of a disabled source overlap: one enables what the other replaces.
SPECIFICATION Spec
CONSTANTS
    e1 = e1
    e2 = e2
    u1 = u1
    u2 = u2
    s1 = s1
    s2 = s2
    Editors <- TwoEditors
    Testers <- OneTester
    Batches <- OneBatch
    Urls <- TwoUrls
    Secrets <- TwoSecrets
    Unset = Unset
    Keep = Keep
    MaxEdits = 4
    MaxTests = 1
SYMMETRY Alike
INVARIANT EnabledForTested
CHECK_DEADLOCK FALSE
