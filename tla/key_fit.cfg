SPECIFICATION Spec
CONSTANTS
    Fields <- MCFields
    Keys <- MCKeys
    Whole = 2
    Hundredth = 1
    DefaultMax = 6
    Lengths = {0, 1, 2, 3}
    Qualities <- MCQualities
    None = None
INVARIANTS ProofIsSound NumbersHonoured
CHECK_DEADLOCK FALSE
