SPECIFICATION Spec
CONSTANTS
    Fields <- MCFields
    Keys <- MCKeys
    Whole = 2
    Hundredth = 1
    DefaultMax = 6
    Lengths = {0, 1, 2, 3}
    Qualities <- MCQualities
    None = None
INVARIANT BoundsAlwaysHonoured
CHECK_DEADLOCK FALSE
