SPECIFICATION GenSpec
CONSTANTS
    Services = {s1, s2}
    Names <- MCNames
INVARIANTS ReferencesKeepTheirComponent
CHECK_DEADLOCK FALSE
