SPECIFICATION GenSpec
CONSTANTS
    Services = {s1, s2}
    Names <- MCNames
INVARIANTS ComponentsAreDistinct RefsStayCorrect OverridesKeepTheirComponent
CHECK_DEADLOCK FALSE
