CONSTANTS
    Image = {legacy, modern}
    Legacy = {legacy}
    FirstImage = modern
    Asked = {"wsgi"}
    Knobs = {"probe"}
    MaxEdits = 0
    Absent = Absent
SPECIFICATION Spec
INVARIANT FallbackOnlyForLegacy
CHECK_DEADLOCK FALSE
