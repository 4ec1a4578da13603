CONSTANTS
    Image = {legacy, modern}
    Legacy = {legacy}
    FirstImage = legacy
    Asked = {"wsgi"}
    Knobs = {"image", "calm"}
    MaxEdits = 1
    Absent = Absent
SPECIFICATION FairSpec
PROPERTIES EventuallyConverged EventuallyReady
CHECK_DEADLOCK FALSE
