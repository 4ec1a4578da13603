CONSTANTS
    Image = {legacy}
    Legacy = {legacy}
    FirstImage = legacy
    Asked = {"topology"}
    Knobs = {"topology", "calm"}
    MaxEdits = 1
    Absent = Absent
SPECIFICATION FairSpec
PROPERTY EventuallyReady
CHECK_DEADLOCK FALSE
