CONSTANTS
    Image = {legacy}
    Legacy = {legacy}
    FirstImage = legacy
    Asked = {"topology", "bus"}
    Knobs = {"topology", "tls", "pods", "calm"}
    MaxEdits = 2
    Absent = Absent
SPECIFICATION FairSpec
INVARIANTS ReadyIsHonest ReadyAtRest
PROPERTY EventuallyReadyUnlessTopologyStale
CHECK_DEADLOCK FALSE
