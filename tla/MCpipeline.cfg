CONSTANTS
    Image = {legacy, modern}
    Legacy = {legacy}
    FirstImage = legacy
    Asked = {"wsgi"}
    Knobs = {"image", "rpc"}
    MaxEdits = 1
    Absent = Absent
SPECIFICATION Spec
INVARIANTS TypeOK ReadyIsHonest SyncedBeforeRollout FallbackOnlyForLegacy DeployedAtRest
PROPERTY TakenOverBeforeCleanUp
CHECK_DEADLOCK FALSE
