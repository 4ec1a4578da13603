SPECIFICATION LiveSpec
CONSTANTS
  Secret = {s1, s2}
  None = None
  Absent = Absent
  Deployments = {"neutron"}
  Rotating = {"transport"}
  MaxPods = 1
  Rapid = TRUE
INVARIANTS NoFinalizerLeak AgentsAreProtected
PROPERTIES RotationConverges AgentsConverge DeletionCompletes
CHECK_DEADLOCK FALSE
