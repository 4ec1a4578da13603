SPECIFICATION Spec
CONSTANTS
  Secret = {s1, s2}
  None = None
  Absent = Absent
  Deployments = {"neutron"}
  Rotating = {"notifications"}
  MaxPods = 1
  Rapid = TRUE
SYMMETRY Symmetry
INVARIANTS BusTeardownIsSafe
