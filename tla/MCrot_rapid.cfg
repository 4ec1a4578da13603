SPECIFICATION Spec
CONSTANTS
  Secret = {s1, s2, s3}
  None = None
  Absent = Absent
  Deployments = {"neutron"}
  Rotating = {"transport"}
  MaxPods = 2
  Rapid = TRUE
SYMMETRY Symmetry
INVARIANTS NoRevokedCredentialInUse
