SPECIFICATION Spec
CONSTANTS
  Secret = {s1, s2}
  None = None
  Absent = Absent
  Deployments = {"neutron", "worker"}
  Rotating = {"notifications"}
  MaxPods = 2
  Rapid = FALSE
SYMMETRY Symmetry
INVARIANTS BusTeardownIsSafe NoRevokedCredentialInUse InUseIsProtected
PROPERTY ImplementsProtection
