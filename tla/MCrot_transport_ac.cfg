SPECIFICATION Spec
CONSTANTS
  Secret = {s1, s2}
  None = None
  Absent = Absent
  Deployments = {"neutron"}
  Rotating = {"transport", "ac"}
  MaxPods = 2
  Rapid = FALSE
SYMMETRY Symmetry
INVARIANTS TypeOK NoRevokedCredentialInUse InUseIsProtected ReadyPodsUseWanted
PROPERTY ImplementsProtection
