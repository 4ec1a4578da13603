\* The database account is changed once.
SPECIFICATION Spec
CONSTANTS
  Account = {a1, a2}
  Topology = {t1, t2}
  Endpoint = {e1}
  None = None
  Focus = {"account"}
  MaxEdits = 1
  MaxLagEdits = 1
  MaxPods = 2
PROPERTY OldAccountKeptUntilReady
