\* Two accounts, two Topologies, one external endpoint per OVN database.
SPECIFICATION Spec
CONSTANTS
  Account = {a1, a2}
  Topology = {t1, t2}
  Endpoint = {e1}
  None = None
  Focus = {"account", "topology", "cache", "agents", "requests", "pods"}
  MaxEdits = 2
  MaxLagEdits = 1
  MaxPods = 2
INVARIANTS TypeOK ConfigAccountHeld NothingHeldWhenGone BuiltPodsRun AppliedAtRest
PROPERTIES ObjectsConverge DeletionCompletes
