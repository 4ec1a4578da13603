--------------------------- MODULE SerialRotation ---------------------------
(***************************************************************************)
(* Serial rotations (Rapid = FALSE): a credential changes again only after *)
(* its previous change has settled.  Then at any time a credential has at  *)
(* most two values, base[s] and Wanted[s], and SerialInv follows the new   *)
(* one through the configuration, the input hash, the Deployments and the  *)
(* pods until nothing uses the old one and it can be released.             *)
(***************************************************************************)
EXTENDS AgentTransport

\* How far a deletion has got.
LeakInv ==
  /\ crPhase \in {"new", "gone"} => pc = "idle"
  /\ pc \in DeletePC => crPhase = "deleting"
  /\ pc \in {"delPruneAC", "delAC", "delOwn"} => \A k \in fin : k[1] \notin TransportSlot
  /\ pc \in {"delAC", "delOwn"} => fin = {}
  /\ crPhase = "gone" => fin = {}

Live == crPhase \in {"new", "active"}

\* The value of slot s that the running reconcile works with, or will read.
Unread(s) ==
  \/ s = "transport" /\ pc = "transport"
  \/ s = "notifications" /\ bus /\ pc \in {"transport", "manageTransport", "notifications"}
Will(s) == IF Unread(s) THEN src[s] ELSE cur[s]

AfterDeploy == {"finTransport", "finNotifications", "deleteBus", "finAC",
                "pruneTransport", "pruneAC"}
AfterManageAC == {"deploy"} \cup AfterDeploy
AfterHash == {"manageAC"} \cup AfterManageAC
AfterConfig == {"tls", "hash"} \cup AfterHash
AfterManageNotifications == {"config"} \cup AfterConfig
AfterManageTransport == {"notifications", "manageNotifications"} \cup AfterManageNotifications

\* Everything that holds a credential holds the old or the new value.
OldOrNew(s, x) == x = base[s] \/ x = Wanted[s]
ValueAt(s) ==
  /\ OldOrNew(s, config[s]) /\ OldOrNew(s, status[s])
  /\ inputHash # Absent => OldOrNew(s, inputHash[s])
  /\ \A d \in Deployments :
       /\ depl[d] # Absent => OldOrNew(s, depl[d][s])
       /\ \A p \in pods[d] : OldOrNew(s, p.template[s]) /\ OldOrNew(s, p.uses[s])
  /\ pc # "idle" => OldOrNew(s, st[s])
  /\ pc # "idle" /\ hash # Absent => OldOrNew(s, hash[s])
  /\ pc \in NormalPC => OldOrNew(s, Will(s))
ValueInv == \A s \in Slot : ValueAt(s)

\* The new value spreads in one direction only: reconcile, configuration,
\* then hashes, templates and pods.
FreshAt(s) == Wanted[s] # base[s] =>
  /\ pc \in NormalPC /\ (config[s] = Wanted[s] \/ st[s] = Wanted[s]) => Will(s) = Wanted[s]
  /\ inputHash # Absent /\ inputHash[s] = Wanted[s] => config[s] = Wanted[s]
  /\ pc # "idle" /\ hash # Absent /\ hash[s] = Wanted[s] => config[s] = Wanted[s]
  /\ \A d \in Deployments :
       /\ depl[d] # Absent /\ depl[d][s] = Wanted[s] => config[s] = Wanted[s]
       /\ \A p \in pods[d] :
            /\ p.template[s] = Wanted[s] => p.uses[s] = Wanted[s]
            /\ p.uses[s] = Wanted[s] => config[s] = Wanted[s]
FreshInv == \A s \in Slot : FreshAt(s)

\* What the running reconcile has already done.
PassInv ==
  /\ pc \in NormalPC /\ ~bus => cur["notifications"] = None
  /\ pc \in NormalPC /\ bus /\ ~Unread("notifications") => cur["notifications"] # None
  /\ pc \in AfterConfig => config = cur
  /\ pc \in AfterHash /\ tls => hash = cur
  /\ pc \notin AfterManageAC => tls /\ patched = {}
  /\ rolled \subseteq patched
  /\ \A d \in patched : depl[d] = hash
  /\ \A d \in rolled : \A p \in pods[d] : p.template = hash
  /\ pc = "deleteBus" => ~bus /\ GuardReady /\ st["notifications"] # None

\* The credentials the running reconcile has put its finalizer on.
ManagedInv == Live =>
  /\ pc \in AfterManageTransport /\ cur["transport"] # None =>
       <<"transport", cur["transport"]>> \in fin
  /\ pc \in AfterManageNotifications /\ cur["notifications"] # None =>
       <<"notifications", cur["notifications"]>> \in fin
  /\ pc \in AfterManageAC /\ tls /\ cur["ac"] # None => <<"ac", cur["ac"]>> \in fin

\* The credentials whose rotation the running reconcile has concluded.
FinalizedInv == GuardReady =>
  /\ pc \in AfterDeploy \ {"finTransport"} => st["transport"] = cur["transport"]
  /\ pc \in {"finAC", "pruneTransport", "pruneAC"} =>
       st["notifications"] = cur["notifications"]
  /\ pc \in {"pruneTransport", "pruneAC"} => st["ac"] = cur["ac"]

BusInv ==
  /\ pc # "idle" /\ ~bus /\ st["notifications"] # None => ~busOn
  /\ ~busOn /\ src["notifications"] # None =>
       /\ src["notifications"] = base["notifications"]
       /\ status["notifications"] = base["notifications"]
       /\ pc # "idle" => st["notifications"] = base["notifications"]

\* Nobody uses, or can start using, the old value any more.
Done(s) ==
  /\ Wanted[s] # base[s]
  /\ config[s] = Wanted[s]
  /\ \A d \in Deployments : \A p \in pods[d] : p.uses[s] = Wanted[s]

\* The old value stays protected, and tracked in the status, until then.
ProtectInv == \A s \in Slot : base[s] # None =>
  /\ Live => Done(s) \/ (<<s, base[s]>> \in fin /\ <<s, base[s]>> \notin revoked)
  /\ status[s] # base[s] => Done(s)
  /\ pc # "idle" /\ st[s] # base[s] => Done(s)

\* So does the new value of a transport URL, from its first use.
NewInv == Live =>
  \A s \in TransportSlot :
    config[s] = Wanted[s] /\ Wanted[s] # None => <<s, Wanted[s]>> \in fin

\* When a rotation has settled only the wanted credentials are left.
SettledInv == Settled =>
  /\ config = Wanted /\ inputHash = Wanted
  /\ \A d \in Deployments :
       depl[d] = Wanted /\ \A p \in pods[d] : p.template = Wanted /\ p.uses = Wanted
  /\ pc # "idle" => st = Wanted /\ hash = Wanted
  /\ pc \in NormalPC => \A s \in Slot : Will(s) = Wanted[s]
  /\ Live => \A s \in Slot : Wanted[s] # None => <<s, Wanted[s]>> \in fin

NamedInv == \A s \in Slot : <<s, src[s]>> \notin revoked

BooksInv == PassInv /\ ManagedInv /\ FinalizedInv /\ BusInv /\ NamedInv

SerialInv ==
  /\ ValueInv /\ FreshInv /\ PassInv /\ ManagedInv /\ FinalizedInv
  /\ BusInv /\ ProtectInv /\ NewInv /\ SettledInv /\ NamedInv

\* The invariant and what the steps below know besides.
Known == TypeOK /\ TypeOK' /\ LeakInv /\ LeakInv' /\ SerialInv
=============================================================================
