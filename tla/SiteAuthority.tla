----------------------------- MODULE SiteAuthority -----------------------------
(***************************************************************************)
(* Site epochs (src/swarm/recovery): the authority record of every site,    *)
(* backup manifests and the restore that fences the old site and advances   *)
(* the epoch of the target.  The service bootstraps a site the first time   *)
(* it is asked for, at epoch 1, so a site starts in that state here.        *)
(* Manifest digests, secret names and timestamps are left out.              *)
(***************************************************************************)
EXTENDS Naturals

CONSTANTS Sites,
          Leases,     \* in-flight leases a restore is told of
          Unknown,    \* effects of unknown outcome a restore is told of
          MaxEpoch    \* bound: the epoch a site is advanced to

ASSUME SiteAssumption == MaxEpoch \in Nat \ {0}

VARIABLES site,      \* _by_site: epoch and state of each site
          manifests, \* backups written, as the site and epoch they were taken at
          recovered  \* receipts of the restores

siteVars == <<site, manifests, recovered>>

AuthorityState == {"active", "recovering", "fenced", "retired"}
Authority == [epoch : 1..MaxEpoch, state : AuthorityState]
BackupManifest == [source : Sites, epoch : 1..MaxEpoch]
RecoveryReceipt == [old : BackupManifest, new : BackupManifest,
                    expired : SUBSET Leases, preserved : SUBSET Unknown]

SiteTypeOK ==
    /\ site \in [Sites -> Authority]
    /\ manifests \subseteq BackupManifest
    /\ recovered \subseteq RecoveryReceipt

Bootstrap == [s \in Sites |-> [epoch |-> 1, state |-> "active"]]

SiteInit == site = Bootstrap /\ manifests = {} /\ recovered = {}

\* require_epoch: the check every dispatch makes.
\* A check of the state alone.
RequireActive(s, epoch) == site[s].state = "active"

RequireEpoch(s, epoch) == site[s].state = "active" /\ site[s].epoch = epoch

\* A record is replaced by one of the next epoch; only the replaced one is retired.
Advanced(r) == [epoch |-> r.epoch + 1, state |-> "active"]

Create(s) ==
    /\ manifests' = manifests \cup {[source |-> s, epoch |-> site[s].epoch]}
    /\ UNCHANGED <<site, recovered>>

Fence(s) ==
    /\ site' = [site EXCEPT ![s].state = "fenced"]
    /\ UNCHANGED <<manifests, recovered>>

AdvanceEpoch(s) ==
    /\ site[s].epoch < MaxEpoch
    /\ site' = [site EXCEPT ![s] = Advanced(@)]
    /\ UNCHANGED <<manifests, recovered>>

\* The old site is fenced, then the target advanced; with the same site as target the
\* record ends active at the next epoch.
RestoredSites(old, target) ==
    [[site EXCEPT ![old].state = "fenced"] EXCEPT ![target] = Advanced(@)]

Restore(b, target) ==
    /\ site[target].epoch < MaxEpoch
    /\ site' = RestoredSites(b.source, target)
    /\ recovered' = recovered \cup
         {[old |-> b, new |-> [source |-> target, epoch |-> site'[target].epoch],
           expired |-> Leases, preserved |-> Unknown]}
    /\ UNCHANGED manifests

SiteNext ==
    \/ \E s \in Sites : Create(s) \/ Fence(s) \/ AdvanceEpoch(s)
    \/ \E b \in manifests, t \in Sites : Restore(b, t)
================================================================================
