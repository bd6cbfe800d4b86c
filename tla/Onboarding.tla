------------------------------- MODULE Onboarding ------------------------------
(***************************************************************************)
(* Provider onboarding (src/swarm/onboarding/service.py) and the live       *)
(* capability registry (src/swarm/providers/capability_registry.py).        *)
(*                                                                         *)
(* An OnboardingService lives as long as its process: overrides, trial ends *)
(* and aliases are in memory, the audit of manual confirmations and the     *)
(* onboarding report are files.  The registry is rebuilt from the           *)
(* environment and from auth probes whenever somebody asks.                 *)
(***************************************************************************)
EXTENDS Integers, Sequences, FiniteSets

CONSTANTS Providers, Local, Retired, Deferred, PaidBlocked, Gated, Probed,
          RawAccount,     \* account_status of the catalog
          Aliases,
          MaxChanges      \* bound: changes the operator makes to the environment

ASSUME ProviderAssumption ==
    /\ \A S \in {Local, Retired, Deferred, PaidBlocked, Gated, Probed} : S \subseteq Providers
    /\ RawAccount \in [Providers -> {"unknown", "existing_unverified", "signup_needed"}]
    /\ MaxChanges \in Nat

VARIABLES healthy,    \* providers whose probe endpoint answers
          secrets,    \* providers whose environment variables are set
          paid,       \* SWARM_ALLOW_PAID
          changes,    \* history: changes of the environment
          overrides, trials, aliases, \* memory of the OnboardingService
          audit,      \* providers named in manual_confirmations.json
          shown       \* onboarding-report.json: route status and blockers by provider

environment == <<healthy, secrets, paid, changes>>
service == <<overrides, trials, aliases>>
onboardingVars == <<environment, service, audit, shown>>

NoStatus == "none"

OnboardingInit ==
    /\ healthy = Local /\ secrets = {} /\ paid = FALSE /\ changes = 0
    /\ overrides = [p \in Providers |-> NoStatus]
    /\ trials = [p \in Providers |-> NoStatus]
    /\ aliases = {} /\ audit = {}
    /\ shown = [p \in Providers |-> [route |-> NoStatus, blockers |-> {}]]

(******************************* The service ******************************)

\* _account_status: a confirmation outranks the payment gate, a secret is not authentication.
Account(p) ==
    CASE p \in Retired -> "retired"
      [] p \notin Retired /\ overrides[p] # NoStatus -> overrides[p]
      [] p \notin Retired /\ overrides[p] = NoStatus /\ p \in Gated -> "gated_payment_method"
      [] OTHER -> IF p \in secrets /\ RawAccount[p] \in {"unknown", "existing_unverified"}
                  THEN "configured" ELSE RawAccount[p]

Expired(p) == trials[p] = "over"

\* inspect_provider: a retired provider, an expired trial and a blocked or gated account
\* close the route.
Inspect(p) ==
    IF p \in Retired \/ Expired(p) \/ Account(p) \in {"blocked", "gated_payment_method"}
    THEN "disabled" ELSE "discovered"

\* _blockers_for: what the owner still has to do; a confirmation does not take the payment
\* blocker away.
Blockers(p) ==
    IF p \in Retired THEN {"retired"}
    ELSE {b \in {"payment_method_required"} : p \in Gated}
         \cup {b \in {"auth_session_unavailable"} :
                Account(p) \in {"unknown", "existing_unverified", "signup_needed", "verification_needed"}}

OnboardingReport ==
    /\ shown' = [p \in Providers |-> [route |-> Inspect(p), blockers |-> Blockers(p)]]
    /\ UNCHANGED <<environment, service, audit>>

\* AuditLog.append refuses fields that contain a credential.
Appendable(credential) == ~credential

\* A confirmation that sets the override before the audit entry is checked.
ConfirmBeforeAudit(p, status, credential) ==
    /\ audit' = IF credential THEN audit ELSE audit \cup {p}
    /\ overrides' = IF status = NoStatus THEN overrides ELSE [overrides EXCEPT ![p] = status]
    /\ UNCHANGED <<environment, trials, aliases, shown>>

\* confirm_manual: the audit entry is written before the override is set.
ConfirmManual(p, status, credential) ==
    /\ Appendable(credential)
    /\ audit' = audit \cup {p}
    /\ overrides' = IF status = NoStatus THEN overrides ELSE [overrides EXCEPT ![p] = status]
    /\ UNCHANGED <<environment, trials, aliases, shown>>

RegisterAccountAlias(a) ==
    /\ a \notin aliases
    /\ aliases' = aliases \cup {a}
    /\ UNCHANGED <<environment, overrides, trials, audit, shown>>

SetTrialExpiry(p, when) ==
    /\ trials' = [trials EXCEPT ![p] = when]
    /\ UNCHANGED <<environment, overrides, aliases, audit, shown>>

TrialEnds(p) ==
    /\ trials[p] = "running"
    /\ trials' = [trials EXCEPT ![p] = "over"]
    /\ UNCHANGED <<environment, overrides, aliases, audit, shown>>

\* A new process builds a new service: only the files are left.
NewService ==
    /\ overrides' = [p \in Providers |-> NoStatus]
    /\ trials' = [p \in Providers |-> NoStatus]
    /\ aliases' = {}
    /\ UNCHANGED <<environment, audit, shown>>

(****************************** The registry ******************************)

KeyConfigured(p) == p \notin Retired /\ (p \in Local \/ p \in secrets)

\* _probe runs only with a key, for a provider that is neither retired nor deferred.
ProbeHealth(p, probe) ==
    CASE p \in Retired -> "blocked"
      [] p \in Deferred \ Retired -> "deferred"
      [] p \notin Retired \cup Deferred /\ KeyConfigured(p) /\ probe /\ p \in Probed ->
            IF p \in healthy THEN "healthy" ELSE "unhealthy"
      [] OTHER -> "unprobed"

\* A local runtime is free only once its probe answered, and only when paying is off.
ResolveCostPolicy(p, health, allowPaid) ==
    CASE p \in Retired -> "retired"
      [] p \in Deferred \ Retired -> "deferred"
      [] p \in PaidBlocked \ (Retired \cup Deferred) /\ ~allowPaid -> "paid_blocked"
      [] p \notin Retired \cup Deferred /\ allowPaid -> "paid_allowed"
      [] OTHER -> IF p \in Local /\ health = "healthy" THEN "zero_spend_ok" ELSE "price_unverified"

Qualification(p, health, allowPaid) ==
    IF p \in Deferred \ Retired THEN "deferred"
    ELSE IF health # "healthy" THEN "unqualified"
    ELSE IF p \in PaidBlocked /\ ~allowPaid THEN "auth_ok_inference_blocked" ELSE "auth_ok"

ProviderCapabilityRecord(p, probe) ==
    LET health == ProbeHealth(p, probe) IN
    [health |-> health, cost |-> ResolveCostPolicy(p, health, paid),
     qualification |-> Qualification(p, health, paid)]

BuildCapabilityRegistry(probe) == [p \in Providers |-> ProviderCapabilityRecord(p, probe)]

RoutableProviders(registry) ==
    {p \in Providers : registry[p].health = "healthy" /\ registry[p].cost = "zero_spend_ok"
                       /\ registry[p].qualification = "auth_ok"}

(***************************** The environment ****************************)

Toggle(S, e) == IF e \in S THEN S \ {e} ELSE S \cup {e}

ChangeEnvironment ==
    /\ changes < MaxChanges
    /\ changes' = changes + 1
    /\ \/ \E p \in Probed : healthy' = Toggle(healthy, p) /\ UNCHANGED <<secrets, paid>>
       \/ \E p \in Providers \ Local : secrets' = Toggle(secrets, p) /\ UNCHANGED <<healthy, paid>>
       \/ paid' = ~paid /\ UNCHANGED <<healthy, secrets>>
    /\ UNCHANGED <<service, audit, shown>>

OnboardingNext ==
    \/ OnboardingReport
    \/ NewService
    \/ \E a \in Aliases : RegisterAccountAlias(a)
    \/ \E p \in Providers :
        \/ \E s \in {NoStatus, "auth_verified", "blocked"}, c \in BOOLEAN : ConfirmManual(p, s, c)
        \/ \E when \in {"running", "over"} : SetTrialExpiry(p, when)
        \/ TrialEnds(p)

\* A report shows the route of a payment-gated provider as open only when somebody's
\* confirmation for that provider is in the audit file, whatever restarts, trials and
\* further confirmations came in between, and it still names the payment blocker.
GateOpensOnlyAudited ==
    \A p \in Gated : shown[p].route = "discovered" =>
        p \in audit /\ (p \in Retired \/ "payment_method_required" \in shown[p].blockers)
================================================================================
