----------------------------- MODULE UIContract -----------------------------
(***************************************************************************)
(* A UIContract set is a manifest of fragments; a fragment names the       *)
(* selectors of one surface, says which are attested, and lists the        *)
(* capabilities that depend on it.  This module reads a contract: which    *)
(* fragments are attested or drifted, what a capability may claim of its   *)
(* user interface, and which state of support that leads to.               *)
(*                                                                         *)
(* A lifecycle overlay gives some fragments a state learnt from evidence;  *)
(* None is a fragment it says nothing about.                               *)
(***************************************************************************)
EXTENDS Naturals, FiniteSets

CONSTANTS
  Fragments,      \* fragment_id's of the manifest
  Capabilities,   \* capability keys of one application
  Needs,          \* the fragments whose capability_keys name a capability
  ReadOnly,       \* _READ_ONLY_UI_CAPABILITIES
  None

ASSUME FragmentsAssumption == IsFiniteSet(Fragments)
ASSUME NeedsAssumption ==
  /\ Needs \in [Capabilities -> SUBSET Fragments]
  /\ ReadOnly \subseteq Capabilities

LifecycleState == {"HEALTHY", "STALE", "DRIFTED", "RE_ATTESTATION_REQUIRED"}

ASSUME NoneAssumption == None \notin LifecycleState

-----------------------------------------------------------------------------
(* Fragments.  A document has a version, a status of its own, its "attested" *)
(* flag, the status of each selector, and the selectors with a locator plan. *)

AttestationStatus == {"ATTESTED", "UNVERIFIED_LIVE", "DRIFTED"}

Drifted(doc) ==
  \/ doc.status = "DRIFTED"
  \/ \E s \in DOMAIN doc.selectors : doc.selectors[s] = "DRIFTED"

EffectivelyAttested(doc) ==
  /\ ~Drifted(doc)
  /\ doc.attested
  /\ doc.status = "ATTESTED"
  /\ \A s \in DOMAIN doc.selectors : doc.selectors[s] = "ATTESTED"

DiscoveryRequired(doc) == DOMAIN doc.selectors \ doc.located # {}

\* What the loader accepts: at least one selector, locator plans only for them.
WellFormed(doc) ==
  /\ doc.status \in AttestationStatus
  /\ doc.attested \in BOOLEAN
  /\ DOMAIN doc.selectors # {}
  /\ \A s \in DOMAIN doc.selectors : doc.selectors[s] \in AttestationStatus
  /\ doc.located \subseteq DOMAIN doc.selectors

-----------------------------------------------------------------------------
(* What a capability may claim.                                            *)

\* The state of one dependency; "INVALID" is an overlay that calls an
\* unattested fragment healthy.
Lifecycle(contract, overlay, f) ==
  IF Drifted(contract[f]) THEN "DRIFTED"
  ELSE IF overlay[f] = "HEALTHY" /\ ~EffectivelyAttested(contract[f]) THEN "INVALID"
  ELSE IF overlay[f] # None THEN overlay[f]
  ELSE IF EffectivelyAttested(contract[f]) THEN "HEALTHY"
  ELSE None

\* Fault: every fragment of the set counts, whatever the capability needs.
AttestationOverAll(contract, overlay, c) ==
  LET Some(state) == \E f \in Fragments : Lifecycle(contract, overlay, f) = state
  IN  IF Needs[c] = {} THEN "UNDECLARED"
      ELSE IF Some("INVALID") THEN "INVALID"
      ELSE IF Some("DRIFTED") THEN "DRIFTED"
      ELSE IF Some("RE_ATTESTATION_REQUIRED") THEN "RE_ATTESTATION_REQUIRED"
      ELSE IF Some("STALE") THEN "STALE"
      ELSE IF \E f \in Fragments : ~EffectivelyAttested(contract[f]) THEN "UNATTESTED"
      ELSE "ATTESTED"

\* attestation_for_capability: the first of these that some dependency is in.
Attestation(contract, overlay, c) ==
  LET Some(state) == \E f \in Needs[c] : Lifecycle(contract, overlay, f) = state
  IN  IF Needs[c] = {} THEN "UNDECLARED"
      ELSE IF Some("INVALID") THEN "INVALID"
      ELSE IF Some("DRIFTED") THEN "DRIFTED"
      ELSE IF Some("RE_ATTESTATION_REQUIRED") THEN "RE_ATTESTATION_REQUIRED"
      ELSE IF Some("STALE") THEN "STALE"
      ELSE IF \E f \in Needs[c] : ~EffectivelyAttested(contract[f]) THEN "UNATTESTED"
      ELSE "ATTESTED"

Degraded == {"DRIFTED", "RE_ATTESTATION_REQUIRED", "STALE"}

\* What else support depends on: the session and what is known of the tenant.
Session == [policy : BOOLEAN, runtime : BOOLEAN, authenticated : BOOLEAN,
            account : BOOLEAN, license : BOOLEAN, live : BOOLEAN, readPath : BOOLEAN]

\* A read is authorised by the live page and asks for neither licence nor UI
\* attestation; degraded evidence still withdraws it.
EffectiveRead(ui, s) ==
  IF ~(s.authenticated /\ s.account /\ s.live /\ s.readPath) THEN "UNVERIFIED_LIVE"
  ELSE IF ui \in Degraded THEN "DEGRADED"
  ELSE "READ_SUPPORTED"

EffectiveOther(ui, s) ==
  IF ~(s.authenticated /\ s.account /\ s.license /\ s.live) THEN "UNVERIFIED_LIVE"
  ELSE IF ui \in Degraded THEN "DEGRADED"
  ELSE IF ui = "ATTESTED" THEN "READ_SUPPORTED"
  ELSE "UNVERIFIED_LIVE"

Effective(c, ui, s) ==
  IF ~(s.policy /\ s.runtime) THEN "BLOCKED"
  ELSE IF c \in ReadOnly THEN EffectiveRead(ui, s)
  ELSE EffectiveOther(ui, s)

-----------------------------------------------------------------------------
(* The closed lifecycle (transition_ui_lifecycle).                         *)

LifecycleEvent ==
  {"EVIDENCE_STALE", "DRIFT_DETECTED", "REATTESTATION_REQUIRED", "REATTESTATION_PASSED"}

\* The state an event leads to, and None where the table has no entry.
Transition(state, event) ==
  CASE event = "DRIFT_DETECTED" -> "DRIFTED"
    [] event = "REATTESTATION_REQUIRED" -> "RE_ATTESTATION_REQUIRED"
    [] event = "EVIDENCE_STALE" -> IF state \in {"HEALTHY", "STALE"} THEN "STALE" ELSE None
    [] event = "REATTESTATION_PASSED" ->
         IF state \in {"STALE", "RE_ATTESTATION_REQUIRED"} THEN "HEALTHY" ELSE None
=============================================================================
