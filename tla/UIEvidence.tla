----------------------------- MODULE UIEvidence -----------------------------
(***************************************************************************)
(* How evidence about the user interface is gathered and what it is worth. *)
(* An observation of one fragment is written to a document by a collector  *)
(* or by an operator's controlled run; scripts/attest_ui_contract.py       *)
(* evaluates a document against the contract of the checkout and appends   *)
(* the outcome to an append-only store; the freshness policy turns the     *)
(* latest rows into a lifecycle overlay, which decides the support a       *)
(* capability may claim; a passed READ observation can be built into       *)
(* evidence that promotes one capability to SUPPORTED_LIVE.                *)
(*                                                                         *)
(* A document is a file: it can wait while the contract moves on, be lost, *)
(* be evaluated late, twice or after a newer one, and it was stamped by a  *)
(* clock that may run ahead.  So any document that can have been written   *)
(* by now may be evaluated in any step.                                    *)
(***************************************************************************)
EXTENDS UIContract, Sequences

CONSTANTS
  Revisions,      \* digests of the contract sets that are ever merged
  Contents,       \* the contract set each of them is the digest of
  Accepting,      \* the fragments of the application with a read acceptance
  MaxAge,         \* max_age_seconds of the lifetime policy
  PromotionAge,   \* --max-age-seconds of a promotion
  MaxClock,       \* bound: the last instant
  MaxSkew,        \* bound: how far a collector's clock may run ahead
  MaxRows         \* bound: rows of the store

ASSUME RevisionsAssumption ==
  \A rev \in Revisions : /\ DOMAIN Contents[rev] = Fragments
                         /\ \A f \in Fragments : WellFormed(Contents[rev][f])
ASSUME BoundsAssumption ==
  /\ Accepting \subseteq Fragments
  /\ {MaxAge, PromotionAge} \subseteq Nat \ {0}
  /\ {MaxClock, MaxSkew, MaxRows} \subseteq Nat

VARIABLES
  contract,   \* digest of the contract set of the checkout
  clock,
  rows,       \* capability_ui_evidence, in the order of sequence
  support     \* the recorded live support of the accepted capability

vars == <<contract, clock, rows, support>>

Level == {"DISCOVERY", "UI", "READ", "MUTATION"}
Semantic == {"READ", "MUTATION"}

LiveSupport == {"LIVE_UNOBSERVED", "SUPPORTED_LIVE", "RE_ATTESTATION_REQUIRED"}

-----------------------------------------------------------------------------
(* Observations.  "bound": campaign, version and selectors are those of the *)
(* contract it names; "unique": every selector matched exactly once;        *)
(* "proof": nothing beyond that, the read probe, or the read probe and an   *)
(* approved, read back and compensated mutation.                            *)

Instant == 0..(MaxClock + MaxSkew)

Observation ==
  [fragment : Fragments, contract : Revisions, bound : BOOLEAN, level : Level,
   source : {"LIVE_UI", "MOCK"}, at : Instant, unique : BOOLEAN,
   proof : {"none", "read", "mutation"}]

\* collect_structural_observation: bound to the contract it was built with;
\* a selector without a locator plan is never found; no probe is recorded.
Collected ==
  {o \in Observation : /\ o.source = "LIVE_UI" /\ o.bound /\ o.proof = "none"
                       /\ o.unique => ~DiscoveryRequired(Contents[o.contract][o.fragment])}

\* External: a controlled live run, the only one that can record a probe.
Reported ==
  {o \in Observation : /\ o.source = "LIVE_UI"
                       /\ o.proof # "none" => o.level \in Semantic /\ o.unique
                       /\ o.proof = "mutation" => o.level = "MUTATION"
                       /\ ~o.bound => o.level = "DISCOVERY"}

\* External: a document no page was looked at for.
Sketched == {o \in Observation : o.source = "MOCK" /\ o.unique /\ o.bound /\ o.proof = "read"}

Documents == Collected \union Reported \union Sketched

-----------------------------------------------------------------------------
(* The verdict on an observation.                                          *)

Verdict(decision, lifecycle) == [decision |-> decision, lifecycle |-> lifecycle]

Review == Verdict("REVIEW_REQUIRED", "RE_ATTESTATION_REQUIRED")

\* Fault: where the observation comes from is not asked.
EvaluationWhateverSource(o) ==
  LET attested == EffectivelyAttested(Contents[o.contract][o.fragment])
  IN  IF ~o.bound THEN Verdict("FAILED", "RE_ATTESTATION_REQUIRED")
      ELSE IF ~o.unique THEN Verdict("FAILED", "DRIFTED")
      ELSE IF o.level = "DISCOVERY" \/ ~attested THEN Review
      ELSE Verdict("PASSED", "HEALTHY")

\* evaluate_attestation_observation, its early returns in their order.
Evaluation(o) ==
  LET doc == Contents[o.contract][o.fragment]
      attested == EffectivelyAttested(doc)
  IN  IF ~o.bound THEN Verdict("FAILED", "RE_ATTESTATION_REQUIRED")
      ELSE IF o.source # "LIVE_UI" THEN Review
      ELSE IF ~o.unique
           THEN Verdict("FAILED", IF attested THEN "DRIFTED" ELSE "RE_ATTESTATION_REQUIRED")
      ELSE IF o.level = "DISCOVERY" \/ DiscoveryRequired(doc) \/ ~attested THEN Review
      ELSE IF o.level \in Semantic /\ o.proof = "none" THEN Verdict("FAILED", "DRIFTED")
      ELSE IF o.level = "MUTATION" /\ o.proof # "mutation"
           THEN Verdict("FAILED", "RE_ATTESTATION_REQUIRED")
      ELSE Verdict("PASSED", "HEALTHY")

\* The record of a decision: "seen" stands for the evidence digest, of which
\* it says whether a live page was seen to match.
Record(o) ==
  [fragment |-> o.fragment, contract |-> o.contract, at |-> o.at,
   seen |-> o.source = "LIVE_UI" /\ o.bound /\ o.unique,
   state |-> Evaluation(o).lifecycle]

EvidenceRecord ==
  [fragment : Fragments, contract : Revisions, at : Instant, seen : BOOLEAN,
   state : LifecycleState]

-----------------------------------------------------------------------------
(* The store and what is read from it.                                     *)

\* Rows of fragment f under the contract in force.
RowsFor(f) ==
  {i \in DOMAIN rows : rows[i].fragment = f /\ rows[i].contract = contract}

\* Fault: the row appended last, whatever instant it is evidence of.
LatestAppended(f) == CHOOSE i \in RowsFor(f) : \A j \in RowsFor(f) : j <= i

\* ORDER BY recorded_at DESC, sequence DESC.
Latest(f) ==
  CHOOSE i \in RowsFor(f) :
    \A j \in RowsFor(f) :
      rows[j].at < rows[i].at \/ (rows[j].at = rows[i].at /\ j <= i)

\* Fault: evidence never gets old.
FreshnessForEver(f) ==
  IF RowsFor(f) = {} THEN "RE_ATTESTATION_REQUIRED" ELSE rows[Latest(f)].state

\* _assess_fragment under the shipped policy.
Freshness(f) ==
  IF RowsFor(f) = {} THEN "RE_ATTESTATION_REQUIRED"
  ELSE LET row == rows[Latest(f)]
       IN  IF row.state # "HEALTHY" THEN row.state
           ELSE IF row.at > clock THEN "RE_ATTESTATION_REQUIRED"
           ELSE IF clock >= row.at + MaxAge THEN "STALE"
           ELSE "HEALTHY"

Overlay == [f \in Fragments |-> Freshness(f)]

\* The most a session can offer: support is then up to the evidence.
WholeSession ==
  [policy |-> TRUE, runtime |-> TRUE, authenticated |-> TRUE, account |-> TRUE,
   license |-> TRUE, live |-> TRUE, readPath |-> TRUE]

EffectiveState(c) == Effective(c, Attestation(Contents[contract], Overlay, c), WholeSession)

-----------------------------------------------------------------------------
(* Steps.                                                                  *)

\* External: a review merges another contract set.
Merge(rev) ==
  /\ contract' = rev
  /\ UNCHANGED <<clock, rows, support>>

Tick ==
  /\ clock < MaxClock
  /\ clock' = clock + 1
  /\ UNCHANGED <<contract, rows, support>>

\* Documents that can have been written by now.
Written(o) == o.at <= clock + MaxSkew

\* attest_ui_contract.py evaluate --state.  The store refuses an observation
\* of another contract set, so nothing is written; a record it already holds
\* is ignored, and one that differs in its digest alone is appended.
Evaluate(o) ==
  /\ Written(o)
  /\ o.contract = contract
  /\ Len(rows) < MaxRows
  /\ \/ rows' = Append(rows, Record(o))
     \/ (\E i \in DOMAIN rows : rows[i] = Record(o)) /\ rows' = rows
  /\ UNCHANGED <<contract, clock, support>>

\* build_outlook_readonly_live_evidence, with account, mailbox and gates
\* proven: the observations promotion evidence can have been built from.
Accepted ==
  {o \in Documents : /\ o.fragment \in Accepting
                     /\ o.source = "LIVE_UI" /\ o.level = "READ" /\ o.proof = "read"
                     /\ Evaluation(o).decision = "PASSED"}

\* Evidence that was not built so, only written down.
Claimed == {o \in Sketched : o.fragment \in Accepting /\ o.level = "READ"}

Invalid == IF support = "SUPPORTED_LIVE" THEN "RE_ATTESTATION_REQUIRED" ELSE "LIVE_UNOBSERVED"

\* Fault: the contract the evidence was taken under is not compared.
DecisionOnAnyContract(o, gates, dependencies) ==
  IF o.source # "LIVE_UI" THEN Invalid
  ELSE IF o.at > clock \/ clock - o.at > PromotionAge THEN "RE_ATTESTATION_REQUIRED"
  ELSE IF ~gates THEN Invalid
  ELSE IF ~dependencies THEN "LIVE_UNOBSERVED"
  ELSE "SUPPORTED_LIVE"

\* evaluate_promotion.
PromotionDecision(o, gates, dependencies) ==
  IF o.source # "LIVE_UI" THEN Invalid
  ELSE IF o.contract # contract THEN "RE_ATTESTATION_REQUIRED"
  ELSE IF o.at > clock \/ clock - o.at > PromotionAge THEN "RE_ATTESTATION_REQUIRED"
  ELSE IF ~gates THEN Invalid
  ELSE IF ~dependencies THEN "LIVE_UNOBSERVED"
  ELSE "SUPPORTED_LIVE"

\* evaluate_capability_promotion.py, given the digest of the contract in force
\* and the state it reported before.
Promote(o, gates, dependencies) ==
  /\ Written(o)
  /\ support' = PromotionDecision(o, gates, dependencies)
  /\ UNCHANGED <<contract, clock, rows>>

-----------------------------------------------------------------------------
Init ==
  /\ contract \in Revisions
  /\ clock = 0
  /\ rows = <<>>
  /\ support = "LIVE_UNOBSERVED"

Next ==
  \/ \E rev \in Revisions : Merge(rev)
  \/ Tick
  \/ \E o \in Documents : Evaluate(o)
  \/ \E o \in Accepted \union Claimed, gates, dependencies \in BOOLEAN :
       Promote(o, gates, dependencies)

Spec == Init /\ [][Next]_vars

-----------------------------------------------------------------------------
(* Properties.                                                             *)

TypeOK ==
  /\ contract \in Revisions
  /\ clock \in 0..MaxClock
  /\ rows \in Seq(EvidenceRecord)
  /\ support \in LiveSupport

\* A capability that names its fragments is supported only if each of them is
\* attested by review, and stored evidence taken under this very contract, not
\* in the future and younger than MaxAge, says that a live page was seen to
\* match, which no evidence of a later instant contradicts, in whatever order
\* the documents were evaluated.
SupportIsWitnessed ==
  \A c \in Capabilities :
    Needs[c] # {} /\ EffectiveState(c) = "READ_SUPPORTED" =>
      \A f \in Needs[c] :
        /\ EffectivelyAttested(Contents[contract][f])
        /\ \E i \in RowsFor(f) :
             /\ rows[i].seen
             /\ rows[i].at <= clock /\ clock < rows[i].at + MaxAge
             /\ \A j \in RowsFor(f) : rows[j].at > rows[i].at => rows[j].state = "HEALTHY"

\* The row the step appends, if it appends one.
Appends == Len(rows') = Len(rows) + 1
NewRow == rows'[Len(rows')]

\* A document evaluated late does not change what newer evidence established.
OlderEvidenceChangesNothing ==
  [][Appends /\ (\E i \in RowsFor(NewRow.fragment) : rows[i].at > NewRow.at)
       => Overlay' = Overlay]_vars

\* Evaluating evidence about one fragment leaves the support of every
\* capability that does not depend on that fragment as it was.
DegradationIsScoped ==
  [][Appends => \A c \in Capabilities :
       NewRow.fragment \notin Needs[c] => EffectiveState(c)' = EffectiveState(c)]_vars

\* A capability is promoted only if the contract in force attests its fragment
\* and a live read of a page that matched it was observed not long ago.
PromotedOnLiveRead ==
  [][support # "SUPPORTED_LIVE" /\ support' = "SUPPORTED_LIVE" =>
       \E o \in Reported :
         /\ o.level = "READ" /\ o.proof = "read" /\ o.unique
         /\ o.contract = contract /\ o.fragment \in Accepting
         /\ EffectivelyAttested(Contents[contract][o.fragment])
         /\ o.at <= clock /\ clock <= o.at + PromotionAge]_vars

\* "A detected drift cannot jump directly back to HEALTHY": under one contract
\* the recorded lifecycle of a fragment moves along the closed transitions.
DriftNeedsReattestation ==
  [][\A f \in Fragments : Appends /\ NewRow.fragment = f /\ RowsFor(f) # {} =>
       LET before == rows[Latest(f)].state
           after == rows'[Latest(f)'].state
       IN  before = after \/ \E e \in LifecycleEvent : Transition(before, e) = after]_vars
=============================================================================
