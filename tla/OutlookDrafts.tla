--------------------------- MODULE OutlookDrafts ----------------------------
(***************************************************************************)
(* The drafts of the Outlook package, the signatures, templates and        *)
(* snippets put into them, and the outbound intents prepared from them     *)
(* (apps/outlook/draft_*.py, recipient_resolution.py,                      *)
(* from_identity_mutations.py, signature_management.py,                    *)
(* mail_template_management.py, my_template_snippets.py, *_intents.py,     *)
(* shared_mailbox_send_as.py, shared_mailbox_send_on_behalf.py).           *)
(* No intent can be executed: what matters is which of them are prepared.  *)
(***************************************************************************)
EXTENDS OutlookFixture

CONSTANTS
  Draft, Text, File, Signature, Insert,
  Identity, Primary,            \* From identities; the one of a new draft
  SharedIdentity, DelegatedIdentity, Authorized,
  Slot,                         \* times a draft may be scheduled for
  MaxFiles, MaxRecipients

VARIABLES
  drafts,       \* draft -> its record, or None
  signatures,   \* signature -> enabled or not, None when there is none
  templates,    \* mail template -> its text, or None
  snippets,     \* snippet -> its text, or None
  intent        \* the intent the latest call prepared, or None

catalogVars == <<signatures, templates, snippets>>
draftsVars == <<drafts, signatures, templates, snippets, intent>>

Blank == CHOOSE t \in Text : TRUE
Importance == {"LOW", "NORMAL", "HIGH"}
Sensitivity == {"NORMAL", "PRIVATE"}

SyntheticDraft ==
  [text : Text, from : Identity, to : SUBSET Person, cc : SUBSET Person,
   bcc : SUBSET Person, files : SUBSET File, importance : Importance,
   sensitivity : Sensitivity, signature : Signature \cup {None}, receipt : BOOLEAN]

IntentKind == {"SCHEDULE_SEND", "SEND_DRAFT", "REPLY", "REPLY_ALL", "FORWARD", "RESEND", "RECALL"}

(* `as` is the identity a shared-mailbox intent was prepared for.           *)
SyntheticOutboundIntent ==
  [kind : IntentKind, draft : Draft \cup {None}, source : Message \cup {None},
   slot : Slot \cup {None}, as : Identity \cup {None}]

ASSUME DraftsAssumption ==
  /\ Text # {} /\ IsFiniteSet(Person) /\ IsFiniteSet(File)
  /\ SharedIdentity \cup DelegatedIdentity \cup Authorized \subseteq Identity
  /\ SharedIdentity \cap DelegatedIdentity = {}
  /\ Primary \in Authorized
  /\ {MaxFiles, MaxRecipients} \subseteq Nat \ {0}
  /\ None \notin SyntheticDraft \cup BOOLEAN \cup Text \cup SyntheticOutboundIntent
  /\ None \notin Signature \cup Identity \cup Message \cup Draft \cup Slot

DraftsTypeOK ==
  /\ drafts \in [Draft -> SyntheticDraft \cup {None}]
  /\ signatures \in [Signature -> BOOLEAN \cup {None}]
  /\ templates \in [Insert -> Text \cup {None}]
  /\ snippets \in [Insert -> Text \cup {None}]
  /\ intent \in SyntheticOutboundIntent \cup {None}
  /\ \A d \in Used(drafts) :
       /\ Cardinality(drafts[d].files) <= MaxFiles
       /\ \A field \in {"to", "cc", "bcc"} : Cardinality(drafts[d][field]) <= MaxRecipients

NewDraft(text) ==
  [text |-> text, from |-> Primary, to |-> {}, cc |-> {}, bcc |-> {}, files |-> {},
   importance |-> "NORMAL", sensitivity |-> "NORMAL", signature |-> None, receipt |-> FALSE]

DraftsInit ==
  /\ drafts \in {first \in [Draft -> {NewDraft(Blank), None}] : Cardinality(Used(first)) <= 1}
  /\ signatures = [s \in Signature |-> None]
  /\ templates = [i \in Insert |-> None]
  /\ snippets = [i \in Insert |-> None]
  /\ intent = None

PutDraft(d, desired) ==
  /\ drafts' = [drafts EXCEPT ![d] = desired]
  /\ intent' = None
  /\ UNCHANGED catalogVars

(***************************************************************************)
(* draft_mutations.py                                                      *)
(***************************************************************************)
CreateDraft(d, text) == drafts[d] = None /\ PutDraft(d, NewDraft(text))

(* Mutant: UPDATE builds the draft anew.                                    *)
UpdateDraftAnew(d, text) == drafts[d] # None /\ PutDraft(d, NewDraft(text))

UpdateDraft(d, text) ==
  drafts[d] # None /\ PutDraft(d, [drafts[d] EXCEPT !.text = text])

DiscardDraft(d) == PutDraft(d, None)

(***************************************************************************)
(* recipient_resolution.py: the queries name known people, each once in a  *)
(* field; the other fields may name them too.                              *)
(***************************************************************************)
AssignRecipients(d, field, people) ==
  /\ drafts[d] # None /\ Cardinality(people) <= MaxRecipients
  /\ PutDraft(d, [drafts[d] EXCEPT ![field] = people])

(***************************************************************************)
(* from_identity_mutations.py                                              *)
(***************************************************************************)
(* Mutant: whether the identity is authorized is not asked.                 *)
SelectAnyFrom(d, identity) ==
  drafts[d] # None /\ PutDraft(d, [drafts[d] EXCEPT !.from = identity])

SelectFrom(d, identity) ==
  /\ drafts[d] # None /\ identity \in Authorized
  /\ PutDraft(d, [drafts[d] EXCEPT !.from = identity])

(***************************************************************************)
(* draft_attachment_mutations.py                                           *)
(***************************************************************************)
(* Mutant: the bound is off by one.                                         *)
AddFilePastBound(d, file) ==
  /\ drafts[d] # None
  /\ file \notin drafts[d].files => Cardinality(drafts[d].files) <= MaxFiles
  /\ PutDraft(d, [drafts[d] EXCEPT !.files = @ \cup {file}])

AddFile(d, file) ==
  /\ drafts[d] # None
  /\ file \notin drafts[d].files => Cardinality(drafts[d].files) < MaxFiles
  /\ PutDraft(d, [drafts[d] EXCEPT !.files = @ \cup {file}])

RemoveFile(d, file) ==
  drafts[d] # None /\ PutDraft(d, [drafts[d] EXCEPT !.files = @ \ {file}])

(***************************************************************************)
(* draft_option_mutations.py and draft_receipt_mutations.py: what the      *)
(* request leaves out keeps its value.                                     *)
(***************************************************************************)
SetOptions(d, importance, sensitivity) ==
  /\ drafts[d] # None /\ (importance # None \/ sensitivity # None)
  /\ PutDraft(d, [drafts[d] EXCEPT
       !.importance = IF importance = None THEN @ ELSE importance,
       !.sensitivity = IF sensitivity = None THEN @ ELSE sensitivity])

SetReceipt(d, wanted) ==
  drafts[d] # None /\ PutDraft(d, [drafts[d] EXCEPT !.receipt = wanted])

(***************************************************************************)
(* draft_signature_mutations.py and draft_template_mutations.py            *)
(***************************************************************************)
ApplySignature(d, s) ==
  /\ drafts[d] # None /\ signatures[s] = TRUE
  /\ PutDraft(d, [drafts[d] EXCEPT !.signature = s])

ClearSignature(d) ==
  drafts[d] # None /\ PutDraft(d, [drafts[d] EXCEPT !.signature = None])

(* The caller offers templates, snippets or both as inserts: a key must     *)
(* resolve to exactly one of them.  The insert replaces the body, or is     *)
(* appended to it, which may make any text of it.                           *)
Inserts == [templates |-> templates, snippets |-> snippets]
Known(offered, i) == {c \in offered : Inserts[c][i] # None}

InsertText(d, i, offered, mode, text) ==
  /\ drafts[d] # None
  /\ \E c \in offered :
       /\ Known(offered, i) = {c}
       /\ mode = "REPLACE_BODY" => text = Inserts[c][i]
  /\ PutDraft(d, [drafts[d] EXCEPT !.text = text])

(***************************************************************************)
(* signature_management.py, mail_template_management.py and                *)
(* my_template_snippets.py: the three catalogs are kept alike.  They do    *)
(* not look at the drafts.                                                 *)
(***************************************************************************)
PutSignature(s, enabled) ==
  /\ signatures' = [signatures EXCEPT ![s] = enabled]
  /\ intent' = None
  /\ UNCHANGED <<drafts, templates, snippets>>

CreateSignature(s, enabled) == signatures[s] = None /\ PutSignature(s, enabled)
UpdateSignature(s, enabled) == signatures[s] # None /\ PutSignature(s, enabled)
DeleteSignature(s) == PutSignature(s, None)

PutTemplate(i, text) ==
  /\ templates' = [templates EXCEPT ![i] = text]
  /\ intent' = None
  /\ UNCHANGED <<drafts, signatures, snippets>>

CreateTemplate(i, text) == templates[i] = None /\ PutTemplate(i, text)
UpdateTemplate(i, text) == templates[i] # None /\ PutTemplate(i, text)
DeleteTemplate(i) == PutTemplate(i, None)

PutSnippet(i, text) ==
  /\ snippets' = [snippets EXCEPT ![i] = text]
  /\ intent' = None
  /\ UNCHANGED <<drafts, signatures, templates>>

CreateSnippet(i, text) == snippets[i] = None /\ PutSnippet(i, text)
UpdateSnippet(i, text) == snippets[i] # None /\ PutSnippet(i, text)
DeleteSnippet(i) == PutSnippet(i, None)

(***************************************************************************)
(* The intents.  `sent` are the sent messages of the fixture that comes    *)
(* with the call.                                                          *)
(***************************************************************************)
HasRecipient(d) == drafts[d].to \cup drafts[d].cc \cup drafts[d].bcc # {}

Intent(kind, d, source, slot, as) ==
  [kind |-> kind, draft |-> d, source |-> source, slot |-> slot, as |-> as]

Prepare(desired) == intent' = desired /\ UNCHANGED <<drafts, catalogVars>>

PrepareSendDraft(d) ==
  /\ drafts[d] # None /\ HasRecipient(d)
  /\ Prepare(Intent("SEND_DRAFT", d, None, None, None))

PrepareScheduleSend(d, slot) ==
  /\ drafts[d] # None /\ HasRecipient(d)
  /\ Prepare(Intent("SCHEDULE_SEND", d, None, slot, None))

PrepareReply(d, kind, m) ==
  drafts[d] # None /\ Prepare(Intent(kind, d, m, None, None))

PrepareForward(d, m) ==
  /\ drafts[d] # None /\ HasRecipient(d)
  /\ Prepare(Intent("FORWARD", d, m, None, None))

PrepareResend(d, m, sent) ==
  /\ drafts[d] # None /\ HasRecipient(d) /\ m \in sent
  /\ Prepare(Intent("RESEND", d, m, None, None))

PrepareRecall(m, sent) ==
  m \in sent /\ Prepare(Intent("RECALL", None, m, None, None))

(* With a verified shared-mailbox context: the From is selected and the     *)
(* intent prepared in one call.  Recipients are not asked for.              *)
PrepareSendFrom(d, identity, mode) ==
  /\ drafts[d] # None /\ identity \in mode \cap Authorized
  /\ drafts' = [drafts EXCEPT ![d].from = identity]
  /\ intent' = Intent("SEND_DRAFT", d, None, None, identity)
  /\ UNCHANGED catalogVars

PrepareSendAs(d, identity, context) ==
  context = "VERIFIED" /\ PrepareSendFrom(d, identity, SharedIdentity)

PrepareSendOnBehalf(d, identity, context) ==
  context = "VERIFIED" /\ PrepareSendFrom(d, identity, DelegatedIdentity)

(***************************************************************************)
(* shared_mailbox_context.py: the state of an observation, the first that  *)
(* applies.                                                                *)
(***************************************************************************)
Observation ==
  [primary_valid : BOOLEAN, reattestation : BOOLEAN, ambiguous : BOOLEAN,
   primary_indicator : BOOLEAN, shell : BOOLEAN]

SharedContext(o) ==
  IF ~o.primary_valid THEN "PRIMARY_CONTEXT_INVALID"
  ELSE IF o.reattestation THEN "REATTESTATION_REQUIRED"
  ELSE IF o.ambiguous THEN "AMBIGUOUS"
  ELSE IF o.primary_indicator THEN "PRIMARY_MAILBOX_CONTEXT"
  ELSE IF o.shell THEN "VERIFIED" ELSE "UNVERIFIED"

-----------------------------------------------------------------------------
EnvelopeCall ==
  \E d \in Draft :
    \/ \E field \in {"to", "cc", "bcc"}, people \in SUBSET Person :
         AssignRecipients(d, field, people)
    \/ \E identity \in Identity : SelectFrom(d, identity)

DraftCall ==
  \E d \in Draft :
    DiscardDraft(d) \/ \E text \in Text : CreateDraft(d, text) \/ UpdateDraft(d, text)

BodyCall ==
  \E d \in Draft :
    \/ \E file \in File : AddFile(d, file) \/ RemoveFile(d, file)
    \/ \E s \in Signature : ApplySignature(d, s)
    \/ ClearSignature(d)
    \/ \E i \in Insert, mode \in {"REPLACE_BODY", "APPEND"}, text \in Text :
         \E offered \in SUBSET {"templates", "snippets"} : InsertText(d, i, offered, mode, text)

OptionCall ==
  \E d \in Draft :
    \/ \E importance \in Importance \cup {None}, sensitivity \in Sensitivity \cup {None} :
         SetOptions(d, importance, sensitivity)
    \/ \E wanted \in BOOLEAN : SetReceipt(d, wanted)

CatalogCall ==
  \/ \E s \in Signature :
       DeleteSignature(s) \/ \E enabled \in BOOLEAN : CreateSignature(s, enabled)
                                                      \/ UpdateSignature(s, enabled)
  \/ \E i \in Insert :
       \/ DeleteTemplate(i) \/ DeleteSnippet(i)
       \/ \E text \in Text : \/ CreateTemplate(i, text) \/ UpdateTemplate(i, text)
                            \/ CreateSnippet(i, text) \/ UpdateSnippet(i, text)

IntentCall ==
  \/ \E d \in Draft :
       \/ PrepareSendDraft(d)
       \/ \E slot \in Slot : PrepareScheduleSend(d, slot)
       \/ \E m \in Message :
            \/ \E kind \in {"REPLY", "REPLY_ALL"} : PrepareReply(d, kind, m)
            \/ PrepareForward(d, m)
            \/ \E sent \in SUBSET Message : PrepareResend(d, m, sent)
       \/ \E identity \in Identity, o \in Observation :
            \/ PrepareSendAs(d, identity, SharedContext(o))
            \/ PrepareSendOnBehalf(d, identity, SharedContext(o))
  \/ \E m \in Message, sent \in SUBSET Message : PrepareRecall(m, sent)

DraftsNext ==
  EnvelopeCall \/ DraftCall \/ BodyCall \/ OptionCall \/ CatalogCall \/ IntentCall

DraftsSpec == DraftsInit /\ [][DraftsNext]_draftsVars

-----------------------------------------------------------------------------
(* A call edits one facet of one draft and leaves the envelope, the files,  *)
(* the options and the signature it does not name as they were: only        *)
(* discarding and creating again starts from nothing.                       *)
Facets(r) ==
  <<r.text, r.from, r.to, r.cc, r.bcc, r.files,
    <<r.importance, r.sensitivity>>, r.signature, r.receipt>>

EditsKeepTheRest ==
  [][Cardinality({f \in Used(drafts) \X (1..9) :
                    /\ drafts[f[1]]' # None
                    /\ Facets(drafts[f[1]])[f[2]] # Facets(drafts[f[1]]')[f[2]]}) <= 1]_draftsVars

(* Whichever of the four calls set it, the From of a draft is an identity   *)
(* the account is authorized for, and a send-as or on-behalf intent finds   *)
(* the draft under the identity it was prepared for.                        *)
SendersAreAuthorized ==
  /\ \A d \in Used(drafts) : drafts[d].from \in Authorized
  /\ intent # None => (intent.as # None => drafts[intent.draft].from = intent.as)
=============================================================================
