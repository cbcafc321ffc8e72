--------------------------- MODULE OutlookSettings --------------------------
(***************************************************************************)
(* The settings of the Outlook package: the safe and blocked senders and   *)
(* domains, mail forwarding, automatic replies, the archive preference and *)
(* those that are replaced as a whole                                      *)
(* (apps/outlook/sender_safety_management.py, domain_safety_management.py, *)
(* forwarding_settings.py, undo_send_settings.py, mail_view_settings.py,   *)
(* notification_settings.py, working_context_settings.py,                  *)
(* automatic_reply_config.py, ooo_message_config.py, ooo_schedule.py,      *)
(* retention_archive_controls.py, shared_mailbox_auto_replies.py).         *)
(***************************************************************************)
EXTENDS OutlookFixture

CONSTANTS
  Origin,           \* sender or domain keys
  Destination,      \* forwarding destinations
  Value,            \* the values of a setting that is replaced as a whole
  MaxOrigins        \* MAX_SENDER_KEYS and MAX_DOMAIN_KEYS

VARIABLES
  senders, domains, \* the blocked and the safe ones
  forwarding,
  settings,         \* each setting that is replaced as a whole
  archive,          \* the archive preference, and whether policy locks it
  autoReply         \* the message of a shared mailbox, None when off

settingsVars == <<senders, domains, forwarding, settings, archive, autoReply>>

Setting == {"undo send", "mail view", "notification", "working context",
            "reply mode", "ooo messages", "ooo schedule"}
SafetyAction == {"BLOCK", "UNBLOCK", "SAFE_ADD", "SAFE_REMOVE"}
ArchivePreference == {"DEFAULT", "ARCHIVE_WHEN_ELIGIBLE"}

ASSUME SettingsAssumption ==
  /\ IsFiniteSet(Origin) /\ MaxOrigins \in Nat \ {0} /\ Value # {}
  /\ None \notin Destination \cup Value

(* A sender or a domain is not both blocked and safe.                       *)
SafetyState ==
  {s \in [blocked : SUBSET Origin, safe : SUBSET Origin] :
     /\ s.blocked \cap s.safe = {}
     /\ Cardinality(s.blocked) <= MaxOrigins /\ Cardinality(s.safe) <= MaxOrigins}

(* Forwarding that is enabled has a destination.                            *)
ForwardingSettings ==
  {f \in [enabled : BOOLEAN, destination : Destination \cup {None}] :
     f.enabled => f.destination # None}

RetentionArchiveState == [preference : ArchivePreference, locked : BOOLEAN]

SettingsTypeOK ==
  /\ senders \in SafetyState /\ domains \in SafetyState
  /\ forwarding \in ForwardingSettings
  /\ settings \in [Setting -> Value]
  /\ archive \in RetentionArchiveState
  /\ autoReply \in Value \cup {None}

SettingsInit ==
  /\ senders = [blocked |-> {}, safe |-> {}] /\ domains = senders
  /\ forwarding = [enabled |-> FALSE, destination |-> None]
  /\ settings \in [Setting -> {CHOOSE v \in Value : TRUE}]
  /\ archive \in [preference : {"DEFAULT"}, locked : BOOLEAN]
  /\ autoReply = None

(* Mutant: a safe sender stays safe when it is blocked.                     *)
ActedWithoutDiscard(s, action, o) ==
  CASE action = "BLOCK" -> [s EXCEPT !.blocked = @ \cup {o}]
    [] action = "UNBLOCK" -> [s EXCEPT !.blocked = @ \ {o}]
    [] action = "SAFE_ADD" -> [s EXCEPT !.blocked = @ \ {o}, !.safe = @ \cup {o}]
    [] action = "SAFE_REMOVE" -> [s EXCEPT !.safe = @ \ {o}]

(* Putting an origin on one list takes it off the other.                    *)
Acted(s, action, o) ==
  CASE action = "BLOCK" -> [blocked |-> s.blocked \cup {o}, safe |-> s.safe \ {o}]
    [] action = "UNBLOCK" -> [s EXCEPT !.blocked = @ \ {o}]
    [] action = "SAFE_ADD" -> [blocked |-> s.blocked \ {o}, safe |-> s.safe \cup {o}]
    [] action = "SAFE_REMOVE" -> [s EXCEPT !.safe = @ \ {o}]

Fits(s) == Cardinality(s.blocked) <= MaxOrigins /\ Cardinality(s.safe) <= MaxOrigins

SenderSafety(action, o) ==
  /\ senders' = Acted(senders, action, o) /\ Fits(senders')
  /\ UNCHANGED <<domains, forwarding, settings, archive, autoReply>>

DomainSafety(action, o) ==
  /\ domains' = Acted(domains, action, o) /\ Fits(domains')
  /\ UNCHANGED <<senders, forwarding, settings, archive, autoReply>>

(* Switching it on, or naming another destination, takes an allowance.      *)
SetForwarding(desired, allow) ==
  /\ desired.enabled \/ desired.destination # forwarding.destination => allow
  /\ forwarding' = desired
  /\ UNCHANGED <<senders, domains, settings, archive, autoReply>>

Replace(setting, value) ==
  /\ settings' = [settings EXCEPT ![setting] = value]
  /\ UNCHANGED <<senders, domains, forwarding, archive, autoReply>>

SetUndoSend(value) == Replace("undo send", value)
SetMailView(value) == Replace("mail view", value)
SetNotification(value) == Replace("notification", value)
SetWorkingContext(value) == Replace("working context", value)
SetReplyMode(value) == Replace("reply mode", value)
SetOooMessages(value) == Replace("ooo messages", value)
SetOooSchedule(value) == Replace("ooo schedule", value)

SetArchivePreference(preference) ==
  /\ archive.locked => preference = archive.preference
  /\ archive' = [archive EXCEPT !.preference = preference]
  /\ UNCHANGED <<senders, domains, forwarding, settings, autoReply>>

(* The automatic reply of a shared mailbox, with a verified context: off    *)
(* keeps no message.                                                        *)
SetAutoReply(desired, context) ==
  /\ context = "VERIFIED"
  /\ autoReply' = desired
  /\ UNCHANGED <<senders, domains, forwarding, settings, archive>>

SettingsCall ==
  \/ \E action \in SafetyAction, o \in Origin : SenderSafety(action, o) \/ DomainSafety(action, o)
  \/ \E desired \in ForwardingSettings, allow \in BOOLEAN : SetForwarding(desired, allow)
  \/ \E preference \in ArchivePreference : SetArchivePreference(preference)
  \/ \E desired \in Value \cup {None}, context \in {"VERIFIED", "UNVERIFIED"} :
       SetAutoReply(desired, context)

ReplaceCall ==
  \E value \in Value :
    \/ SetUndoSend(value) \/ SetMailView(value) \/ SetNotification(value)
    \/ SetWorkingContext(value) \/ SetReplyMode(value)
    \/ SetOooMessages(value) \/ SetOooSchedule(value)

SettingsSpec == SettingsInit /\ [][SettingsCall \/ ReplaceCall]_settingsVars
=============================================================================
