--------------------------- MODULE OutlookPackage ---------------------------
(***************************************************************************)
(* The Outlook package, area by area.  The calls of different areas touch  *)
(* different catalogs, so a history is one of a single area: `area` is     *)
(* fixed at the start, only its calls move, and the catalogs of the other  *)
(* areas keep one of their initial values.                                 *)
(***************************************************************************)
EXTENDS OutlookTasks, OutlookPeople, OutlookMailbox, OutlookRules, OutlookDrafts,
        OutlookCalendar, OutlookPolls, OutlookSettings, OutlookPaging

VARIABLE area

TasksAreas == {"schedule", "focus", "steps", "content", "flags", "links"}
PeopleAreas == {"lists", "preferences"}
MailboxAreas == {"folders", "marks", "categories"}
RulesAreas == {"rules", "formats", "quick", "sweeps"}
DraftsAreas == {"envelope", "body", "options"}
CalendarAreas == {"events", "event options", "meetings", "grants", "sharing"}
PollsAreas == {"polls", "email polls"}
OtherAreas == {"settings", "replaced settings", "paging"}
Areas == UNION {TasksAreas, PeopleAreas, MailboxAreas, RulesAreas, DraftsAreas,
                CalendarAreas, PollsAreas, OtherAreas}

TasksMove ==
  /\ area \in TasksAreas
  /\ \/ area # "flags" /\ TaskCall
     \/ area = "schedule" /\ ScheduleCall
     \/ area = "focus" /\ FocusCall
     \/ area = "steps" /\ StepCall
     \/ area = "content" /\ ContentCall
     \/ area = "flags" /\ FlagCall
     \/ area = "links" /\ (LinkCall \/ \E m \in Message : Flag(m) \/ Unflag(m))
  /\ UNCHANGED <<peopleVars, mailboxVars, rulesVars, draftsVars, calendarVars,
                 pollsVars, settingsVars, pagingVars>>

PeopleMove ==
  /\ area \in PeopleAreas
  /\ \/ ContactCall
     \/ area = "lists" /\ (ListCall \/ MembershipCall)
     \/ area = "preferences" /\ PreferenceCall
  /\ UNCHANGED <<tasksVars, mailboxVars, rulesVars, draftsVars, calendarVars,
                 pollsVars, settingsVars, pagingVars>>

MailboxMove ==
  /\ area \in MailboxAreas
  /\ \/ area = "folders" /\ (FolderCall \/ \E m \in Message : \E f \in Folder :
                               MoveTo(m, f) \/ RestoreMessage(m, f) \/ ArchiveMessage(m))
     \/ area = "marks" /\ (MessageCall \/ MarkCall)
     \/ area = "categories" /\ CategoryCall
  /\ UNCHANGED <<tasksVars, peopleVars, rulesVars, draftsVars, calendarVars,
                 pollsVars, settingsVars, pagingVars>>

RulesMove ==
  /\ area \in RulesAreas
  /\ \/ area = "rules" /\ RuleCall
     \/ area = "formats" /\ FormatCall
     \/ area = "quick" /\ QuickCall
     \/ area = "sweeps" /\ SweepCall
  /\ UNCHANGED <<tasksVars, peopleVars, mailboxVars, draftsVars, calendarVars,
                 pollsVars, settingsVars, pagingVars>>

DraftsMove ==
  /\ area \in DraftsAreas
  /\ \/ area = "envelope" /\ (DraftCall \/ EnvelopeCall \/ IntentCall)
     \/ area = "body" /\ (BodyCall \/ CatalogCall)
     \/ area = "options" /\ (OptionCall \/ BodyCall \/ DraftCall)
  /\ area # "body" => Cardinality(Used(drafts')) <= 1
  /\ UNCHANGED <<tasksVars, peopleVars, mailboxVars, rulesVars, calendarVars,
                 pollsVars, settingsVars, pagingVars>>

CalendarMove ==
  /\ area \in CalendarAreas
  /\ \/ area = "events" /\ (AppointmentCall \/ SeriesCall)
     \/ area = "event options" /\ (OptionsCall \/ \E e \in Event :
          DeleteEvent(e) \/ CreateEvent(e, CHOOSE desired \in EventRequest : TRUE))
     \/ area = "meetings" /\ MeetingCall
     \/ area = "grants" /\ GrantCall
     \/ area = "sharing" /\ SharingCall
  /\ UNCHANGED <<tasksVars, peopleVars, mailboxVars, rulesVars, draftsVars,
                 pollsVars, settingsVars, pagingVars>>

PollsMove ==
  /\ area \in PollsAreas
  /\ \/ area = "polls" /\ PollCall
     \/ area = "email polls" /\ EmailPollCall
  /\ UNCHANGED <<tasksVars, peopleVars, mailboxVars, rulesVars, draftsVars,
                 calendarVars, settingsVars, pagingVars>>

SettingsMove ==
  /\ \/ area = "settings" /\ SettingsCall
     \/ area = "replaced settings" /\ ReplaceCall
  /\ UNCHANGED <<tasksVars, peopleVars, mailboxVars, rulesVars, draftsVars,
                 calendarVars, pollsVars, pagingVars>>

PagingMove ==
  /\ area = "paging" /\ PagingCall
  /\ UNCHANGED <<tasksVars, peopleVars, mailboxVars, rulesVars, draftsVars,
                 calendarVars, pollsVars, settingsVars>>

(* Initial values that differ matter only to the area that moves.           *)
OutlookInit ==
  /\ area \in Areas
  /\ TasksInit /\ PeopleInit /\ MailboxInit /\ RulesInit /\ DraftsInit
  /\ CalendarInit /\ PollsInit /\ SettingsInit /\ PagingInit
  /\ \A f, g \in Protected : folders[f].name = folders[g].name
  /\ area # "quick" => \A place \in Place : mail.folder = CHOOSE p \in Place : TRUE
  /\ area \notin DraftsAreas => Used(drafts) = {}
  /\ area \notin CalendarAreas => Used(events) = {}
  /\ area # "settings" => ~archive.locked
  /\ area # "paging" => matching = {} /\ walk.limit = 1

OutlookNext ==
  /\ \/ TasksMove \/ PeopleMove \/ MailboxMove \/ RulesMove \/ DraftsMove
     \/ CalendarMove \/ PollsMove \/ SettingsMove \/ PagingMove
  /\ UNCHANGED area

OutlookSpec ==
  OutlookInit /\ [][OutlookNext]_<<area, tasksVars, peopleVars, mailboxVars, rulesVars,
                           draftsVars, calendarVars, pollsVars, settingsVars, pagingVars>>

-----------------------------------------------------------------------------
(* Every catalog holds records the package's constructors accept, within    *)
(* its bounds.                                                              *)
OutlookTypeOK ==
  /\ TasksTypeOK /\ PeopleTypeOK /\ MailboxTypeOK /\ RulesTypeOK /\ DraftsTypeOK
  /\ CalendarTypeOK /\ PollsTypeOK /\ SettingsTypeOK /\ PagingTypeOK

(* What one catalog says of another, or of itself, stays true whatever is   *)
(* created, moved and deleted: messages are in folders there are, folders   *)
(* are trees, orders are 1 to n, votes are for options on offer, a draft's  *)
(* From is an identity the account may use and no calendar has more         *)
(* delegates than a policy allows.                                          *)
CatalogsAgree ==
  /\ NothingDangles /\ FoldersFormTrees /\ OrdersStayContiguous
  /\ TalliesAddUp /\ SendersAreAuthorized /\ DelegatesAreBounded

(* Reads that build on other reads, or on themselves, lose nothing: the     *)
(* common slots of three layers are those free of events, and a walk from   *)
(* page to page misses no more than was taken out under it.                 *)
ReadsAreExact == CommonSlotsSuit /\ WalksMissOnlyTheShifted

(* What is kept under the key of something deleted is frozen until the key  *)
(* is used again: no call of any module cleans it up, or changes it.        *)
DeletedKeysAreFrozen == OrphansAreFrozen /\ GoneContactsAreFrozen /\ GoneEventsAreFrozen

(* What is completed or closed stays so, with all it held.                  *)
FinalStaysFinal == CompletedStaysCompleted /\ CompletionIsFixed /\ ClosedPollsAreFinal

(* A call changes what it names and nothing next to it: one facet of a      *)
(* draft, one member of a list, one entry of an order, never the owner of a *)
(* key or the second copy of a due day.                                     *)
CallsAreLocal ==
  /\ EditsKeepTheRest /\ MembersLeaveOneByOne /\ OthersKeepTheirOrder
  /\ KeysKeepTheirTask /\ ScheduleAgrees

(* Nothing that deletes comes to be, no quick step is executed and no       *)
(* message passes from pinned to snoozed beyond what the call says.         *)
EffectsAreAllowed == DeletionIsAllowed /\ OutboundChangesNothing /\ NoImplicitTransition
=============================================================================
