-------------------------- MODULE OutlookCalendar ---------------------------
(***************************************************************************)
(* The calendar of the Outlook package: appointments and their options,    *)
(* the free-busy reads, the scheduling grid and the search for common      *)
(* slots derived from them, meetings with their attendees and prepared     *)
(* messages, and the sharing of calendars (apps/outlook/appointment_*.py,  *)
(* calendar_*.py, availability_reads.py, scheduling_assistant.py,          *)
(* common_slot_search.py, meeting_*.py, teams_meeting_option.py,           *)
(* shared_calendar_membership.py, ooo_calendar_block.py).                  *)
(*                                                                         *)
(* Time is one number, a day offset and a minute of the day together; a    *)
(* slot is one unit of it.                                                 *)
(***************************************************************************)
EXTENDS OutlookFixture

CONSTANTS
  Event,                    \* event keys, numbers: listings are ordered by them
  Calendar,                 \* the calendars there are
  EventRequest,             \* the appointments a request may write
  FirstEvents,              \* the event catalogs the caller may start from
  Horizon,                  \* the slots of a window
  Participant, CalendarOf, Required,
  EventOptions,             \* reminder and categories, as a value
  Meeting, Series, Payload, Block,
  Delegates,                \* the limits on delegates a policy may set
  MaxEvents, MaxPage,       \* _MAX_EVENTS, _MAX_PAGE_SIZE
  MaxSlots,                 \* results a search asks for
  MaxAttendees, MaxGrants, MaxPublications, MaxShared, MaxBlocks

VARIABLES
  events,       \* event -> its record, or None
  options,      \* event -> its options, or None
  series,       \* recurrence series -> its payload, or None
  meetings,     \* meeting -> its payload, or None
  attendees,    \* meeting and person -> role, or None
  prepared,     \* what is prepared for a meeting, by kind: a payload, or None
  grants,       \* calendar and person -> role, or None
  published,    \* calendar -> detail, or None
  shared,       \* pairs of a calendar and a member
  blocks        \* out-of-office block -> its payload, or None

eventVars == <<events, options, series>>
meetingVars == <<meetings, attendees, prepared>>
sharingVars == <<grants, published, shared, blocks>>
calendarVars == <<events, options, series, meetings, attendees, prepared,
                  grants, published, shared, blocks>>

ShowAs == {"FREE", "TENTATIVE", "BUSY", "OUT_OF_OFFICE"}
SyntheticEvent ==
  [calendar : Calendar, start : Int, duration : Nat \ {0}, cancelled : BOOLEAN,
   recurring : BOOLEAN, show_as : ShowAs, private : BOOLEAN]

AttendeeRole == {"REQUIRED", "OPTIONAL"}
CalendarRole == {"FREE_BUSY", "READER", "EDITOR", "DELEGATE"}
PublicationDetail == {"FREE_BUSY_ONLY", "LIMITED", "FULL"}
PreparedKind == {"RESPONSE", "RESPONSE_MESSAGE", "NEW_TIME", "CANCEL", "FORWARD", "TEAMS"}

ASSUME CalendarAssumption ==
  /\ Event \subseteq Nat /\ IsFiniteSet(Event)
  /\ IsFiniteSet(Calendar) /\ IsFiniteSet(Person) /\ IsFiniteSet(Meeting) /\ IsFiniteSet(Block)
  /\ EventRequest \subseteq {e \in SyntheticEvent : ~e.cancelled} /\ EventRequest # {}
  /\ FirstEvents \subseteq {first \in [Event -> SyntheticEvent \cup {None}] :
                             Cardinality(Used(first)) <= MaxEvents}
  /\ CalendarOf \in [Participant -> Calendar] /\ Required \subseteq Participant
  /\ {Horizon, MaxEvents, MaxPage, MaxSlots} \subseteq Nat \ {0}
  /\ {MaxAttendees, MaxGrants, MaxPublications, MaxShared, MaxBlocks} \subseteq Nat \ {0}
  /\ Delegates \subseteq Nat
  /\ None \notin SyntheticEvent \cup EventOptions \cup Payload
  /\ None \notin AttendeeRole \cup CalendarRole \cup PublicationDetail

CalendarTypeOK ==
  /\ events \in [Event -> SyntheticEvent \cup {None}]
  /\ options \in [Event -> EventOptions \cup {None}]
  /\ series \in [Series -> Payload \cup {None}]
  /\ meetings \in [Meeting -> Payload \cup {None}]
  /\ attendees \in [Meeting \X Person -> AttendeeRole \cup {None}]
  /\ prepared \in [PreparedKind \X Meeting -> Payload \cup {None}]
  /\ grants \in [Calendar \X Person -> CalendarRole \cup {None}]
  /\ published \in [Calendar -> PublicationDetail \cup {None}]
  /\ shared \subseteq Calendar \X Person
  /\ blocks \in [Block -> Payload \cup {None}]
  /\ Cardinality(Used(events)) <= MaxEvents
  /\ Cardinality(Used(attendees)) <= MaxAttendees
  /\ Cardinality(Used(grants)) <= MaxGrants
  /\ Cardinality(Used(published)) <= MaxPublications
  /\ Cardinality(shared) <= MaxShared
  /\ Cardinality(Used(blocks)) <= MaxBlocks

CalendarInit ==
  /\ events \in FirstEvents
  /\ options = [e \in Event |-> None]
  /\ series = [s \in Series |-> None]
  /\ meetings = [m \in Meeting |-> None]
  /\ attendees = [a \in Meeting \X Person |-> None]
  /\ prepared = [k \in PreparedKind \X Meeting |-> None]
  /\ grants = [g \in Calendar \X Person |-> None]
  /\ published = [c \in Calendar |-> None]
  /\ shared = {}
  /\ blocks = [b \in Block |-> None]

(***************************************************************************)
(* appointment_mutations.py, calendar_event_options.py and                 *)
(* calendar_recurrence.py                                                  *)
(***************************************************************************)
PutEvent(e, desired) ==
  /\ events' = [events EXCEPT ![e] = desired]
  /\ UNCHANGED <<options, series, meetingVars, sharingVars>>

(* Mutant: the catalog may take one more.                                   *)
CreateEventPastBound(e, desired) ==
  /\ events[e] = None /\ Cardinality(Used(events)) <= MaxEvents
  /\ PutEvent(e, desired)

CreateEvent(e, desired) ==
  /\ events[e] = None /\ Cardinality(Used(events)) < MaxEvents
  /\ PutEvent(e, desired)

(* UPDATE writes the whole record: an event that was cancelled no longer is.*)
UpdateEvent(e, desired) == events[e] # None /\ PutEvent(e, desired)

DeleteEvent(e) == PutEvent(e, None)

(* Mutant: the event is not looked up first.                                *)
SetOptionsOfAny(e, desired, private, show_as) ==
  options' = [options EXCEPT ![e] = desired] /\ UNCHANGED <<events, series, meetingVars, sharingVars>>

(* The options are kept apart, privacy and show-as in the event.            *)
SetEventOptions(e, desired, private, show_as) ==
  /\ events[e] # None
  /\ events' = [events EXCEPT ![e].private = private, ![e].show_as = show_as]
  /\ options' = [options EXCEPT ![e] = desired]
  /\ UNCHANGED <<series, meetingVars, sharingVars>>

PutSeries(s, desired) ==
  /\ series' = [series EXCEPT ![s] = desired]
  /\ UNCHANGED <<events, options, meetingVars, sharingVars>>

(***************************************************************************)
(* meeting_mutations.py, meeting_attendees.py and what is prepared for a   *)
(* meeting, whether there is one or not.  `allow` is the caller's          *)
(* outbound-prepare allowance; the Teams option needs none.                *)
(***************************************************************************)
CreateMeeting(m, desired, allow) ==
  /\ allow /\ meetings[m] = None
  /\ meetings' = [meetings EXCEPT ![m] = desired]
  /\ UNCHANGED <<eventVars, attendees, prepared, sharingVars>>

UpdateMeeting(m, desired, allow) ==
  /\ allow /\ meetings[m] # None
  /\ meetings' = [meetings EXCEPT ![m] = desired]
  /\ UNCHANGED <<eventVars, attendees, prepared, sharingVars>>

SetAttendee(m, p, role, allow) ==
  /\ allow
  /\ role # None /\ attendees[<<m, p>>] = None => Cardinality(Used(attendees)) < MaxAttendees
  /\ attendees' = [attendees EXCEPT ![<<m, p>>] = role]
  /\ UNCHANGED <<eventVars, meetings, prepared, sharingVars>>

Prepared(kind, m, desired) ==
  /\ prepared' = [prepared EXCEPT ![<<kind, m>>] = desired]
  /\ UNCHANGED <<eventVars, meetings, attendees, sharingVars>>

PrepareResponse(m, desired, allow) == allow /\ Prepared("RESPONSE", m, desired)
PrepareResponseMessage(m, desired, allow) == allow /\ Prepared("RESPONSE_MESSAGE", m, desired)
PrepareNewTime(m, desired, allow) == allow /\ Prepared("NEW_TIME", m, desired)
PrepareCancel(m, desired, allow, cancellation) ==
  allow /\ cancellation /\ Prepared("CANCEL", m, desired)
PrepareForwarding(m, desired, allow) == allow /\ Prepared("FORWARD", m, desired)
SetTeamsOption(m, desired) == Prepared("TEAMS", m, desired)

(***************************************************************************)
(* calendar_permission_mutations.py, calendar_publication.py,              *)
(* shared_calendar_membership.py and ooo_calendar_block.py                 *)
(***************************************************************************)
DelegatesOf(c) == {p \in Person : grants[<<c, p>>] = "DELEGATE"}

PutGrant(c, p, role) ==
  /\ grants' = [grants EXCEPT ![<<c, p>>] = role]
  /\ UNCHANGED <<eventVars, meetingVars, published, shared, blocks>>

(* Mutant: only a grantee without a role counts as a new delegate.          *)
GrantByNewcomers(c, p, role, limit) ==
  /\ role = "DELEGATE" /\ grants[<<c, p>>] = None => Cardinality(DelegatesOf(c)) < limit
  /\ grants[<<c, p>>] = None => Cardinality(Used(grants)) < MaxGrants
  /\ PutGrant(c, p, role)

(* The limit is that of the policy passed with the call, 0 when it forbids  *)
(* delegates.                                                               *)
Grant(c, p, role, limit) ==
  /\ role = "DELEGATE" => Cardinality(DelegatesOf(c) \ {p}) < limit
  /\ grants[<<c, p>>] = None => Cardinality(Used(grants)) < MaxGrants
  /\ PutGrant(c, p, role)

Revoke(c, p) == PutGrant(c, p, None)

PutPublication(c, detail) ==
  /\ published' = [published EXCEPT ![c] = detail]
  /\ UNCHANGED <<eventVars, meetingVars, grants, shared, blocks>>

Publish(c, detail) ==
  /\ published[c] = None => Cardinality(Used(published)) < MaxPublications
  /\ PutPublication(c, detail)

Unpublish(c) == PutPublication(c, None)

ShareWith(c, p, add) ==
  /\ add /\ <<c, p>> \notin shared => Cardinality(shared) < MaxShared
  /\ shared' = IF add THEN shared \cup {<<c, p>>} ELSE shared \ {<<c, p>>}
  /\ UNCHANGED <<eventVars, meetingVars, grants, published, blocks>>

SetBlock(b, desired) ==
  /\ blocks[b] = None => Cardinality(Used(blocks)) < MaxBlocks
  /\ blocks' = [blocks EXCEPT ![b] = desired]
  /\ UNCHANGED <<eventVars, meetingVars, grants, published, shared>>

-----------------------------------------------------------------------------
(* calendar_events.py: the listing of a calendar is one page, ordered by    *)
(* start and key, without what is cancelled.                                *)
Listable(c) == {e \in Used(events) : events[e].calendar = c /\ ~events[e].cancelled}

Earlier(d, e) ==
  \/ events[d].start < events[e].start
  \/ events[d].start = events[e].start /\ d < e

Listing(c) ==
  {e \in Listable(c) : Cardinality({d \in Listable(c) : Earlier(d, e)}) < MaxPage}

(* availability_reads.py: the strongest state of what overlaps the slot.    *)
Rank == [FREE |-> 0, TENTATIVE |-> 1, BUSY |-> 2, OUT_OF_OFFICE |-> 3]

(* Mutant: only events that begin in the slot count.                        *)
BeginsIn(e, slot) == events[e].start = slot

Overlaps(e, slot) ==
  events[e].start < slot + 1 /\ events[e].start + events[e].duration > slot

Availability(c, slot) ==
  LET over == {events[e].show_as : e \in {d \in Listing(c) : Overlaps(d, slot)}}
  IN CHOOSE s \in over \cup {"FREE"} : \A t \in over \cup {"FREE"} : Rank[t] <= Rank[s]

(* scheduling_assistant.py                                                  *)
Conflicted(slot) == {p \in Participant : Availability(CalendarOf[p], slot) # "FREE"}

Feasibility(slot) ==
  IF Conflicted(slot) = {} THEN "ALL_FREE"
  ELSE IF Conflicted(slot) \cap Required = {} THEN "REQUIRED_FREE" ELSE "CONFLICTED"

(* common_slot_search.py                                                    *)
Matching(requirement) ==
  {slot \in 0..Horizon - 1 :
     Feasibility(slot) \in (IF requirement = "ALL_FREE" THEN {"ALL_FREE"}
                            ELSE {"ALL_FREE", "REQUIRED_FREE"})}

CommonSlots(requirement) ==
  LET matching == Matching(requirement)
  IN {slot \in matching : Cardinality({s \in matching : s < slot}) < MaxSlots}

-----------------------------------------------------------------------------
AppointmentCall ==
  \E e \in Event :
    \/ DeleteEvent(e)
    \/ \E desired \in EventRequest : CreateEvent(e, desired) \/ UpdateEvent(e, desired)

OptionsCall ==
  \E e \in Event, desired \in EventOptions, private \in BOOLEAN, show_as \in ShowAs :
    SetEventOptions(e, desired, private, show_as)

SeriesCall == \E s \in Series, desired \in Payload \cup {None} : PutSeries(s, desired)

MeetingCall ==
  \E m \in Meeting, allow \in BOOLEAN :
    \/ \E desired \in Payload :
         \/ CreateMeeting(m, desired, allow)
         \/ UpdateMeeting(m, desired, allow)
         \/ PrepareResponse(m, desired, allow)
         \/ PrepareResponseMessage(m, desired, allow)
         \/ PrepareNewTime(m, desired, allow)
         \/ \E cancellation \in BOOLEAN : PrepareCancel(m, desired, allow, cancellation)
         \/ PrepareForwarding(m, desired, allow)
         \/ SetTeamsOption(m, desired)
    \/ \E p \in Person, role \in AttendeeRole \cup {None} : SetAttendee(m, p, role, allow)

GrantCall ==
  \E c \in Calendar, p \in Person :
    Revoke(c, p) \/ \E role \in CalendarRole, limit \in Delegates : Grant(c, p, role, limit)

SharingCall ==
  \/ \E c \in Calendar :
       \/ \E p \in Person, add \in BOOLEAN : ShareWith(c, p, add)
       \/ \E detail \in PublicationDetail : Publish(c, detail)
       \/ Unpublish(c)
  \/ \E b \in Block, desired \in Payload : SetBlock(b, desired)

CalendarNext ==
  AppointmentCall \/ OptionsCall \/ SeriesCall \/ MeetingCall \/ GrantCall \/ SharingCall

CalendarSpec == CalendarInit /\ [][CalendarNext]_calendarVars

-----------------------------------------------------------------------------
(* Every event takes the time it is in, whatever the reads list.            *)
Blocks(e, slot) ==
  /\ ~events[e].cancelled /\ events[e].show_as # "FREE"
  /\ \E t \in events[e].start..(events[e].start + events[e].duration - 1) : t = slot

Occupied(c, slot) == \E e \in Used(events) : events[e].calendar = c /\ Blocks(e, slot)

(* Across the three layers of reads, a slot is offered as common exactly    *)
(* when nobody who must attend has an event in it and it is among the first *)
(* asked for; as long as no calendar has more events than a page.           *)
SlotsSuit(requirement, who) ==
  LET suits == {slot \in 0..Horizon - 1 : \A p \in who : ~Occupied(CalendarOf[p], slot)}
  IN CommonSlots(requirement) =
       {slot \in suits : Cardinality({s \in suits : s < slot}) < MaxSlots}

CommonSlotsSuit ==
  (\A c \in Calendar : Cardinality(Listable(c)) <= MaxPage) =>
    SlotsSuit("ALL_FREE", Participant) /\ SlotsSuit("REQUIRED_FREE", Required)

(* However full a calendar is, a slot that is taken is not reported free.   *)
TakenSlotsAreReported ==
  \A c \in Calendar, slot \in 0..Horizon - 1 :
    Occupied(c, slot) => Availability(c, slot) # "FREE"

(* Changing the role of someone who has one already never brings a calendar *)
(* more delegates than the most generous policy allows.                     *)
DelegatesAreBounded ==
  \A c \in Calendar : \A p \in DelegatesOf(c) :
    \E limit \in Delegates : Cardinality(DelegatesOf(c)) <= limit

(* The options of an event that is deleted stay behind unchanged: an event  *)
(* created again under its key has them.                                    *)
GoneEventsAreFrozen ==
  [][\A e \in Event : events[e] = None /\ events[e]' = None =>
       options[e]' = options[e]]_calendarVars
=============================================================================
