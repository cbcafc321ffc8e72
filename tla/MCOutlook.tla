----------------------------- MODULE MCOutlook ------------------------------
(***************************************************************************)
(* The Outlook package for TLC: the catalogs and requests it starts from.  *)
(***************************************************************************)
EXTENDS OutlookPackage

MCFirstTasks == {[t \in Task |-> None]}
MCSubject == [m \in Message |-> CHOOSE title \in Title : TRUE]
MCFirstContacts == {[p \in Person |-> None]}
MCFirstMessages == {[m \in Message |-> [folder |-> Inbox, read |-> FALSE]]}

MoveAction == [kind |-> "MOVE_TO_FOLDER", target |-> CHOOSE p \in Place : TRUE]
ReadAction == [kind |-> "MARK_READ", target |-> None]
DeleteAction == [kind |-> "DELETE", target |-> None]
ForwardAction == [kind |-> "FORWARD_TO_RECIPIENT", target |-> CHOOSE p \in Person : TRUE]
MCActionList ==
  {<<MoveAction, ReadAction>>, <<ReadAction, DeleteAction>>, <<ReadAction, ForwardAction>>}

(* Two calendars and three people who look at them.                         *)
MCEvent(c, start, duration, show_as) ==
  [calendar |-> c, start |-> start, duration |-> duration, cancelled |-> FALSE,
   recurring |-> FALSE, show_as |-> show_as, private |-> FALSE]
MCEventRequest ==
  {MCEvent(c, start, duration, show_as) :
     c \in Calendar, start \in {0, 1}, duration \in {1, 2}, show_as \in {"FREE", "BUSY"}}
MCFirstEvents ==
  {[e \in Event |-> None],
   [e \in Event |-> IF e = 1
      THEN [MCEvent(CHOOSE c \in Calendar : TRUE, 0, 2, "BUSY") EXCEPT !.cancelled = TRUE]
      ELSE None]}
MCCalendarOf ==
  LET first == CHOOSE c \in Calendar : TRUE
  IN [p \in Participant |-> IF p \in Required THEN first ELSE CHOOSE c \in Calendar : c # first]
=============================================================================
