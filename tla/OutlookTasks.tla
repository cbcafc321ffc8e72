---------------------------- MODULE OutlookTasks ----------------------------
(***************************************************************************)
(* The To Do state of the Outlook package (apps/outlook/todo_*.py,         *)
(* email_to_todo.py, flag_mutations.py, follow_up_schedule_mutations.py):  *)
(* a catalog of tasks and six catalogs of their own that refer to it by    *)
(* task key: schedules, focus, steps, notes, attachments and the links of  *)
(* flagged mail.                                                           *)
(* The calls do not look at each other's catalogs except for the tasks and *)
(* the flags; the caller holds them all between two calls.                 *)
(***************************************************************************)
EXTENDS OutlookFixture

CONSTANTS
  Task, TodoList, Title, Step, Attachment, Metadata, Note,
  Subject,          \* the subject of each message, a title
  Day,              \* day offsets a request may name
  FirstTasks,       \* the task catalogs the caller may start from
  MaxTasks, MaxSteps, MaxAttachments

VARIABLES
  tasks,        \* task -> its record, or None when the key is free
  schedules,    \* task -> due and reminder day, or None
  focus,        \* task -> important, my_day (both FALSE when never set)
  steps,        \* step -> the task it belongs to, title, completed, or None
  notes,        \* task -> its note, or None
  attachments,  \* attachment -> the task it belongs to, metadata, or None
  flags,        \* message -> follow-up state and days, or None
  links         \* message -> the task it is linked to, or None

tasksVars == <<tasks, schedules, focus, steps, notes, attachments, flags, links>>

TaskState == {"NOT_STARTED", "IN_PROGRESS", "COMPLETED"}
MaybeDay == Day \cup {None}
TodoTask == [list : TodoList, title : Title, state : TaskState, due : MaybeDay]
TodoStep == [task : Task, title : Title, completed : BOOLEAN]
FollowUpState == {"FLAGGED", "COMPLETED"}

Schedule == {s \in [due : MaybeDay, reminder : MaybeDay] : NotAfter(s.reminder, s.due)}

(* FollowUpFlag: a completed flag has its day and no reminder, a flagged    *)
(* one has no completion day, and start, reminder and due are in order.     *)
FollowUpFlag ==
  {f \in [state : FollowUpState, start : MaybeDay, due : MaybeDay,
          done : MaybeDay, reminder : MaybeDay] :
     /\ NotAfter(f.start, f.due)
     /\ NotAfter(f.start, f.reminder) /\ NotAfter(f.reminder, f.due)
     /\ (f.state = "COMPLETED") <=> (f.done # None)
     /\ f.state = "COMPLETED" => f.reminder = None}

ASSUME TasksAssumption ==
  /\ IsFiniteSet(Task) /\ IsFiniteSet(Step) /\ IsFiniteSet(Attachment)
  /\ FirstTasks \subseteq {first \in [Task -> TodoTask \cup {None}] :
                            Cardinality(Used(first)) <= MaxTasks}
  /\ Subject \in [Message -> Title]
  /\ Day \subseteq Int
  /\ {MaxTasks, MaxSteps, MaxAttachments} \subseteq Nat \ {0}
  /\ None \notin Int \cup Task \cup Note
  /\ None \notin TodoTask \cup Schedule \cup TodoStep \cup [task : Task, data : Metadata]
  /\ None \notin FollowUpFlag

Tasks == Used(tasks)
StepsOf(t) == {s \in Used(steps) : steps[s].task = t}
AttachmentsOf(t) == {a \in Used(attachments) : attachments[a].task = t}

TasksTypeOK ==
  /\ tasks \in [Task -> TodoTask \cup {None}]
  /\ schedules \in [Task -> Schedule \cup {None}]
  /\ focus \in [Task -> [important : BOOLEAN, my_day : BOOLEAN]]
  /\ steps \in [Step -> TodoStep \cup {None}]
  /\ notes \in [Task -> Note \cup {None}]
  /\ attachments \in [Attachment -> [task : Task, data : Metadata] \cup {None}]
  /\ flags \in [Message -> FollowUpFlag \cup {None}]
  /\ links \in [Message -> Task \cup {None}]
  /\ Cardinality(Tasks) <= MaxTasks
  /\ \A t \in Task : /\ Cardinality(StepsOf(t)) <= MaxSteps
                     /\ Cardinality(AttachmentsOf(t)) <= MaxAttachments

TasksInit ==
  /\ tasks \in FirstTasks
  /\ schedules = [t \in Task |-> None]
  /\ focus = [t \in Task |-> [important |-> FALSE, my_day |-> FALSE]]
  /\ steps = [s \in Step |-> None]
  /\ notes = [t \in Task |-> None]
  /\ attachments = [a \in Attachment |-> None]
  /\ flags = [m \in Message |-> None]
  /\ links = [m \in Message |-> None]

(***************************************************************************)
(* todo_task_mutations.py and email_to_todo.py                             *)
(***************************************************************************)
Put(t, desired) ==
  /\ tasks' = [tasks EXCEPT ![t] = desired]
  /\ UNCHANGED <<schedules, focus, steps, notes, attachments, flags, links>>

(* A repeated CREATE changes nothing; one that asks for something else than *)
(* what is there is refused.                                                *)
CreateTask(t, list, title) ==
  LET desired == [list |-> list, title |-> title,
                  state |-> "NOT_STARTED", due |-> None]
  IN /\ tasks[t] \in {None, desired}
     /\ tasks[t] = None => Cardinality(Tasks) < MaxTasks
     /\ Put(t, desired)

(* Mutant: UPDATE builds the record anew and loses the due day.             *)
UpdateDroppingDue(t, list, title) ==
  t \in Tasks /\ Put(t, [list |-> list, title |-> title, state |-> tasks[t].state, due |-> None])

UpdateTask(t, list, title) ==
  /\ t \in Tasks
  /\ Put(t, [tasks[t] EXCEPT !.list = list, !.title = title])

CompleteTask(t) ==
  /\ t \in Tasks
  /\ Put(t, [tasks[t] EXCEPT !.state = "COMPLETED"])

DeleteTask(t) == Put(t, None)

TaskFromEmail(m, t, list) == CreateTask(t, list, Subject[m])

(***************************************************************************)
(* todo_task_schedule.py: a schedule is stored twice, its due day also in  *)
(* the task.                                                               *)
(***************************************************************************)
SetSchedule(t, wanted) ==
  /\ t \in Tasks
  /\ schedules' = [schedules EXCEPT ![t] = wanted]
  /\ tasks' = [tasks EXCEPT ![t].due = IF wanted = None THEN None ELSE wanted.due]
  /\ UNCHANGED <<focus, steps, notes, attachments, flags, links>>

ClearSchedule(t) == SetSchedule(t, None)

(***************************************************************************)
(* todo_task_focus.py                                                      *)
(***************************************************************************)
Focus(t, desired) ==
  /\ t \in Tasks
  /\ focus' = [focus EXCEPT ![t] = desired]
  /\ UNCHANGED <<tasks, schedules, steps, notes, attachments, flags, links>>

SetImportant(t, enabled) == Focus(t, [focus[t] EXCEPT !.important = enabled])

(* Mutant: my-day is not closed to completed tasks.                         *)
SetMyDayAnyway(t, enabled) == Focus(t, [focus[t] EXCEPT !.my_day = enabled])

SetMyDay(t, enabled) ==
  /\ t \in Tasks
  /\ enabled => tasks[t].state # "COMPLETED"
  /\ Focus(t, [focus[t] EXCEPT !.my_day = enabled])

(***************************************************************************)
(* todo_task_steps.py: step keys are shared by all tasks.                  *)
(***************************************************************************)
(* Mutant: the task is not looked up first.                                 *)
StepIsForKey(s, t) == steps[s] # None => steps[s].task = t

StepIsFor(s, t) == t \in Tasks /\ (steps[s] # None => steps[s].task = t)

PutStep(s, desired) ==
  /\ steps' = [steps EXCEPT ![s] = desired]
  /\ UNCHANGED <<tasks, schedules, focus, notes, attachments, flags, links>>

(* Mutant: the bound is off by one.                                         *)
AddStepPastBound(s, t, title) ==
  /\ StepIsFor(s, t) /\ steps[s] = None
  /\ Cardinality(StepsOf(t)) <= MaxSteps
  /\ PutStep(s, [task |-> t, title |-> title, completed |-> FALSE])

AddStep(s, t, title) ==
  LET desired == [task |-> t, title |-> title, completed |-> FALSE]
  IN /\ StepIsFor(s, t)
     /\ steps[s] \in {None, desired}
     /\ steps[s] = None => Cardinality(StepsOf(t)) < MaxSteps
     /\ PutStep(s, desired)

UpdateStep(s, t, title) ==
  /\ StepIsFor(s, t) /\ steps[s] # None
  /\ PutStep(s, [steps[s] EXCEPT !.title = title])

CompleteStep(s, t) ==
  /\ StepIsFor(s, t) /\ steps[s] # None
  /\ PutStep(s, [steps[s] EXCEPT !.completed = TRUE])

DeleteStep(s, t) == StepIsFor(s, t) /\ PutStep(s, None)

(***************************************************************************)
(* todo_task_content.py: one note per task, attachment keys shared by all. *)
(***************************************************************************)
SetNote(t, note) ==
  /\ t \in Tasks
  /\ notes' = [notes EXCEPT ![t] = note]
  /\ UNCHANGED <<tasks, schedules, focus, steps, attachments, flags, links>>

ClearNote(t) == SetNote(t, None)

PutAttachment(a, desired) ==
  /\ attachments' = [attachments EXCEPT ![a] = desired]
  /\ UNCHANGED <<tasks, schedules, focus, steps, notes, flags, links>>

AddAttachment(a, t, data) ==
  LET desired == [task |-> t, data |-> data]
  IN /\ t \in Tasks
     /\ attachments[a] \in {None, desired}
     /\ attachments[a] = None => Cardinality(AttachmentsOf(t)) < MaxAttachments
     /\ PutAttachment(a, desired)

RemoveAttachment(a, t) ==
  /\ t \in Tasks
  /\ attachments[a] # None => attachments[a].task = t
  /\ PutAttachment(a, None)

(***************************************************************************)
(* flag_mutations.py and follow_up_schedule_mutations.py                   *)
(***************************************************************************)
PutFlag(m, desired) ==
  /\ flags' = [flags EXCEPT ![m] = desired]
  /\ UNCHANGED <<tasks, schedules, focus, steps, notes, attachments, links>>

(* Flagging a message again keeps its start and due day, not its reminder.  *)
(* Mutant: a completed flag can be flagged again.                           *)
FlagAgain(m) ==
  PutFlag(m, [state |-> "FLAGGED", start |-> None, due |-> None, done |-> None, reminder |-> None])

Flag(m) ==
  /\ flags[m] # None => flags[m].state # "COMPLETED"
  /\ PutFlag(m, [state |-> "FLAGGED",
                 start |-> IF flags[m] = None THEN None ELSE flags[m].start,
                 due |-> IF flags[m] = None THEN None ELSE flags[m].due,
                 done |-> None, reminder |-> None])

Unflag(m) == PutFlag(m, None)

CompleteFlag(m, day) ==
  /\ flags[m] # None
  /\ flags[m].state = "COMPLETED" => flags[m].done = day
  /\ PutFlag(m, [flags[m] EXCEPT !.state = "COMPLETED", !.done = day, !.reminder = None])

(* The start day is kept when the request names none; a day out of order is *)
(* refused by the flag's own constructor.                                   *)
ScheduleFollowUp(m, start, due, reminder) ==
  /\ flags[m] # None /\ flags[m].state = "FLAGGED"
  /\ LET desired == [flags[m] EXCEPT !.start = IF start = None THEN @ ELSE start,
                                     !.due = due, !.reminder = reminder]
     IN desired \in FollowUpFlag /\ PutFlag(m, desired)

(***************************************************************************)
(* todo_flagged_email_relationship.py                                      *)
(***************************************************************************)
PutLink(m, desired) ==
  /\ links' = [links EXCEPT ![m] = desired]
  /\ UNCHANGED <<tasks, schedules, focus, steps, notes, attachments, flags>>

(* Mutant: a link to another task is replaced.                              *)
LinkAnyway(m, t) ==
  /\ t \in Tasks /\ flags[m] # None /\ flags[m].state = "FLAGGED"
  /\ PutLink(m, t)

Link(m, t) ==
  /\ t \in Tasks
  /\ flags[m] # None /\ flags[m].state = "FLAGGED"
  /\ links[m] \in {None, t}
  /\ PutLink(m, t)

Unlink(m, t) ==
  /\ t \in Tasks
  /\ links[m] \in {None, t}
  /\ PutLink(m, None)

-----------------------------------------------------------------------------
TaskCall ==
  \E t \in Task :
    \/ \E list \in TodoList, title \in Title :
          CreateTask(t, list, title) \/ UpdateTask(t, list, title)
    \/ CompleteTask(t)
    \/ DeleteTask(t)
    \/ \E m \in Message, list \in TodoList : TaskFromEmail(m, t, list)

ScheduleCall ==
  \E t \in Task : ClearSchedule(t) \/ \E wanted \in Schedule : SetSchedule(t, wanted)

FocusCall ==
  \E t \in Task, enabled \in BOOLEAN : SetImportant(t, enabled) \/ SetMyDay(t, enabled)

StepCall ==
  \E s \in Step, t \in Task :
    \/ \E title \in Title : AddStep(s, t, title) \/ UpdateStep(s, t, title)
    \/ CompleteStep(s, t)
    \/ DeleteStep(s, t)

ContentCall ==
  \E t \in Task :
    \/ \E note \in Note : SetNote(t, note)
    \/ ClearNote(t)
    \/ \E a \in Attachment :
          RemoveAttachment(a, t) \/ \E data \in Metadata : AddAttachment(a, t, data)

FlagCall ==
  \E m \in Message :
    \/ Flag(m)
    \/ Unflag(m)
    \/ \E day \in Day : CompleteFlag(m, day)
    \/ \E start \in MaybeDay, due \in Day, reminder \in MaybeDay :
          ScheduleFollowUp(m, start, due, reminder)

LinkCall == \E m \in Message, t \in Task : Link(m, t) \/ Unlink(m, t)

TasksNext ==
  \/ TaskCall \/ ScheduleCall \/ FocusCall \/ StepCall
  \/ ContentCall \/ FlagCall \/ LinkCall

TasksSpec == TasksInit /\ [][TasksNext]_tasksVars

-----------------------------------------------------------------------------
(* What is kept for a task under other catalogs' keys.                      *)
KeptFor(t) ==
  <<schedules[t], focus[t], notes[t],
    [s \in StepsOf(t) |-> steps[s]], [a \in AttachmentsOf(t) |-> attachments[a]],
    {m \in Message : links[m] = t}>>

(* Deleting a task leaves its schedule, steps, note, attachments and links  *)
(* behind; while the task is gone no call of any module changes them, so a  *)
(* task created again under the key finds exactly what it left.             *)
OrphansAreFrozen ==
  [][\A t \in Task : t \notin Tasks /\ t \notin Tasks' => KeptFor(t)' = KeptFor(t)]_tasksVars

(* The due day is kept twice, by the task and by its schedule: once the two *)
(* agree, only deleting the task can part them.                             *)
ScheduleAgrees ==
  [][\A t \in Task :
       t \in Tasks /\ t \in Tasks' /\ schedules[t] # None /\ schedules[t].due = tasks[t].due
         => schedules[t]' = None \/ schedules[t]'.due = tasks[t]'.due]_tasksVars

(* A completed task is never reopened, moved to my-day or created again;    *)
(* only deleting it ends that.                                              *)
CompletedStaysCompleted ==
  [][\A t \in Tasks :
       tasks[t].state = "COMPLETED" /\ t \in Tasks' =>
         tasks[t]'.state = "COMPLETED" /\ (focus[t]'.my_day => focus[t].my_day)]_tasksVars

(* A step or attachment key and a message's link belong to one task until   *)
(* they are freed, whichever task later calls name.                         *)
KeysKeepTheirTask ==
  [][/\ \A s \in Used(steps) : steps[s]' # None => steps[s]'.task = steps[s].task
     /\ \A a \in Used(attachments) :
          attachments[a]' # None => attachments[a]'.task = attachments[a].task
     /\ \A m \in Message : links[m] # None => links[m]' \in {None, links[m]}]_tasksVars

(* The day a follow-up was completed on is fixed: no flag, schedule or      *)
(* completion call changes a completed flag, only removing it does.         *)
CompletionIsFixed ==
  [][\A m \in Message : flags[m] # None /\ flags[m].state = "COMPLETED" =>
       flags[m]' \in {None, flags[m]}]_tasksVars
=============================================================================
