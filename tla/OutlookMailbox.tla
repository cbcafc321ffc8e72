--------------------------- MODULE OutlookMailbox ---------------------------
(***************************************************************************)
(* The mailbox of the Outlook package: folders, the messages in them, the  *)
(* marks a message carries and the categories it is given                  *)
(* (apps/outlook/folder_*.py, message_move_mutations.py,                   *)
(* archive_mutations.py, mark_read_mutations.py, focused_mutations.py,     *)
(* pin_*.py, snooze_mutations.py, category_*.py, mock_ui.py).              *)
(***************************************************************************)
EXTENDS OutlookFixture, Sequences

CONSTANTS
  Folder, Label,
  Inbox, Archive, Sent,     \* the folders of the default fixture
  FirstMessages,            \* the fixtures' messages the caller may start from
  Until,                    \* day offsets to snooze a message until
  MaxFolders,               \* _MAX_FOLDERS
  MaxCategories, MaxPerMessage, MaxBatch

VARIABLES
  folders,      \* folder -> its name and parent, or None
  favorites,    \* the folders marked as favourites
  messages,     \* message -> the folder it is in, read or not
  inboxClass,   \* message -> FOCUSED or OTHER, None when it was never moved
  markers,      \* message -> pinned, or the day it is snoozed until, or None
  categories,   \* category -> its definition, or None
  assignments   \* pairs of a message and a category

folderVars == <<folders, favorites>>
markVars == <<inboxClass, markers>>
categoryVars == <<categories, assignments>>
mailboxVars == <<folders, favorites, messages, inboxClass, markers, categories, assignments>>

Protected == {Inbox, Archive, Sent}
SyntheticFolder == [name : Label, parent : Folder \cup {None}]
MockMessage == [folder : Folder, read : BOOLEAN]

(* PinSnoozeMarker refuses a message both pinned and snoozed.               *)
PinSnoozeMarker ==
  {k \in [pinned : BOOLEAN, until : Until \cup {None}] : k.until # None => ~k.pinned}

ASSUME MailboxAssumption ==
  /\ IsFiniteSet(Folder) /\ IsFiniteSet(Category)
  /\ Protected \subseteq Folder
  /\ FirstMessages \subseteq [Message -> [folder : Protected, read : BOOLEAN]]
  /\ {MaxFolders, MaxCategories, MaxPerMessage, MaxBatch} \subseteq Nat \ {0}
  /\ MaxFolders >= Cardinality(Protected)
  /\ None \notin Folder \cup SyntheticFolder \cup Until \cup Label
  /\ None \notin PinSnoozeMarker

AssignedTo(m) == {c \in Category : <<m, c>> \in assignments}

MailboxTypeOK ==
  /\ folders \in [Folder -> SyntheticFolder \cup {None}]
  /\ favorites \subseteq Folder
  /\ messages \in [Message -> MockMessage]
  /\ inboxClass \in [Message -> {"FOCUSED", "OTHER", None}]
  /\ markers \in [Message -> PinSnoozeMarker \cup {None}]
  /\ categories \in [Category -> Label \cup {None}]
  /\ assignments \subseteq Message \X Category
  /\ Cardinality(Used(folders)) <= MaxFolders
  /\ Cardinality(Used(categories)) <= MaxCategories
  /\ \A m \in Message : Cardinality(AssignedTo(m)) <= MaxPerMessage

MailboxInit ==
  /\ folders \in {first \in [Folder -> SyntheticFolder \cup {None}] :
                    /\ Used(first) = Protected
                    /\ \A f \in Protected : first[f].parent = None}
  /\ favorites = {}
  /\ messages \in FirstMessages
  /\ inboxClass = [m \in Message |-> None]
  /\ markers = [m \in Message |-> None]
  /\ categories = [c \in Category |-> None]
  /\ assignments = {}

(***************************************************************************)
(* folder_mutations.py: the catalog and the favourites must fit the        *)
(* fixture before any of them changes.                                     *)
(***************************************************************************)
PutFolder(f, desired) ==
  /\ folders' = [folders EXCEPT ![f] = desired]
  /\ UNCHANGED <<favorites, messages, markVars, categoryVars>>

(* Mutant: a folder that exists is created again under another parent.      *)
CreateFolderAgain(f, name, parent) ==
  /\ Cardinality(Used(folders) \cup {f}) <= MaxFolders
  /\ parent \in Used(folders) \cup {None} /\ parent # f
  /\ PutFolder(f, [name |-> name, parent |-> parent])

(* Nothing looks at how deep the parent is.                                 *)
CreateFolder(f, name, parent) ==
  /\ folders[f] = None
  /\ Cardinality(Used(folders)) < MaxFolders
  /\ parent \in Used(folders) \cup {None}
  /\ PutFolder(f, [name |-> name, parent |-> parent])

RenameFolder(f, name) ==
  /\ folders[f] # None /\ f \notin Protected
  /\ PutFolder(f, [folders[f] EXCEPT !.name = name])

SetFavoriteFolder(f, wanted) ==
  /\ folders[f] # None
  /\ favorites' = IF wanted THEN favorites \cup {f} ELSE favorites \ {f}
  /\ UNCHANGED <<folders, messages, markVars, categoryVars>>

(***************************************************************************)
(* Where a message is and whether it was read.                             *)
(***************************************************************************)
PutMessage(m, desired) ==
  /\ messages' = [messages EXCEPT ![m] = desired]
  /\ UNCHANGED <<folderVars, markVars, categoryVars>>

(* Mutant: the target is not looked up.                                     *)
MoveAnywhere(m, target) == PutMessage(m, [messages[m] EXCEPT !.folder = target])

MoveTo(m, target) ==
  folders[target] # None /\ PutMessage(m, [messages[m] EXCEPT !.folder = target])

ArchiveMessage(m) == MoveTo(m, Archive)

(* A message that was restored already may be restored there again.         *)
RestoreMessage(m, target) ==
  /\ target # Archive
  /\ messages[m].folder \in {Archive, target}
  /\ MoveTo(m, target)

MarkRead(m, read) == PutMessage(m, [messages[m] EXCEPT !.read = read])

(* Only a message in the inbox is moved; the mark stays when it leaves.     *)
MoveInbox(m, class) ==
  /\ messages[m].folder = Inbox
  /\ inboxClass' = [inboxClass EXCEPT ![m] = class]
  /\ UNCHANGED <<folderVars, messages, markers, categoryVars>>

(***************************************************************************)
(* pin_mutations.py and snooze_mutations.py                                *)
(***************************************************************************)
Pinned(m) == markers[m] # None /\ markers[m].pinned
Snoozed(m) == markers[m] # None /\ markers[m].until # None

PutMarker(m, desired) ==
  /\ markers' = [markers EXCEPT ![m] = desired]
  /\ UNCHANGED <<folderVars, messages, inboxClass, categoryVars>>

Pin(m) == ~Snoozed(m) /\ PutMarker(m, [pinned |-> TRUE, until |-> None])

Unpin(m) == PutMarker(m, IF Snoozed(m) THEN markers[m] ELSE None)

(* Mutant: snoozing a pinned message drops the pin.                         *)
SnoozeOverPin(m, day) == PutMarker(m, [pinned |-> FALSE, until |-> day])

Snooze(m, day) == ~Pinned(m) /\ PutMarker(m, [pinned |-> FALSE, until |-> day])

Unsnooze(m) == PutMarker(m, IF Snoozed(m) THEN None ELSE markers[m])

(***************************************************************************)
(* category_mutations.py: each change is read back through the reads'      *)
(* validation, which bounds the catalog.                                   *)
(***************************************************************************)
PutCategory(c, desired) ==
  /\ categories' = [categories EXCEPT ![c] = desired]
  /\ Cardinality(Used(categories')) <= MaxCategories
  /\ UNCHANGED <<folderVars, messages, markVars, assignments>>

CreateCategory(c, label) == categories[c] \in {None, label} /\ PutCategory(c, label)

UpdateCategory(c, label) == categories[c] # None /\ PutCategory(c, label)

(* Mutant: a category in use is deleted.                                    *)
DeleteCategoryInUse(c) == PutCategory(c, None)

DeleteCategory(c) ==
  /\ \A m \in Message : <<m, c>> \notin assignments
  /\ PutCategory(c, None)

(***************************************************************************)
(* category_assignment_mutations.py: a batch of distinct items, applied    *)
(* one after the other to the set of pairs, all or none.                   *)
(***************************************************************************)
BatchItem == [apply : BOOLEAN, pair : Message \X Category]

Batch == {b \in UNION {[1..n -> BatchItem] : n \in 1..MaxBatch} :
            \A i, j \in DOMAIN b : b[i] = b[j] => i = j}

(* The last item that names a pair decides on it.                           *)
After(batch) ==
  {p \in Message \X Category :
     LET named == {i \in DOMAIN batch : batch[i].pair = p}
     IN IF named = {} THEN p \in assignments
        ELSE \E i \in named : batch[i].apply /\ \A j \in named : j <= i}

(* Mutant: the read-back of the affected messages does not bound them.      *)
AssignUnbounded(batch) ==
  /\ \A i \in DOMAIN batch : categories[batch[i].pair[2]] # None
  /\ assignments' = After(batch)
  /\ UNCHANGED <<folderVars, messages, markVars, categories>>

Assign(batch) ==
  /\ \A i \in DOMAIN batch : categories[batch[i].pair[2]] # None
  /\ assignments' = After(batch)
  /\ \A m \in Message : Cardinality(AssignedTo(m)') <= MaxPerMessage
  /\ UNCHANGED <<folderVars, messages, markVars, categories>>

-----------------------------------------------------------------------------
FolderCall ==
  \E f \in Folder :
    \/ \E name \in Label :
         RenameFolder(f, name) \/ \E parent \in Folder \cup {None} : CreateFolder(f, name, parent)
    \/ \E wanted \in BOOLEAN : SetFavoriteFolder(f, wanted)

MessageCall ==
  \E m \in Message :
    \/ \E target \in Folder : MoveTo(m, target) \/ RestoreMessage(m, target)
    \/ ArchiveMessage(m)
    \/ \E read \in BOOLEAN : MarkRead(m, read)

MarkCall ==
  \E m \in Message :
    \/ Pin(m) \/ Unpin(m) \/ Unsnooze(m)
    \/ \E day \in Until : Snooze(m, day)
    \/ \E class \in {"FOCUSED", "OTHER"} : MoveInbox(m, class)

CategoryCall ==
  \/ \E c \in Category :
       DeleteCategory(c) \/ \E label \in Label : CreateCategory(c, label) \/ UpdateCategory(c, label)
  \/ \E batch \in Batch : Assign(batch)

MailboxNext == FolderCall \/ MessageCall \/ MarkCall \/ CategoryCall

MailboxSpec == MailboxInit /\ [][MailboxNext]_mailboxVars

-----------------------------------------------------------------------------
(* Whatever is moved, created and deleted, every message is in a folder     *)
(* there is, every favourite is one and every assigned category exists.     *)
NothingDangles ==
  /\ \A m \in Message : folders[messages[m].folder] # None
  /\ favorites \subseteq Used(folders)
  /\ \A m \in Message : \A c \in AssignedTo(m) : categories[c] # None

(* The folders are trees, however they were created: among any of them is   *)
(* one whose parent is not.  The reads walk up the parents without end on a *)
(* cycle, but for their bound.                                              *)
FoldersFormTrees ==
  \A some \in (SUBSET Used(folders)) \ {{}} :
    \E f \in some : folders[f].parent \notin some

(* A message goes from pinned to snoozed, or back, only through a state in  *)
(* which it is neither: no call makes the change implicitly.                *)
NoImplicitTransition ==
  [][\A m \in Message : ~(Pinned(m) /\ Snoozed(m)') /\ ~(Snoozed(m) /\ Pinned(m)')]_mailboxVars
=============================================================================
