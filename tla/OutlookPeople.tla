---------------------------- MODULE OutlookPeople ---------------------------
(***************************************************************************)
(* The contacts of the Outlook package, the contact lists that name them   *)
(* and the categories and favourite marks kept for them                    *)
(* (apps/outlook/contact_*.py, people_reads.py, contact_list_reads.py).    *)
(* Each call looks only at the catalogs it is given, so a contact that is  *)
(* deleted leaves its memberships and preferences to a later call.         *)
(***************************************************************************)
EXTENDS OutlookFixture

CONSTANTS
  ContactList, Name,
  FirstContacts,    \* the contacts the caller may start from
  MaxContacts, MaxLists, MaxMembers, MaxPreferences

VARIABLES
  contacts,     \* person -> the name on the card, or None
  lists,        \* list -> its name and members, or None
  preferences   \* person -> categories and favourite mark, or None: never set

peopleVars == <<contacts, lists, preferences>>

SyntheticContactList == [name : Name, members : SUBSET Person]
ContactPreference == [categories : SUBSET Category, favorite : BOOLEAN]

ASSUME PeopleAssumption ==
  /\ IsFiniteSet(Person) /\ IsFiniteSet(ContactList)
  /\ FirstContacts \subseteq {first \in [Person -> Name \cup {None}] :
                               Cardinality(Used(first)) <= MaxContacts}
  /\ {MaxContacts, MaxLists, MaxMembers, MaxPreferences} \subseteq Nat \ {0}
  /\ None \notin Name \cup SyntheticContactList \cup ContactPreference

PeopleTypeOK ==
  /\ contacts \in [Person -> Name \cup {None}]
  /\ lists \in [ContactList -> SyntheticContactList \cup {None}]
  /\ preferences \in [Person -> ContactPreference \cup {None}]
  /\ Cardinality(Used(contacts)) <= MaxContacts
  /\ Cardinality(Used(lists)) <= MaxLists
  /\ Cardinality(Used(preferences)) <= MaxPreferences
  /\ \A l \in Used(lists) : Cardinality(lists[l].members) <= MaxMembers

PeopleInit ==
  /\ contacts \in FirstContacts
  /\ lists = [l \in ContactList |-> None]
  /\ preferences = [p \in Person |-> None]

(***************************************************************************)
(* contact_mutations.py                                                    *)
(***************************************************************************)
PutContact(p, card) ==
  /\ contacts' = [contacts EXCEPT ![p] = card]
  /\ UNCHANGED <<lists, preferences>>

CreateContact(p, card) ==
  /\ contacts[p] \in {None, card}
  /\ contacts[p] = None => Cardinality(Used(contacts)) < MaxContacts
  /\ PutContact(p, card)

UpdateContact(p, card) == contacts[p] # None /\ PutContact(p, card)

DeleteContact(p) == PutContact(p, None)

(***************************************************************************)
(* contact_list_mutations.py                                               *)
(***************************************************************************)
PutList(l, desired) ==
  /\ lists' = [lists EXCEPT ![l] = desired]
  /\ UNCHANGED <<contacts, preferences>>

(* Mutant: the bound is off by one.                                         *)
CreateListPastBound(l, name) ==
  /\ lists[l] = None /\ Cardinality(Used(lists)) <= MaxLists
  /\ PutList(l, [name |-> name, members |-> {}])

(* CREATE of a list that has members is refused: it asks for an empty one.  *)
CreateList(l, name) ==
  LET desired == [name |-> name, members |-> {}]
  IN /\ lists[l] \in {None, desired}
     /\ lists[l] = None => Cardinality(Used(lists)) < MaxLists
     /\ PutList(l, desired)

(* Mutant: UPDATE builds the list anew.                                     *)
UpdateListAnew(l, name) ==
  lists[l] # None /\ PutList(l, [name |-> name, members |-> {}])

UpdateList(l, name) ==
  lists[l] # None /\ PutList(l, [lists[l] EXCEPT !.name = name])

DeleteList(l) == PutList(l, None)

(***************************************************************************)
(* contact_list_membership.py: the contact must exist, even to be removed. *)
(***************************************************************************)
AddMember(l, p) ==
  /\ contacts[p] # None /\ lists[l] # None
  /\ Cardinality(lists[l].members) <= MaxMembers
  /\ p \notin lists[l].members => Cardinality(lists[l].members) < MaxMembers
  /\ PutList(l, [lists[l] EXCEPT !.members = @ \cup {p}])

RemoveMember(l, p) ==
  /\ contacts[p] # None /\ lists[l] # None
  /\ Cardinality(lists[l].members) <= MaxMembers
  /\ PutList(l, [lists[l] EXCEPT !.members = @ \ {p}])

(***************************************************************************)
(* contact_preferences.py                                                  *)
(***************************************************************************)
Default == [categories |-> {}, favorite |-> FALSE]
Preference(p) == IF preferences[p] = None THEN Default ELSE preferences[p]

(* Mutant: the contact is not looked up first.                              *)
PreferUnknown(p, desired) ==
  /\ preferences[p] = None => Cardinality(Used(preferences)) < MaxPreferences
  /\ preferences' = [preferences EXCEPT ![p] = desired]
  /\ UNCHANGED <<contacts, lists>>

(* A default is not stored where none was set.                              *)
Prefer(p, desired) ==
  /\ contacts[p] # None
  /\ IF Preference(p) = Default /\ desired = Default
       THEN UNCHANGED preferences
       ELSE /\ preferences[p] = None => Cardinality(Used(preferences)) < MaxPreferences
            /\ preferences' = [preferences EXCEPT ![p] = desired]
  /\ UNCHANGED <<contacts, lists>>

SetCategories(p, categories) ==
  Prefer(p, [Preference(p) EXCEPT !.categories = categories])

SetFavorite(p, favorite) == Prefer(p, [Preference(p) EXCEPT !.favorite = favorite])

-----------------------------------------------------------------------------
ContactCall ==
  \E p \in Person :
    \/ \E card \in Name : CreateContact(p, card) \/ UpdateContact(p, card)
    \/ DeleteContact(p)

ListCall ==
  \E l \in ContactList :
    \/ \E name \in Name : CreateList(l, name) \/ UpdateList(l, name)
    \/ DeleteList(l)

MembershipCall ==
  \E l \in ContactList, p \in Person : AddMember(l, p) \/ RemoveMember(l, p)

PreferenceCall ==
  \E p \in Person :
    \/ \E categories \in SUBSET Category : SetCategories(p, categories)
    \/ \E favorite \in BOOLEAN : SetFavorite(p, favorite)

PeopleNext == ContactCall \/ ListCall \/ MembershipCall \/ PreferenceCall

PeopleSpec == PeopleInit /\ [][PeopleNext]_peopleVars

-----------------------------------------------------------------------------
(* A contact that does not exist is left alone by every call: its           *)
(* preferences stay for the next contact of that key, and it stays a member *)
(* of every list that stays, where no REMOVE can reach it.                  *)
GoneContactsAreFrozen ==
  [][\A p \in Person : contacts[p] = None /\ contacts[p]' = None =>
       /\ preferences[p]' = preferences[p]
       /\ \A l \in Used(lists) :
            lists[l]' # None => (p \in lists[l]'.members <=> p \in lists[l].members)]_peopleVars

(* Renaming a list, or repeating the call that made it, loses no member:    *)
(* a member leaves by its own removal, alone, or with the whole list.       *)
MembersLeaveOneByOne ==
  [][\A l \in Used(lists) : lists[l]' # None =>
       Cardinality(lists[l].members \ lists[l]'.members) <= 1]_peopleVars
=============================================================================
