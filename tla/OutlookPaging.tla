---------------------------- MODULE OutlookPaging ---------------------------
(***************************************************************************)
(* Listings by offset and limit, as message_list.py, mail_search.py,       *)
(* calendar_events.py and resource_search.py of apps/outlook answer them,  *)
(* and a caller that walks from page to page while other calls change what *)
(* matches.  The walker and the changes are external; a listing is ordered *)
(* by Item, the order of the catalog or of the sort.                       *)
(***************************************************************************)
EXTENDS OutlookFixture

CONSTANTS
  Item,             \* numbers: what may match, in the order of the listing
  MaxLimit,         \* _MAX_PAGE_SIZE
  MaxRemovals       \* bound of the check: removals during one walk

VARIABLES
  matching,     \* the items that match now
  walk,         \* offset and limit of the next page, whether there is more
  seen,         \* the items of the pages so far
  stayed,       \* the items that matched all the time since the walk began
  removed       \* how often an item was taken out since then

pagingVars == <<matching, walk, seen, stayed, removed>>

ASSUME PagingAssumption ==
  /\ Item \subseteq Nat /\ IsFiniteSet(Item)
  /\ MaxLimit \in Nat \ {0} /\ MaxRemovals \in Nat

PagingTypeOK ==
  /\ matching \subseteq Item /\ seen \subseteq Item /\ stayed \subseteq matching
  /\ walk \in [offset : 0..Cardinality(Item), limit : 1..MaxLimit, more : BOOLEAN]
  /\ removed \in 0..MaxRemovals

PagingInit ==
  /\ matching \in SUBSET Item
  /\ walk \in [offset : {0}, limit : 1..MaxLimit, more : {TRUE}]
  /\ seen = {} /\ stayed = matching
  /\ removed = 0

Ahead(i) == {j \in matching : j < i}

Page(offset, limit) ==
  {i \in matching : offset <= Cardinality(Ahead(i)) /\ Cardinality(Ahead(i)) < offset + limit}

(* Mutant: the last full page is taken for the last one.                    *)
HasMoreBeyondPage(offset, limit) == offset + limit + 1 < Cardinality(matching)

HasMore(offset, limit) == offset + Cardinality(Page(offset, limit)) < Cardinality(matching)

(* The walker goes on after the items it got for as long as there is more.  *)
ReadPage ==
  /\ walk.more
  /\ LET page == Page(walk.offset, walk.limit)
     IN /\ seen' = seen \cup page
        /\ walk' = [walk EXCEPT !.offset = @ + Cardinality(page),
                                !.more = HasMore(walk.offset, walk.limit)]
  /\ UNCHANGED <<matching, stayed, removed>>

RemoveItem(i) ==
  /\ walk.more /\ i \in matching /\ removed < MaxRemovals
  /\ matching' = matching \ {i} /\ stayed' = stayed \ {i}
  /\ removed' = removed + 1
  /\ UNCHANGED <<walk, seen>>

InsertItem(i) ==
  /\ walk.more
  /\ matching' = matching \cup {i}
  /\ UNCHANGED <<walk, seen, stayed, removed>>

(* A caller that has come to the end may list from the start again.         *)
ListAgain(limit) ==
  /\ ~walk.more
  /\ walk' = [offset |-> 0, limit |-> limit, more |-> TRUE]
  /\ seen' = {} /\ stayed' = matching /\ removed' = 0
  /\ UNCHANGED matching

PagingCall ==
  \/ ReadPage
  \/ \E limit \in 1..MaxLimit : ListAgain(limit)
  \/ \E i \in Item : RemoveItem(i) \/ InsertItem(i)

PagingSpec == PagingInit /\ [][PagingCall]_pagingVars

-----------------------------------------------------------------------------
(* A walk that ended has missed no more of the items that matched all along *)
(* than were taken out meanwhile: with none taken out it has seen them all, *)
(* whatever was added.                                                      *)
WalksMissOnlyTheShifted ==
  ~walk.more => Cardinality(stayed \ seen) <= removed
=============================================================================
