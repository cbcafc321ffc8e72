---------------------------- MODULE OutlookPolls ----------------------------
(***************************************************************************)
(* The two kinds of polls of the Outlook package, which differ in when     *)
(* they look at their bounds (apps/outlook/scheduling_poll_state.py and    *)
(* email_poll_management.py).  A vote is a pair of an option and a person: *)
(* one person may vote for several options.                                *)
(***************************************************************************)
EXTENDS OutlookFixture

CONSTANTS
  Poll, Choice,
  MaxPolls, MaxChoices, MaxVotes,   \* bounds of scheduling polls
  MaxEmailPolls                     \* bound of the email poll catalog

VARIABLES
  polls,        \* scheduling poll -> its record, or None
  emailPolls    \* email poll -> its record, or None

pollsVars == <<polls, emailPolls>>

PollRecord ==
  [closed : BOOLEAN, options : SUBSET Choice, votes : SUBSET (Choice \X Person)]

ASSUME PollsAssumption ==
  /\ IsFiniteSet(Poll) /\ IsFiniteSet(Choice) /\ IsFiniteSet(Person)
  /\ {MaxPolls, MaxChoices, MaxVotes, MaxEmailPolls} \subseteq Nat \ {0}
  /\ None \notin PollRecord

PollsTypeOK ==
  /\ polls \in [Poll -> PollRecord \cup {None}]
  /\ emailPolls \in [Poll -> PollRecord \cup {None}]
  /\ Cardinality(Used(polls)) <= MaxPolls
  /\ \A k \in Used(polls) : /\ Cardinality(polls[k].options) <= MaxChoices
                            /\ Cardinality(polls[k].votes) <= MaxVotes

PollsInit == polls = [k \in Poll |-> None] /\ emailPolls = polls

NewPoll == [closed |-> FALSE, options |-> {}, votes |-> {}]

(* What a call on an open poll makes of it.  A repeated option changes      *)
(* nothing; an option takes its votes with it; a repeated vote is refused.  *)
WithOption(poll, o) == [poll EXCEPT !.options = @ \cup {o}]

(* Mutant: the votes for a removed option stay.                             *)
WithoutOptionOnly(poll, o) == [poll EXCEPT !.options = @ \ {o}]

WithoutOption(poll, o) ==
  [poll EXCEPT !.options = @ \ {o}, !.votes = {v \in @ : v[1] # o}]
WithVote(poll, o, p) == [poll EXCEPT !.votes = @ \cup {<<o, p>>}]
Closed(poll) == [poll EXCEPT !.closed = TRUE]

Open(catalog, k) == catalog[k] # None /\ ~catalog[k].closed

(***************************************************************************)
(* scheduling_poll_state.py                                                *)
(***************************************************************************)
PutPoll(k, desired) == polls' = [polls EXCEPT ![k] = desired] /\ UNCHANGED emailPolls

CreatePoll(k) ==
  /\ polls[k] = None => Cardinality(Used(polls)) < MaxPolls
  /\ PutPoll(k, IF polls[k] = None THEN NewPoll ELSE polls[k])

AddOption(k, o) ==
  /\ Open(polls, k)
  /\ o \notin polls[k].options => Cardinality(polls[k].options) < MaxChoices
  /\ PutPoll(k, WithOption(polls[k], o))

RemoveOption(k, o) == Open(polls, k) /\ PutPoll(k, WithoutOption(polls[k], o))

(* Mutant: the vote of a poll that was closed is still taken.               *)
VoteLate(k, o, p) ==
  /\ polls[k] # None /\ o \in polls[k].options
  /\ Cardinality(polls[k].votes) < MaxVotes
  /\ PutPoll(k, WithVote(polls[k], o, p))

Vote(k, o, p) ==
  /\ Open(polls, k) /\ o \in polls[k].options
  /\ <<o, p>> \notin polls[k].votes
  /\ Cardinality(polls[k].votes) < MaxVotes
  /\ PutPoll(k, WithVote(polls[k], o, p))

ClosePoll(k) == polls[k] # None /\ PutPoll(k, Closed(polls[k]))

(***************************************************************************)
(* email_poll_management.py: the size of the catalog is looked at before   *)
(* every call and after none; those of a poll by its constructor.          *)
(***************************************************************************)
PutEmailPoll(k, desired) ==
  /\ Cardinality(Used(emailPolls)) <= MaxEmailPolls
  /\ Cardinality(desired.options) <= MaxChoices
  /\ Cardinality(desired.votes) <= MaxVotes
  /\ emailPolls' = [emailPolls EXCEPT ![k] = desired]
  /\ UNCHANGED polls

CreateEmailPoll(k) ==
  PutEmailPoll(k, IF emailPolls[k] = None THEN NewPoll ELSE emailPolls[k])

(* An option of a known key and another label is refused by the constructor.*)
AddEmailOption(k, o) == Open(emailPolls, k) /\ PutEmailPoll(k, WithOption(emailPolls[k], o))

RemoveEmailOption(k, o) ==
  Open(emailPolls, k) /\ PutEmailPoll(k, WithoutOption(emailPolls[k], o))

EmailVote(k, o, p) ==
  /\ Open(emailPolls, k) /\ o \in emailPolls[k].options
  /\ <<o, p>> \notin emailPolls[k].votes
  /\ PutEmailPoll(k, WithVote(emailPolls[k], o, p))

CloseEmailPoll(k) == emailPolls[k] # None /\ PutEmailPoll(k, Closed(emailPolls[k]))

-----------------------------------------------------------------------------
PollCall ==
  \E k \in Poll :
    \/ CreatePoll(k) \/ ClosePoll(k)
    \/ \E o \in Choice :
         AddOption(k, o) \/ RemoveOption(k, o) \/ \E p \in Person : Vote(k, o, p)

EmailPollCall ==
  \E k \in Poll :
    \/ CreateEmailPoll(k) \/ CloseEmailPoll(k)
    \/ \E o \in Choice :
         \/ AddEmailOption(k, o)
         \/ RemoveEmailOption(k, o)
         \/ \E p \in Person : EmailVote(k, o, p)

PollsNext == PollCall \/ EmailPollCall

PollsSpec == PollsInit /\ [][PollsNext]_pollsVars

-----------------------------------------------------------------------------
(* The tally of an option, as the results report it.                        *)
Tally(poll, o) == Cardinality({v \in poll.votes : v[1] = o})

(* The tallies of the options add up to the total, however options came and *)
(* went: no vote is counted for an option that is not offered.              *)
AddsUp(poll) ==
  \A v \in poll.votes : v[1] \in poll.options /\ Tally(poll, v[1]) <= Cardinality(Person)

TalliesAddUp ==
  /\ \A k \in Used(polls) : AddsUp(polls[k])
  /\ \A k \in Used(emailPolls) : AddsUp(emailPolls[k])

(* What a poll held when it was closed is what it holds ever after: no      *)
(* option, vote or repeated creation reaches a closed poll.                 *)
ClosedPollsAreFinal ==
  [][/\ \A k \in Used(polls) : polls[k].closed => polls[k]' = polls[k]
     /\ \A k \in Used(emailPolls) : emailPolls[k].closed => emailPolls[k]' = emailPolls[k]]_pollsVars
=============================================================================
