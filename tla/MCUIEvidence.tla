---------------------------- MODULE MCUIEvidence ----------------------------
\* Two fragments of two applications and the contract sets a review moves
\* between: both attested; a selector still to be located, or not attested
\* yet; a fragment not attested yet, or with a selector recorded as drifted.
EXTENDS UIEvidence

Selectors(list, row) == [list |-> list, row |-> row]

Attested ==
  [status |-> "ATTESTED", attested |-> TRUE, located |-> {"list", "row"},
   selectors |-> Selectors("ATTESTED", "ATTESTED")]

MCContents ==
  [first  |-> [plan |-> Attested, mail |-> Attested],
   second |-> [plan |-> [Attested EXCEPT !.located = {"list"}],
               mail |-> [Attested EXCEPT !.selectors = Selectors("ATTESTED", "UNVERIFIED_LIVE")]],
   third  |-> [plan |-> [Attested EXCEPT !.attested = FALSE],
               mail |-> [Attested EXCEPT !.selectors = Selectors("ATTESTED", "DRIFTED")]]]

MCNeeds ==
  [plansRead |-> {"plan"}, searchRead |-> {"plan", "mail"}, mailRead |-> {"mail"},
   tasksRead |-> {}]
=============================================================================
