--------------------------- MODULE OutlookFixture ---------------------------
(***************************************************************************)
(* What the modules of the Outlook package share: the messages of the      *)
(* synthetic mailbox (mock_ui.py), the categories, the people a request    *)
(* may name, and the value of a field that is not set.                     *)
(*                                                                         *)
(* Every function of the package takes the caller's catalogs, a request    *)
(* and a readiness report, and returns the next catalogs and a result, or  *)
(* raises and changes nothing.  A call that raises is no step of these     *)
(* models.  The report (readiness.py) and the fixture's `synthetic` mark,  *)
(* which each function asks for before anything else, decide only whether  *)
(* a call raises, so a history with such refusals in it is one of the      *)
(* histories without them.  A catalog is a function from keys to records,  *)
(* None where the key is free: the package keeps it as a tuple, sorted by  *)
(* key or searched by key.                                                 *)
(***************************************************************************)
EXTENDS Integers, FiniteSets

CONSTANTS
  Message, Category, Person,
  None              \* a field or a key with nothing in it

(* The keys of a catalog that are in use.                                   *)
Used(catalog) == {k \in DOMAIN catalog : catalog[k] # None}

NotAfter(day, limit) == day = None \/ limit = None \/ day <= limit
=============================================================================
