--------------------------- MODULE SerialService ---------------------------
(***************************************************************************)
(* What the profile executor promises its callers: a line of bounded       *)
(* length in arrival order, at most one request served at a time, and a    *)
(* request overtakes only those that have given up.  ProfileExecutor       *)
(* implements this specification.                                          *)
(***************************************************************************)
EXTENDS Naturals, FiniteSets, SequencesExt

CONSTANTS
  Requests,   \* the requests that may be made of the service
  Capacity    \* how many may be in line or in service at once

VARIABLES
  line,       \* requests waiting for service, in order of arrival
  gaveUp,     \* those in line that no longer want the service
  served      \* the request in service, as a set of at most one element

vars == <<line, gaveUp, served>>

InLine == ToSet(line)
Load   == Len(line) + Cardinality(served)

Init ==
  /\ line = <<>>
  /\ gaveUp = {}
  /\ served = {}

\* A newcomer joins the line, if there is room for one more.
Join(r) ==
  /\ r \notin InLine \union served
  /\ Load < Capacity
  /\ line' = Append(line, r)
  /\ UNCHANGED <<gaveUp, served>>

\* A newcomer is served at once when nobody who still wants service is in line.
ServeNewcomer(r) ==
  /\ r \notin InLine
  /\ served = {}
  /\ InLine \subseteq gaveUp
  /\ Load < Capacity
  /\ served' = {r}
  /\ UNCHANGED <<line, gaveUp>>

\* The first in line who has not given up is served.
ServeNext(r) ==
  /\ served = {}
  /\ r \notin gaveUp
  /\ \E i \in DOMAIN line :
       /\ line[i] = r
       /\ \A j \in 1..(i - 1) : line[j] \in gaveUp
       /\ line' = RemoveAt(line, i)
  /\ served' = {r}
  /\ UNCHANGED gaveUp

GiveUp(r) ==
  /\ r \in InLine \ gaveUp
  /\ gaveUp' = gaveUp \union {r}
  /\ UNCHANGED <<line, served>>

\* One who has given up leaves the line and frees the place.
LeaveLine(r) ==
  /\ r \in gaveUp
  /\ gaveUp' = gaveUp \ {r}
  /\ \E i \in DOMAIN line : line[i] = r /\ line' = RemoveAt(line, i)
  /\ UNCHANGED served

Complete(r) ==
  /\ served = {r}
  /\ served' = {}
  /\ UNCHANGED <<line, gaveUp>>

Next == \E r \in Requests :
  \/ Join(r)
  \/ ServeNewcomer(r)
  \/ ServeNext(r)
  \/ GiveUp(r)
  \/ LeaveLine(r)
  \/ Complete(r)

\* Whoever can be served, leave, or finish eventually does.
Fairness == \A r \in Requests :
  /\ WF_vars(ServeNext(r))
  /\ WF_vars(LeaveLine(r))
  /\ WF_vars(Complete(r))

Spec == Init /\ [][Next]_vars /\ Fairness
=============================================================================
