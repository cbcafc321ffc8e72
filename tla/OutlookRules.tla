---------------------------- MODULE OutlookRules ----------------------------
(***************************************************************************)
(* The mail automation of the Outlook package: inbox rules, conditional    *)
(* formatting, quick steps and their execution on a message, and sweeps    *)
(* (apps/outlook/mail_automation_models.py, rule_*.py,                     *)
(* conditional_formatting.py, quick_step_*.py, sweep_mutations.py).        *)
(*                                                                         *)
(* Rules, formats and quick steps keep an order of their own, 1 to n.      *)
(* Every call validates the catalog it made and reads its change back, and *)
(* raises when either fails: that the orders computed below are always     *)
(* valid is OrdersStayContiguous, so these checks are not guards here.     *)
(***************************************************************************)
EXTENDS OutlookFixture, Sequences

CONSTANTS
  Rule, Format, QuickStep, Sweep,
  Caption,                  \* display names
  Logic, DestructiveLogic,  \* conditions, actions, exceptions of a rule; those that delete
  ActionList,               \* lists of quick-step actions
  Shortcut,
  Place,                    \* folders a quick step moves to
  MaxOrder, MaxSweeps

VARIABLES
  rules,        \* rule -> its record, or None
  formats,      \* formatting rule -> its record, or None
  quick,        \* quick step -> its record, or None
  sweeps,       \* sweep -> moves or deletes, or None
  mail,         \* the message the quick steps are executed on
  allowed       \* whether the latest call carried a policy allowance

rulesVars == <<rules, formats, quick, sweeps, mail, allowed>>

MailRule == [order : Nat, name : Caption, logic : Logic, enabled : BOOLEAN]
FormattingRule == [order : Nat, name : Caption]
SyntheticQuickStep ==
  [order : Nat, actions : ActionList, shortcut : Shortcut \cup {None}]
SweepMode == {"MOVE", "DELETE"}

ActionKind == {"MOVE_TO_FOLDER", "APPLY_CATEGORY", "MARK_READ", "FLAG", "DELETE",
               "REPLY_WITH_TEMPLATE", "FORWARD_TO_RECIPIENT"}
OutboundKind == {"REPLY_WITH_TEMPLATE", "FORWARD_TO_RECIPIENT"}

ASSUME RulesAssumption ==
  /\ IsFiniteSet(Rule) /\ IsFiniteSet(Format) /\ IsFiniteSet(QuickStep)
  /\ IsFiniteSet(Sweep)
  /\ {} \notin {Rule, Format, QuickStep}
  /\ DestructiveLogic \subseteq Logic
  /\ \A list \in ActionList :
       /\ DOMAIN list = 1..Len(list) /\ Len(list) \in Nat
       /\ \A i \in DOMAIN list :
            /\ list[i].kind \in ActionKind
            /\ list[i].kind = "MOVE_TO_FOLDER" => list[i].target \in Place
            /\ list[i].kind = "APPLY_CATEGORY" => list[i].target \in Category
  /\ {MaxOrder, MaxSweeps} \subseteq Nat \ {0}
  /\ None \notin Shortcut \cup SweepMode
  /\ None \notin MailRule \cup FormattingRule \cup SyntheticQuickStep

HasKind(list, kinds) == \E i \in DOMAIN list : list[i].kind \in kinds
Deletes(list) == HasKind(list, {"DELETE"})
Outbound(list) == HasKind(list, OutboundKind)

-----------------------------------------------------------------------------
(* Catalogs with an order.                                                  *)
Before(catalog, k) == {j \in Used(catalog) : catalog[j].order < catalog[k].order}

(* A new entry goes to the end.                                             *)
Appended(catalog, k, record) == [catalog EXCEPT ![k] = record]
Last(catalog) == Cardinality(Used(catalog)) + 1

(* Mutant: the orders are left as they were.                                *)
WithoutRenumbering(catalog, k) == [catalog EXCEPT ![k] = None]

Without(catalog, k) ==
  [j \in DOMAIN catalog |->
     IF j = k \/ catalog[j] = None THEN None
     ELSE [catalog[j] EXCEPT !.order = 1 + Cardinality(Before(catalog, j) \ {k})]]

(* Mutant: the entry changes places with the one at the target.             *)
Swapped(catalog, k, record, target) ==
  [j \in DOMAIN catalog |->
     IF j = k THEN [record EXCEPT !.order = target]
     ELSE IF catalog[j] # None /\ catalog[j].order = target
       THEN [catalog[j] EXCEPT !.order = catalog[k].order] ELSE catalog[j]]

(* The entry is taken out of the ordered list and put in at the target.     *)
Placed(catalog, k, record, target) ==
  [j \in DOMAIN catalog |->
     IF j = k THEN [record EXCEPT !.order = target]
     ELSE IF catalog[j] = None THEN None
     ELSE LET rank == 1 + Cardinality(Before(catalog, j) \ {k})
          IN [catalog[j] EXCEPT !.order = IF rank < target THEN rank ELSE rank + 1]]

-----------------------------------------------------------------------------
RulesTypeOK ==
  /\ rules \in [Rule -> MailRule \cup {None}]
  /\ formats \in [Format -> FormattingRule \cup {None}]
  /\ quick \in [QuickStep -> SyntheticQuickStep \cup {None}]
  /\ sweeps \in [Sweep -> SweepMode \cup {None}]
  /\ mail \in [folder : Place, categories : SUBSET Category,
               read : BOOLEAN, flagged : BOOLEAN, deleted : BOOLEAN]
  /\ allowed \in BOOLEAN
  /\ Cardinality(Used(sweeps)) <= MaxSweeps

RulesInit ==
  /\ rules = [k \in Rule |-> None]
  /\ formats = [k \in Format |-> None]
  /\ quick = [k \in QuickStep |-> None]
  /\ sweeps = [k \in Sweep |-> None]
  /\ mail \in [folder : Place, categories : {{}}, read : {FALSE},
               flagged : {FALSE}, deleted : {FALSE}]
  /\ allowed = FALSE

(***************************************************************************)
(* rule_mutations.py, rule_state_mutations.py and rule_logic_mutations.py  *)
(***************************************************************************)
PutRules(catalog) ==
  rules' = catalog /\ UNCHANGED <<formats, quick, sweeps, mail>>

CreateRule(k, name, logic, enabled, allow) ==
  /\ rules[k] = None /\ Last(rules) <= MaxOrder
  /\ logic \in DestructiveLogic => allow
  /\ PutRules(Appended(rules, k, [order |-> Last(rules), name |-> name,
                                  logic |-> logic, enabled |-> enabled]))
  /\ allowed' = allow

(* UPDATE only renames: order, state and logic have calls of their own.     *)
RenameRule(k, name) ==
  /\ rules[k] # None
  /\ PutRules([rules EXCEPT ![k].name = name])
  /\ allowed' = FALSE

DeleteRule(k) ==
  /\ PutRules(IF rules[k] = None THEN rules ELSE Without(rules, k))
  /\ allowed' = FALSE

EnableRule(k, enabled) ==
  /\ rules[k] # None
  /\ PutRules([rules EXCEPT ![k].enabled = enabled])
  /\ allowed' = FALSE

MoveRule(k, target) ==
  /\ rules[k] # None /\ target \in 1..Cardinality(Used(rules))
  /\ PutRules(Placed(rules, k, rules[k], target))
  /\ allowed' = FALSE

(* Mutant: only rules that were harmless before are looked at.              *)
ChangeLogicOnce(k, logic, allow) ==
  /\ rules[k] # None
  /\ rules[k].logic \in DestructiveLogic => allow
  /\ PutRules([rules EXCEPT ![k].logic = logic])
  /\ allowed' = allow

(* What is refused is a rule that deletes, changed here or not.             *)
ChangeLogic(k, logic, allow) ==
  /\ rules[k] # None
  /\ logic \in DestructiveLogic => allow
  /\ PutRules([rules EXCEPT ![k].logic = logic])
  /\ allowed' = allow

(***************************************************************************)
(* conditional_formatting.py                                               *)
(***************************************************************************)
PutFormats(catalog) ==
  formats' = catalog /\ UNCHANGED <<rules, quick, sweeps, mail>> /\ allowed' = FALSE

UpsertFormat(k, name, target) ==
  LET desired == [order |-> target, name |-> name]
  IN \/ /\ formats[k] = None /\ target = Last(formats) /\ target <= MaxOrder
        /\ PutFormats(Appended(formats, k, desired))
     \/ /\ formats[k] # None /\ target \in 1..Cardinality(Used(formats))
        /\ PutFormats(Placed(formats, k, desired, target))

DeleteFormat(k) ==
  PutFormats(IF formats[k] = None THEN formats ELSE Without(formats, k))

(***************************************************************************)
(* quick_step_mutations.py: two steps cannot share a shortcut.             *)
(***************************************************************************)
PutQuick(catalog, allow) ==
  /\ quick' = catalog
  /\ allowed' = allow
  /\ UNCHANGED <<rules, formats, sweeps, mail>>

ShortcutFree(k, shortcut) ==
  shortcut # None => \A j \in Used(quick) \ {k} : quick[j].shortcut # shortcut

Sensitive(list) == Deletes(list) \/ Outbound(list)

CreateQuickStep(k, actions, shortcut, allow) ==
  /\ quick[k] = None /\ Last(quick) <= MaxOrder
  /\ Sensitive(actions) => allow
  /\ ShortcutFree(k, shortcut)
  /\ PutQuick(Appended(quick, k, [order |-> Last(quick), actions |-> actions,
                                  shortcut |-> shortcut]), allow)

UpdateQuickStep(k, actions, shortcut, target, allow) ==
  /\ quick[k] # None /\ target \in 1..Cardinality(Used(quick))
  /\ Sensitive(actions) => allow
  /\ ShortcutFree(k, shortcut)
  /\ PutQuick(Placed(quick, k, [order |-> target, actions |-> actions,
                                shortcut |-> shortcut], target), allow)

DeleteQuickStep(k) ==
  PutQuick(IF quick[k] = None THEN quick ELSE Without(quick, k), FALSE)

(***************************************************************************)
(* quick_step_execution.py                                                 *)
(***************************************************************************)
(* The message after a list of actions: the last folder named, the          *)
(* categories added, the marks set.                                         *)
Applied(message, list) ==
  LET moves == {i \in DOMAIN list : list[i].kind = "MOVE_TO_FOLDER"}
      added == {list[i].target : i \in {j \in DOMAIN list : list[j].kind = "APPLY_CATEGORY"}}
  IN [folder |-> IF moves = {} THEN message.folder
                 ELSE list[CHOOSE i \in moves : \A j \in moves : j <= i].target,
      categories |-> message.categories \cup added,
      read |-> message.read \/ HasKind(list, {"MARK_READ"}),
      flagged |-> message.flagged \/ HasKind(list, {"FLAG"}),
      deleted |-> message.deleted \/ Deletes(list)]

(* Mutant: the safe actions of an outbound step are applied.                *)
ExecutePartly(k, destructive, outbound) ==
  /\ quick[k] # None
  /\ Deletes(quick[k].actions) => destructive
  /\ Outbound(quick[k].actions) => outbound
  /\ mail' = Applied(mail, quick[k].actions)
  /\ allowed' = destructive
  /\ UNCHANGED <<rules, formats, quick, sweeps>>

(* An outbound step is prepared and nothing of it is applied.               *)
Execute(k, destructive, outbound) ==
  /\ quick[k] # None
  /\ Deletes(quick[k].actions) => destructive
  /\ Outbound(quick[k].actions) => outbound
  /\ mail' = IF Outbound(quick[k].actions) THEN mail ELSE Applied(mail, quick[k].actions)
  /\ allowed' = destructive
  /\ UNCHANGED <<rules, formats, quick, sweeps>>

(***************************************************************************)
(* sweep_mutations.py                                                      *)
(***************************************************************************)
PutSweep(k, desired, allow) ==
  /\ sweeps' = [sweeps EXCEPT ![k] = desired]
  /\ allowed' = allow
  /\ UNCHANGED <<rules, formats, quick, mail>>

(* Mutant: the catalog is not validated after the change.                   *)
UpsertSweepPastBound(k, mode, allow) ==
  (mode = "DELETE" => allow) /\ PutSweep(k, mode, allow)

UpsertSweep(k, mode, allow) ==
  /\ mode = "DELETE" => allow
  /\ PutSweep(k, mode, allow)
  /\ Cardinality(Used(sweeps')) <= MaxSweeps

DeleteSweep(k) == PutSweep(k, None, FALSE)

-----------------------------------------------------------------------------
RuleCall ==
  \E k \in Rule :
    \/ \E name \in Caption :
         \/ RenameRule(k, name)
         \/ \E logic \in Logic, enabled \in BOOLEAN, allow \in BOOLEAN :
              CreateRule(k, name, logic, enabled, allow)
    \/ DeleteRule(k)
    \/ \E enabled \in BOOLEAN : EnableRule(k, enabled)
    \/ \E target \in 1..MaxOrder : MoveRule(k, target)
    \/ \E logic \in Logic, allow \in BOOLEAN : ChangeLogic(k, logic, allow)

FormatCall ==
  \E k \in Format :
    DeleteFormat(k) \/ \E name \in Caption, target \in 1..MaxOrder : UpsertFormat(k, name, target)

QuickCall ==
  \E k \in QuickStep :
    \/ \E actions \in ActionList, shortcut \in Shortcut \cup {None}, allow \in BOOLEAN :
         \/ CreateQuickStep(k, actions, shortcut, allow)
         \/ \E target \in 1..MaxOrder : UpdateQuickStep(k, actions, shortcut, target, allow)
    \/ DeleteQuickStep(k)
    \/ \E destructive, outbound \in BOOLEAN : Execute(k, destructive, outbound)

SweepCall ==
  \E k \in Sweep :
    DeleteSweep(k) \/ \E mode \in SweepMode, allow \in BOOLEAN : UpsertSweep(k, mode, allow)

RulesNext == RuleCall \/ FormatCall \/ QuickCall \/ SweepCall

RulesSpec == RulesInit /\ [][RulesNext]_rulesVars

-----------------------------------------------------------------------------
Contiguous(catalog) ==
  {catalog[k].order : k \in Used(catalog)} = 1..Cardinality(Used(catalog))

(* After any calls the orders of each catalog are 1 to n without gap or     *)
(* double: the validation every call makes of its own result never raises.  *)
OrdersStayContiguous ==
  /\ Contiguous(rules) /\ Contiguous(formats) /\ Contiguous(quick)
  /\ \A i, j \in Used(quick) :
       quick[i].shortcut = quick[j].shortcut /\ quick[i].shortcut # None => i = j

(* Whichever entry a call adds, moves or takes out, all the others keep     *)
(* their relative order: a move never changes which of them comes first.    *)
KeepsOthersInOrder(catalog, after, key) ==
  \E k \in key :
    \A i, j \in (Used(catalog) \cap Used(after)) \ {k} :
      catalog[i].order < catalog[j].order <=> after[i].order < after[j].order

OthersKeepTheirOrder ==
  [][/\ KeepsOthersInOrder(rules, rules', Rule)
     /\ KeepsOthersInOrder(formats, formats', Format)
     /\ KeepsOthersInOrder(quick, quick', QuickStep)]_rulesVars

(* Nothing that deletes mail comes to be without an allowance in the call   *)
(* that made it so, by creation, by an update or by a change of logic; and  *)
(* no message is deleted without one in the call that executed the step.    *)
Destructive ==
  {k \in Used(rules) : rules[k].logic \in DestructiveLogic}
    \cup {k \in Used(quick) : Deletes(quick[k].actions)}
    \cup {k \in Used(sweeps) : sweeps[k] = "DELETE"}

DeletionIsAllowed ==
  [][(Destructive' \subseteq Destructive /\ mail.deleted' = mail.deleted) \/ allowed']_rulesVars

(* A message changes only by a whole list of safe actions: a step that also *)
(* replies or forwards applies none of the rest.                            *)
OutboundChangesNothing ==
  [][mail' # mail => \E k \in Used(quick) :
       ~Outbound(quick[k].actions) /\ mail' = Applied(mail, quick[k].actions)]_rulesVars
=============================================================================
