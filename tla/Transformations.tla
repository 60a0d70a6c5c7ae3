--------------------------- MODULE Transformations ---------------------------
(***************************************************************************)
(* Rules and templates (pkg/model/transformations.go): a template rule     *)
(* names a template and a target; Rule() makes a rule of it, and Type()    *)
(* finds out for any rule whether it came from a template.                 *)
(***************************************************************************)
CONSTANTS Name, Group, Priority, Command, None

Target == {"device", "export"}
Template == [group : Group, priority : Priority,
             CommandTemplate : Command, DeleteTemplate : Command]

(* TemplateRule: what a client sends. *)
TemplateRule == [template : Name, target : Target \cup {""}]

(* TableRegEx is one of the two the targets stand for, or any other. *)
Rule == [group : Group, priority : Priority,
         CommandTemplate : Command, DeleteTemplate : Command,
         TableRegEx : Target \cup {"other"}]

(* Mutant: the delete templates are not compared. *)
matchesSomeOf(rule, template) ==
    /\ template.group = rule.group
    /\ template.CommandTemplate = rule.CommandTemplate

(* The priority is not compared. *)
matchesTemplate(rule, template) ==
    /\ template.group = rule.group
    /\ template.CommandTemplate = rule.CommandTemplate
    /\ template.DeleteTemplate = rule.DeleteTemplate

(* Type() ranges over the map, in any order, and takes the first match. *)
Matching(rule, store) ==
    {n \in Name : store[n] # None /\ matchesTemplate(rule, store[n])}

TargetOf(rule) == IF rule.TableRegEx \in Target THEN rule.TableRegEx ELSE ""

Types(rule, store) ==
    IF Matching(rule, store) = {}
    THEN {[Type |-> "custom", template |-> None, target |-> ""]}
    ELSE {[Type |-> "template", template |-> n, target |-> TargetOf(rule)] :
            n \in Matching(rule, store)}

(* Rule() fails for an unknown template and for an unknown target. *)
Known(tr, store) == store[tr.template] # None /\ tr.target \in Target

RuleOf(tr, store) ==
    LET template == store[tr.template]
    IN  [group           |-> template.group,
         priority        |-> template.priority,
         CommandTemplate |-> template.CommandTemplate,
         DeleteTemplate  |-> template.DeleteTemplate,
         TableRegEx      |-> tr.target]
=============================================================================
