--------------------------- MODULE MCTemplateStore ---------------------------
(* Small instances of TemplateStore for TLC: two files, and three           *)
(* templates that differ in one column or another.                          *)
EXTENDS TemplateStore, TLC

CONSTANTS a, b, g, c, d, e

One   == [group |-> g, priority |-> 1, CommandTemplate |-> c, DeleteTemplate |-> d]
Two   == [group |-> g, priority |-> 1, CommandTemplate |-> c, DeleteTemplate |-> e]
Other == [group |-> g, priority |-> 2, CommandTemplate |-> c, DeleteTemplate |-> d]

Files == (a :> {One, Two}) @@ (b :> {Other})
=============================================================================
