---------------------------- MODULE MCController ----------------------------
(* Small instances of Controller for TLC.  The contents are records, so    *)
(* that the columns the queries read can be taken from them.               *)
EXTENDS Controller, TLC

CONSTANTS r1, r2, t1, t2, w1, w2, alice, bob

Item(name, group, priority, regex, valid, users) ==
    [name |-> name, group |-> group, priority |-> priority,
     regex |-> regex, valid |-> valid, users |-> users]

(* Two versions of one rule, alike for every query. *)
VersionA == Item("a", 1, 1, {t1, t2}, TRUE, {alice})
VersionB == Item("b", 1, 1, {t1, t2}, TRUE, {alice})
Broken   == Item("broken", 1, 1, {}, FALSE, {alice})
Other    == Item("other", 2, 1, {t1, t2}, TRUE, {bob, alice})
High     == Item("high", 1, 2, {t1, t2}, TRUE, {alice})
Bobs     == Item("bobs", 1, 1, {t1, t2}, TRUE, {bob})

MCGroup        == [c \in Content |-> c.group]
MCPriority     == [c \in Content |-> c.priority]
MCTableRegEx   == [c \in Content |-> c.regex \cap Table]
MCInvalidRegEx == {c \in Content : ~c.valid}
MCPrincipals   == [c \in Content |-> c.users]

Versions       == {VersionA, VersionB}
PairContents   == {VersionA, VersionB, Other}
PairOffered    == (r1 :> Versions) @@ (r2 :> {Other})
GroupContents  == {VersionA, High}
GroupOffered   == (r1 :> {High}) @@ (r2 :> {VersionA})
VersionsOffered == [r \in Rule |-> Versions]
OneContent     == {VersionA}
OneOffered     == [r \in Rule |-> OneContent]
MixedContents  == {VersionA, Broken}
MixedOffered   == [r \in Rule |-> MixedContents]

OneOwner       == {{alice}}
TwoOwners      == {{alice}, {bob}}
OneDevice      == {{t1}}
NoDevice       == {}

Workers        == Permutations(Worker)
=============================================================================
