---------------------------- MODULE RuleSelection ----------------------------
(***************************************************************************)
(* The queries that decide which tables a rule matches and which rules are *)
(* applied to a table (pkg/database/impl.go).                              *)
(*                                                                         *)
(* What a client chooses in a rule (group, priority, regular expression,   *)
(* users, roles, the two templates) is one member of Content; the columns  *)
(* a query reads are functions of it.  A row of the rule table is the      *)
(* content plus the two columns the service itself writes: whether Errors  *)
(* is non-empty, and CompletedRun.  Users and roles are both principals: a *)
(* rule matches if it shares one with the owner of the table.              *)
(***************************************************************************)
EXTENDS Naturals, FiniteSets

CONSTANTS
    Rule,           \* rule ids (the UUIDs CreateRule draws)
    Table,          \* names a table of schema public can have
    Content,        \* what a client can put into a rule
    Principal,      \* user ids and roles
    None,           \* no row, no rule
    Group,          \* [Content -> Nat]: the column Group, in its sort order
    Priority,       \* [Content -> Nat]: the column Priority
    TableRegEx,     \* [Content -> SUBSET Table]: the names the regex matches
    InvalidRegEx,   \* the contents whose TableRegEx PostgreSQL rejects
    Principals      \* [Content -> SUBSET Principal]: the columns Users, Roles

Row == [content : Content, errors : BOOLEAN, completed : BOOLEAN]

Rows == [Rule -> Row \cup {None}]

ASSUME SelectionAssumption ==
    /\ None \notin Row
    /\ Group \in [Content -> Nat]
    /\ Priority \in [Content -> Nat]
    /\ TableRegEx \in [Content -> SUBSET Table]
    /\ InvalidRegEx \subseteq Content
    /\ Principals \in [Content -> SUBSET Principal]

-----------------------------------------------------------------------------
(* FindMatchingTables: the existing tables that some rule of ids matches.  *)
FindMatchingTables(rs, tables, ids) ==
    {t \in tables : \E r \in ids : rs[r] # None /\ t \in TableRegEx[rs[r].content]}

(* ... and when the statement itself fails: PostgreSQL has to evaluate an  *)
(* invalid regular expression on some table name.                          *)
FindMatchingTablesFails(rs, tables, ids) ==
    \E t \in tables, r \in ids : rs[r] # None /\ rs[r].content \in InvalidRegEx

(* The WHERE clause of FindMatchingRulesWithOwnerInfo.  ids is the set     *)
(* Rule when limitToRuleIds is nil.                                        *)
Owned(rs, who, ids) ==
    {r \in ids : rs[r] # None /\ Principals[rs[r].content] \cap who # {}}

Candidates(rs, tables, t, who, ids) ==
    {r \in Owned(rs, who, ids) : t \in tables /\ t \in TableRegEx[rs[r].content]}

(* SELECT DISTINCT ON (Group) ... ORDER BY Group, Priority DESC: one       *)
(* candidate per group, none of its group with a higher priority; which    *)
(* one, among equals, is the database's choice.                            *)
IsSelection(S, C, rs) ==
    /\ S \subseteq C
    /\ \A r \in C : \E s \in S : /\ Group[rs[s].content] = Group[rs[r].content]
                                 /\ Priority[rs[s].content] >= Priority[rs[r].content]
    /\ \A r, s \in S : Group[rs[r].content] = Group[rs[s].content] => r = s

FindMatchingRules(rs, tables, t, who, ids) ==
    LET C == Candidates(rs, tables, t, who, ids)
    IN  {S \in SUBSET C : IsSelection(S, C, rs)}

FindMatchingRulesFails(rs, tables, t, who, ids) ==
    t \in tables /\ \E r \in Owned(rs, who, ids) : rs[r].content \in InvalidRegEx
=============================================================================
