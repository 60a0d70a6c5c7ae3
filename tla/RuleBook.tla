------------------------------ MODULE RuleBook ------------------------------
(***************************************************************************)
(* What the rule manager promises whoever reads its rule table and the     *)
(* database the rules work on, without goroutines, lock or transactions:   *)
(* rules change one at a time, except that Apply may mark several at once; *)
(* an effect of a rule appears together with a completed run or with an    *)
(* application of rules that exist, and disappears only with its rule.     *)
(***************************************************************************)
CONSTANTS Rule, Table, Content, None

VARIABLES rows, used, objects

bookVars == <<rows, used, objects>>

Book == [content : Content, errors : BOOLEAN, completed : BOOLEAN]

EffectsOf(r) == Table \X {r} \X Content

Init ==
    /\ rows = [r \in Rule |-> None]
    /\ used = {}
    /\ objects = {}

(* A client adds a rule under a fresh id. *)
Create(r) ==
    /\ r \notin used
    /\ used' = used \cup {r}
    /\ \E b \in Book : ~b.completed /\ rows' = [rows EXCEPT ![r] = b]
    /\ UNCHANGED objects

(* A client replaces a rule. *)
Update(r) ==
    /\ rows[r] # None
    /\ \E b \in Book : ~b.completed /\ rows' = [rows EXCEPT ![r] = b]
    /\ UNCHANGED <<used, objects>>

(* A run succeeds: its effects and its verdict become visible together. *)
Complete(r) ==
    /\ rows[r] # None
    /\ \E c \in Content :
         rows' = [rows EXCEPT ![r] = [content |-> c, errors |-> FALSE, completed |-> TRUE]]
    /\ \E E \in SUBSET EffectsOf(r) : objects' = objects \cup E
    /\ UNCHANGED used

(* A run fails: it leaves errors in its row and no effect. *)
Fail(r) ==
    /\ rows[r] # None
    /\ \E b \in Book : b.errors /\ rows' = [rows EXCEPT ![r] = b]
    /\ UNCHANGED <<used, objects>>

(* A rule is deleted with those effects its delete template removes. *)
Delete(r) ==
    /\ rows[r] # None
    /\ rows' = [rows EXCEPT ![r] = None]
    /\ \E E \in SUBSET EffectsOf(r) : objects' = objects \ E
    /\ UNCHANGED used

(* Existing rules are applied to tables; those that fail get errors. *)
Apply ==
    /\ \A r \in Rule : \/ rows'[r] = rows[r]
                       \/ rows[r] # None /\ rows'[r] \in {b \in Book : b.errors}
    /\ rows' \in [Rule -> Book \cup {None}]
    /\ objects \subseteq objects'
    /\ \A o \in objects' \ objects : \E r \in Rule : rows[r] # None /\ o \in EffectsOf(r)
    /\ UNCHANGED used

Next ==
    \/ \E r \in Rule : Create(r) \/ Update(r) \/ Complete(r) \/ Fail(r) \/ Delete(r)
    \/ Apply

Spec == Init /\ [][Next]_bookVars
=============================================================================
