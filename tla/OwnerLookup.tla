----------------------------- MODULE OwnerLookup -----------------------------
(***************************************************************************)
(* Whom a table belongs to: the calls applyRulesForTable (pkg/controller)  *)
(* makes to other services, which Controller takes for one step, and the   *)
(* token they carry (pkg/security).  A token is kept until Slack seconds   *)
(* before its end, counted from when it was asked for.                     *)
(*                                                                         *)
(* applyRulesForTable runs inside the global lock, so there is one lookup  *)
(* at a time.  Time passes in the other services only: calls are sent as   *)
(* soon as there is a token, and given up after Timeout seconds.           *)
(***************************************************************************)
EXTENDS Naturals

CONSTANTS
    User, Role,
    Lifetime,       \* expires_in of a token
    Slack,          \* 10 seconds in the code
    Timeout,        \* 5 seconds in the code
    MaxTime,        \* bound on the clock
    MaxChanges,     \* bound on changes of permissions and roles
    None

ASSUME OwnerLookupAssumption ==
    /\ Lifetime \in Nat /\ Slack \in Nat /\ Timeout \in Nat
    /\ MaxTime \in Nat /\ MaxChanges \in Nat
    /\ {"device", "permissions"} \cap User = {}

(* Ten seconds are longer than a call, and a token than two of them.       *)
ASSUME TimingAssumption == Timeout <= Slack /\ 2 * Timeout < Lifetime

VARIABLES
    now,
    execute,   \* users and roles with Execute on the device
    realm,     \* [User -> SUBSET Role]: realm roles in Keycloak
    token,     \* Client.token
    pc,        \* of the lookup
    table,     \* "device", or the user an export table belongs to
    callee,    \* "permissions" or the user whose roles are asked for
    using,     \* the token of the call, or the one just issued
    since,     \* when the call began
    todo,      \* users whose roles are still to be asked for
    found,     \* tableInfo.UserIds and tableInfo.Roles
    always,    \* history: what held all the time since the lookup began
    ever,      \* history: what held at some time since then
    changes

vars == <<now, execute, realm, token, pc, table, callee, using, since, todo,
          found, always, ever, changes>>

owners == <<execute, realm, changes>>
lookup == <<table, callee, todo, found>>
seen   == <<always, ever>>

Token == [requested : Nat, validUntil : Nat]

(* <<x>>: x is an owner of its own, <<u, r>>: user u has the role r. *)
Facts(t, E, R) ==
    {<<x>> : x \in IF t = "device" THEN E ELSE {t}}
      \cup UNION {{u} \X R[u] : u \in User}

(* NewClient has got a token, or there is no process. *)
Init ==
    /\ now = 0
    /\ execute \in SUBSET (User \cup Role)
    /\ realm \in [User -> SUBSET Role]
    /\ token = [requested |-> 0, validUntil |-> Lifetime]
    /\ pc = "idle"
    /\ table = None
    /\ callee = None
    /\ using = None
    /\ since = 0
    /\ todo = {}
    /\ found = {}
    /\ always = {}
    /\ ever = {}
    /\ changes = 0

-----------------------------------------------------------------------------
Begin(t, c, users) ==
    /\ pc = "idle"
    /\ pc' = "token"
    /\ table' = t
    /\ callee' = c
    /\ todo' = users
    /\ found' = users
    /\ always' = Facts(t, execute, realm)
    /\ ever' = Facts(t, execute, realm)
    /\ UNCHANGED <<now, owners, token, using, since>>

BeginDevice == Begin("device", "permissions", {})

BeginExport(u) == Begin(u, u, {u})

(* Mutant: the token is used to its very end. *)
FreshToTheEnd == token # None /\ token.requested + Lifetime > now

(* GetToken: RequestTime + ExpiresIn - 10s is after now. *)
Fresh == token # None /\ token.requested + Lifetime > now + Slack

Send(t) ==
    /\ pc' = "sent"
    /\ using' = t
    /\ since' = now

UseToken ==
    /\ pc = "token"
    /\ Fresh
    /\ Send(token)
    /\ UNCHANGED <<now, owners, token, lookup, seen>>

(* GetOpenidPasswordToken: the time is taken before the call ... *)
RequestToken ==
    /\ pc = "token"
    /\ ~Fresh
    /\ pc' = "requesting"
    /\ since' = now
    /\ UNCHANGED <<now, owners, token, using, lookup, seen>>

(* ... and the token is valid from when Keycloak issues it. *)
Issue ==
    /\ pc = "requesting"
    /\ pc' = "issued"
    /\ using' = [requested |-> since, validUntil |-> now + Lifetime]
    /\ UNCHANGED <<now, owners, token, since, lookup, seen>>

ReceiveToken ==
    /\ pc = "issued"
    /\ token' = using
    /\ Send(using)
    /\ UNCHANGED <<now, owners, lookup, seen>>

-----------------------------------------------------------------------------
(* Mutant: roles are asked for their roles like users. *)
PermissionsOfAll ==
    /\ pc = "sent"
    /\ callee = "permissions"
    /\ found' = execute
    /\ todo' = execute
    /\ pc' = "timezone"
    /\ since' = now
    /\ UNCHANGED <<now, owners, token, table, callee, using, seen>>

(* GetResource: who may execute. *)
Permissions ==
    /\ pc = "sent"
    /\ callee = "permissions"
    /\ found' = execute
    /\ todo' = execute \cap User
    /\ pc' = "timezone"
    /\ since' = now
    /\ UNCHANGED <<now, owners, token, table, callee, using, seen>>

(* Mutant: the user is asked for once more after the last. *)
NextUserAgain(users) ==
    /\ todo' = IF users = {} THEN todo ELSE users
    /\ pc' = "token"
    /\ callee' \in todo'

(* The loop over tableInfo.UserIds. *)
NextUser(users) ==
    /\ todo' = users
    /\ IF users = {}
       THEN pc' = "done" /\ UNCHANGED callee
       ELSE pc' = "token" /\ callee' \in users

(* ListDevices with a token of its own: a device that is not found is no   *)
(* error.                                                                  *)
DeviceAttributes ==
    /\ pc = "timezone"
    /\ NextUser(todo)
    /\ UNCHANGED <<now, owners, token, table, using, since, found, seen>>

(* GetRealmRoleMappings. *)
RealmRoles ==
    /\ pc = "sent"
    /\ callee # "permissions"
    /\ found' = found \cup realm[callee]
    /\ NextUser(todo \ {callee})
    /\ UNCHANGED <<now, owners, token, table, using, since, seen>>

(* The local variables are gone. *)
Return ==
    /\ pc' = "idle"
    /\ using' = None
    /\ since' = 0
    /\ table' = None
    /\ callee' = None
    /\ todo' = {}
    /\ found' = {}
    /\ always' = {}
    /\ ever' = {}
    /\ UNCHANGED <<now, owners, token>>

(* FindMatchingRulesWithOwnerInfo takes what was found. *)
Finish == pc = "done" /\ Return

InCall == pc \in {"requesting", "issued", "sent", "timezone"}

(* Mutant: the loop goes on when the roles of a user cannot be had. *)
SkipUser ==
    /\ InCall
    /\ IF pc = "sent" /\ callee # "permissions"
       THEN /\ NextUser(todo \ {callee})
            /\ UNCHANGED <<now, owners, token, table, using, since, found, seen>>
       ELSE Return

(* An error or a timeout of any call ends the lookup. *)
Fail == InCall /\ Return

-----------------------------------------------------------------------------
Tick ==
    /\ now < MaxTime
    /\ InCall => now < since + Timeout
    /\ pc \notin {"token", "done"}
    /\ now' = now + 1
    /\ UNCHANGED <<owners, token, pc, using, since, lookup, seen>>

(* Permissions and roles change at any time. *)
Change(E, R) ==
    /\ changes < MaxChanges
    /\ <<E, R>> # <<execute, realm>>
    /\ execute' = E
    /\ realm' = R
    /\ changes' = changes + 1
    /\ IF pc = "idle"
       THEN UNCHANGED seen
       ELSE /\ always' = always \cap Facts(table, E, R)
            /\ ever' = ever \cup Facts(table, E, R)
    /\ UNCHANGED <<now, token, pc, using, since, lookup>>

ChangePermissions == \E E \in SUBSET (User \cup Role) : Change(E, realm)

ChangeRoles ==
    \E u \in User : \E S \in SUBSET Role : Change(execute, [realm EXCEPT ![u] = S])

Lookup ==
    \/ UseToken \/ RequestToken \/ Issue \/ ReceiveToken
    \/ Permissions \/ DeviceAttributes \/ RealmRoles
    \/ Finish \/ Fail

Next ==
    \/ BeginDevice \/ \E u \in User : BeginExport(u)
    \/ Lookup
    \/ Tick
    \/ ChangePermissions \/ ChangeRoles

Spec == Init /\ [][Next]_vars

(* No call takes longer than its timeout. *)
FairSpec == Spec /\ WF_vars(Lookup)
-----------------------------------------------------------------------------
(* The state has the types the declarations above give it. *)
TypeOK ==
    /\ now \in Nat
    /\ execute \subseteq User \cup Role
    /\ realm \in [User -> SUBSET Role]
    /\ token \in Token
    /\ pc \in {"idle", "token", "requesting", "issued", "sent", "timezone", "done"}
    /\ table \in User \cup {"device", None}
    /\ callee \in User \cup {"permissions", None}
    /\ using \in Token \cup {None}
    /\ since \in Nat
    /\ todo \subseteq User
    /\ found \subseteq User \cup Role
    /\ changes \in 0..MaxChanges

(* A call arrives with a token that has not expired: ten seconds before    *)
(* the end are enough for the call, although the token was issued later    *)
(* than the time it is counted from, and a new one is not too old either.  *)
TokensValid == pc = "sent" => now < using.validUntil

Owners(facts) ==
    {x \in User \cup Role : <<x>> \in facts}
      \cup {r \in Role : \E u \in User : <<u>> \in facts /\ <<u, r>> \in facts}

(* A lookup that did not fail finds everybody who was an owner all the     *)
(* time and nobody who never was, although it puts together what three     *)
(* services said at different times.                                       *)
LookupIsTrue ==
    pc = "done" => Owners(always) \subseteq found /\ found \subseteq Owners(ever)

(* A lookup ends, so it does not keep the global lock. *)
LookupEnds == pc # "idle" ~> pc = "idle"
=============================================================================
