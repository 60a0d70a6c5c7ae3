-------------------------- MODULE OwnerLookupProofs --------------------------
(***************************************************************************)
(* For any users, roles and times that TimingAssumption allows: the types  *)
(* of OwnerLookup, that tokens are valid when they are used, and that a    *)
(* lookup that succeeds is true.                                           *)
(***************************************************************************)
EXTENDS OwnerLookup, TLAPS

(* What a lookup under way asks for, and with what.                        *)
Asking ==
    /\ pc # "idle" => table \in User \cup {"device"}
    /\ pc # "idle" => callee \in User \cup {"permissions"}
    /\ pc \in {"issued", "sent"} => using \in Token

(* A token lives for Lifetime at least from when it was asked for, and no  *)
(* call outlives its timeout.                                              *)
Timing ==
    /\ token.requested + Lifetime <= token.validUntil
    /\ InCall => since <= now /\ now <= since + Timeout
    /\ pc = "issued" => /\ using.requested = since
                        /\ since + Lifetime <= using.validUntil
    /\ pc = "sent" => since + Timeout < using.validUntil

TimeInv == TypeOK /\ Asking /\ Timing

LEMMA TimeInit == Init => TimeInv
BY OwnerLookupAssumption DEF Init, TimeInv, TypeOK, Asking, Timing, Token, InCall

LEMMA TypeStep == TypeOK /\ Asking /\ [Next]_vars => TypeOK' /\ Asking'
<1> SUFFICES ASSUME TypeOK, Asking, [Next]_vars PROVE TypeOK' /\ Asking'
  OBVIOUS
<1> USE OwnerLookupAssumption DEF TypeOK, Asking
<1>1. CASE BeginDevice
  BY <1>1 DEF BeginDevice, Begin, owners
<1>2. ASSUME NEW u \in User, BeginExport(u) PROVE TypeOK' /\ Asking'
  BY <1>2 DEF BeginExport, Begin, owners
<1>3. CASE UseToken
  BY <1>3 DEF UseToken, Send, owners, lookup, seen
<1>4. CASE RequestToken
  BY <1>4 DEF RequestToken, owners, lookup, seen
<1>5. CASE Issue
  BY <1>5 DEF Issue, Token, owners, lookup, seen
<1>6. CASE ReceiveToken
  BY <1>6 DEF ReceiveToken, Send, owners, lookup, seen
<1>7. CASE Permissions
  BY <1>7 DEF Permissions, owners, seen
<1>8. CASE DeviceAttributes
  BY <1>8 DEF DeviceAttributes, NextUser, owners, seen
<1>9. CASE RealmRoles
  <2>1. callee \in User /\ realm[callee] \subseteq Role
    BY <1>9 DEF RealmRoles
  <2> QED
    BY <1>9, <2>1 DEF RealmRoles, NextUser, owners, seen
<1>10. CASE Finish \/ Fail
  BY <1>10 DEF Finish, Fail, Return, owners
<1>11. CASE Tick
  BY <1>11 DEF Tick, owners, lookup, seen
<1>12. CASE ChangePermissions
  BY <1>12 DEF ChangePermissions, Change, lookup
<1>13. CASE ChangeRoles
  BY <1>13 DEF ChangeRoles, Change, lookup
<1>14. CASE UNCHANGED vars
  BY <1>14 DEF vars, owners, lookup, seen
<1> QED
  BY <1>1, <1>2, <1>3, <1>4, <1>5, <1>6, <1>7, <1>8, <1>9, <1>10, <1>11,
     <1>12, <1>13, <1>14 DEF Next, Lookup

LEMMA TimingStep == TimeInv /\ [Next]_vars => Timing'
<1> SUFFICES ASSUME TypeOK, Asking, Timing, [Next]_vars PROVE Timing'
  BY DEF TimeInv
<1> USE OwnerLookupAssumption, TimingAssumption DEF TypeOK, Asking, Timing, InCall, Token
<1>1. ASSUME NEW u \in User, BeginDevice \/ BeginExport(u) PROVE Timing'
  BY <1>1 DEF BeginDevice, BeginExport, Begin
<1>2. CASE UseToken
  BY <1>2 DEF UseToken, Fresh, Send
<1>3. CASE RequestToken
  BY <1>3 DEF RequestToken
<1>4. CASE Issue
  BY <1>4 DEF Issue
<1>5. CASE ReceiveToken
  BY <1>5 DEF ReceiveToken, Send
<1>6. CASE Permissions \/ DeviceAttributes \/ RealmRoles
  BY <1>6 DEF Permissions, DeviceAttributes, RealmRoles, NextUser
<1>7. CASE Finish \/ Fail
  BY <1>7 DEF Finish, Fail, Return
<1>8. CASE Tick
  BY <1>8 DEF Tick
<1>9. CASE ChangePermissions \/ ChangeRoles
  BY <1>9 DEF ChangePermissions, ChangeRoles, Change
<1>10. CASE UNCHANGED vars
  BY <1>10 DEF vars
<1>11. CASE BeginDevice
  BY <1>11 DEF BeginDevice, Begin
<1> QED
  BY <1>1, <1>2, <1>3, <1>4, <1>5, <1>6, <1>7, <1>8, <1>9, <1>10, <1>11 DEF Next, Lookup

(* Every state of OwnerLookup has the declared types. *)
THEOREM LookupTypeCorrect == Spec => []TypeOK
<1>1. TimeInv /\ [Next]_vars => TimeInv'
  BY TypeStep, TimingStep DEF TimeInv
<1>2. TimeInv => TypeOK
  BY DEF TimeInv
<1> QED
  BY TimeInit, <1>1, <1>2, PTL DEF Spec

(* No call is sent with a token that has expired or expires on the way, as *)
(* long as the slack is not shorter than the timeout of a call.            *)
THEOREM TokensAreValid == Spec => []TokensValid
<1>1. TimeInv /\ [Next]_vars => TimeInv'
  BY TypeStep, TimingStep DEF TimeInv
<1>2. TimeInv => TokensValid
  <2> SUFFICES ASSUME TimeInv, pc = "sent" PROVE now < using.validUntil
    BY DEF TokensValid
  <2> QED
    BY OwnerLookupAssumption DEF TimeInv, TypeOK, Asking, Timing, InCall, Token
<1> QED
  BY TimeInit, <1>1, <1>2, PTL DEF Spec

-----------------------------------------------------------------------------
(* Owners of their own and roles of users do not mix. *)
LEMMA OwnFact ==
  ASSUME NEW t, NEW E, NEW R, NEW x
  PROVE  <<x>> \in Facts(t, E, R) <=> x \in IF t = "device" THEN E ELSE {t}
<1>1. \A u, r : <<x>> # <<u, r>>
  OBVIOUS
<1>2. <<x>> \notin UNION {{u} \X R[u] : u \in User}
  BY <1>1
<1> QED
  BY <1>2 DEF Facts

LEMMA RoleFact ==
  ASSUME NEW t, NEW E, NEW R, NEW u \in User, NEW r
  PROVE  <<u, r>> \in Facts(t, E, R) <=> r \in R[u]
<1>1. \A x : <<x>> # <<u, r>>
  OBVIOUS
<1>2. <<u, r>> \in UNION {{v} \X R[v] : v \in User} <=> r \in R[u]
  OBVIOUS
<1> QED
  BY <1>1, <1>2 DEF Facts

(* x is an owner by the facts seen so far. *)
Owner(x, facts) ==
    \/ <<x>> \in facts
    \/ x \in Role /\ \E u \in User : <<u>> \in facts /\ <<u, x>> \in facts

(* The users are known: the permissions have been asked for, or need not be. *)
Asked == callee \in User \/ pc \in {"timezone", "done"}

(* What has been found while a lookup is under way.                        *)
FoundInv ==
    /\ todo \subseteq User
    /\ \A u \in todo : <<u>> \in ever
    /\ \A x \in found : Owner(x, ever)
    /\ \A x \in User \cup Role : <<x>> \in always => x \in found
    /\ \A u \in User, r \in Role :
         <<u>> \in always /\ <<u, r>> \in always => u \in todo \/ r \in found
    /\ pc = "done" => todo = {}
    /\ callee \in User /\ pc # "done" => callee \in todo

LookupInv ==
    pc # "idle" =>
      /\ always \subseteq Facts(table, execute, realm)
      /\ Facts(table, execute, realm) \subseteq ever
      /\ ~Asked => table = "device" /\ todo = {}
      /\ Asked => FoundInv

LEMMA LookupStep ==
  TypeOK /\ Asking /\ LookupInv /\ [Next]_vars => LookupInv'
<1> SUFFICES ASSUME TypeOK, Asking, LookupInv, [Next]_vars PROVE LookupInv'
  OBVIOUS
<1> USE OwnerLookupAssumption
<1>1. CASE BeginDevice
  BY <1>1 DEF BeginDevice, Begin, owners, LookupInv, Asked
<1>2. ASSUME NEW u \in User, BeginExport(u) PROVE LookupInv'
  <2>1. \A x : <<x>> \in Facts(u, execute, realm) <=> x = u
    BY OwnFact
  <2> QED
    BY <1>2, <2>1 DEF BeginExport, Begin, owners, LookupInv, Asked, FoundInv, Owner
<1>3. CASE UseToken \/ RequestToken \/ Issue \/ ReceiveToken
  <2>1. /\ UNCHANGED <<table, callee, todo, found, execute, realm, always, ever>>
        /\ {pc, pc'} \subseteq {"token", "requesting", "issued", "sent"}
    BY <1>3 DEF UseToken, RequestToken, Issue, ReceiveToken, Send, owners, lookup, seen
  <2> QED
    BY <2>1 DEF LookupInv, Asked, FoundInv, Owner
<1>4. CASE Permissions
  <2>1. /\ always \subseteq Facts("device", execute, realm)
        /\ Facts("device", execute, realm) \subseteq ever
    BY <1>4 DEF Permissions, LookupInv, Asked
  <2>2. \A x : <<x>> \in Facts("device", execute, realm) <=> x \in execute
    BY OwnFact
  <2>3. table = "device"
    BY <1>4 DEF Permissions, LookupInv, Asked
  <2>4. FoundInv'
    BY <1>4, <2>1, <2>2 DEF Permissions, seen, FoundInv, Owner
  <2> QED
    BY <1>4, <2>1, <2>3, <2>4 DEF Permissions, owners, seen, LookupInv, Asked
<1>5. CASE DeviceAttributes
  <2>1. FoundInv'
    BY <1>5 DEF DeviceAttributes, NextUser, seen, LookupInv, Asked, FoundInv, Owner
  <2>2. Asked'
    BY <1>5, <2>1 DEF DeviceAttributes, NextUser, FoundInv, Asked
  <2> QED
    BY <1>5, <2>1, <2>2 DEF DeviceAttributes, owners, seen, LookupInv
<1>6. CASE RealmRoles
  <2>1. /\ callee \in User /\ callee \in todo /\ FoundInv
        /\ always \subseteq Facts(table, execute, realm)
        /\ Facts(table, execute, realm) \subseteq ever
    BY <1>6 DEF RealmRoles, Asking, LookupInv, Asked, FoundInv
  <2>2. \A r : <<callee, r>> \in Facts(table, execute, realm) <=> r \in realm[callee]
    BY <2>1, RoleFact
  <2>3. realm[callee] \subseteq Role
    BY <2>1 DEF TypeOK
  <2>4. \A x \in realm[callee] : Owner(x, ever)
    BY <2>1, <2>2, <2>3 DEF FoundInv, Owner
  <2>5. \A u \in User, r \in Role :
          <<u>> \in always /\ <<u, r>> \in always =>
            u \in todo \ {callee} \/ r \in found \cup realm[callee]
    BY <2>1, <2>2 DEF FoundInv
  <2>6. todo' = todo \ {callee} /\ found' = found \cup realm[callee]
    BY <1>6 DEF RealmRoles, NextUser
  <2>7. pc' = "done" => todo' = {}
    BY <1>6 DEF RealmRoles, NextUser
  <2>8. callee' \in User /\ pc' # "done" => callee' \in todo'
    BY <1>6 DEF RealmRoles, NextUser
  <2>9. UNCHANGED <<always, ever>>
    BY <1>6 DEF RealmRoles, seen
  <2>10. FoundInv'
    BY <2>1, <2>4, <2>5, <2>6, <2>7, <2>8, <2>9 DEF FoundInv, Owner
  <2>11. Asked'
    BY <1>6, <2>1, <2>10 DEF RealmRoles, NextUser, FoundInv, Asked
  <2> QED
    BY <1>6, <2>1, <2>9, <2>10, <2>11 DEF RealmRoles, owners, LookupInv
<1>7. CASE Finish \/ Fail
  BY <1>7 DEF Finish, Fail, Return, LookupInv
<1>8. CASE Tick
  BY <1>8 DEF Tick, owners, lookup, seen, LookupInv, Asked, FoundInv, Owner
<1>9. ASSUME NEW E, NEW R, Change(E, R) PROVE LookupInv'
  <2>1. CASE pc = "idle"
    BY <1>9, <2>1 DEF Change, LookupInv
  <2>2. CASE pc # "idle"
    <3>1. /\ always' = always \cap Facts(table, E, R)
          /\ ever' = ever \cup Facts(table, E, R)
          /\ UNCHANGED <<pc, table, callee, todo, found>>
          /\ execute' = E /\ realm' = R
      BY <1>9, <2>2 DEF Change, lookup
    <3>2. Asked => FoundInv'
      BY <2>2, <3>1 DEF LookupInv, Asked, FoundInv, Owner
    <3> QED
      BY <2>2, <3>1, <3>2 DEF LookupInv, Asked
  <2> QED
    BY <2>1, <2>2
<1>10. CASE UNCHANGED vars
  BY <1>10 DEF vars, owners, lookup, seen, LookupInv, Asked, FoundInv, Owner
<1> QED
  BY <1>1, <1>2, <1>3, <1>4, <1>5, <1>6, <1>7, <1>8, <1>9, <1>10
     DEF Next, Lookup, ChangePermissions, ChangeRoles

(* A lookup that did not fail found everybody who was an owner throughout  *)
(* and nobody who never was, for any number of users, roles and changes.   *)
THEOREM LookupsAreTrue == Spec => []LookupIsTrue
<1>1. Init => LookupInv
  BY DEF Init, LookupInv
<1>2. TypeOK /\ LookupInv => LookupIsTrue
  <2> SUFFICES ASSUME TypeOK, LookupInv, pc = "done"
               PROVE  Owners(always) \subseteq found /\ found \subseteq Owners(ever)
    BY DEF LookupIsTrue
  <2>1. FoundInv /\ todo = {}
    BY DEF LookupInv, Asked, FoundInv
  <2>2. Owners(always) \subseteq found
    BY <2>1 DEF FoundInv, Owners
  <2>3. found \subseteq Owners(ever)
    BY <2>1 DEF FoundInv, Owner, Owners, TypeOK
  <2> QED
    BY <2>2, <2>3
<1>3. TimeInv /\ LookupInv /\ [Next]_vars => TimeInv' /\ LookupInv'
  BY TypeStep, TimingStep, LookupStep DEF TimeInv
<1>4. TimeInv => TypeOK
  BY DEF TimeInv
<1> QED
  BY TimeInit, <1>1, <1>2, <1>3, <1>4, PTL DEF Spec
=============================================================================
