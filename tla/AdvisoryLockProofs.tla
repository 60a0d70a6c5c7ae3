------------------------- MODULE AdvisoryLockProofs -------------------------
(***************************************************************************)
(* AdvisoryLock has the types it declares; and one process alone           *)
(* implements GlobalLock, whatever its connections, cancelled transactions *)
(* and failed statements do to the advisory lock: impl.mux is enough.      *)
(***************************************************************************)
EXTENDS AdvisoryLock, SequenceTheorems, TLAPS

(* Whoever waits for a statement or has a transaction has a connection,    *)
(* and a session that has the lock has it at least once.                   *)
Using ==
    /\ \A t \in Thread : pc[t] \in {"waiting", "tx", "saving"} => conn[t] \in Conn
    /\ advisory.session # None => advisory.depth # 0

TypeInv == TypeOK /\ Using

(* The pool: what it gives and keeps are connections, at most MaxIdle of   *)
(* them.                                                                   *)
LEMMA HandoutType ==
  ASSUME TypeOK, NEW p \in Replica
  PROVE  /\ Handout(p) \subseteq Conn
         /\ Rest(p) \in Seq(Conn) /\ Len(Rest(p)) <= MaxIdle
<1>1. free[p] \in Seq(Conn) /\ Len(free[p]) \in Nat /\ Len(free[p]) <= MaxIdle
  BY DEF TypeOK
<1>2. CASE free[p] = <<>>
  <2>1. Rest(p) = <<>> /\ Handout(p) = Conn \ Open
    BY <1>2 DEF Rest, Handout
  <2> QED
    BY <2>1, <1>1, <1>2
<1>3. CASE free[p] # <<>>
  <2>1. Len(free[p]) >= 1
    BY <1>1, <1>3, EmptySeq
  <2>2. free[p][Len(free[p])] \in Conn
    BY <1>1, <2>1, ElementOfSeq
  <2>3. /\ SubSeq(free[p], 1, Len(free[p]) - 1) \in Seq(Conn)
        /\ Len(SubSeq(free[p], 1, Len(free[p]) - 1)) = Len(free[p]) - 1
    BY <1>1, <2>1, SubSeqProperties
  <2> QED
    BY <1>1, <1>3, <2>2, <2>3, AdvisoryLockAssumption DEF Handout, Rest
<1> QED
  BY <1>2, <1>3

LEMMA ReturnedType ==
  ASSUME NEW idle \in Seq(Conn), Len(idle) <= MaxIdle, NEW c \in Conn
  PROVE  Returned(idle, c) \in Seq(Conn) /\ Len(Returned(idle, c)) <= MaxIdle
<1>1. Len(idle) \in Nat /\ Len(Append(idle, c)) = Len(idle) + 1 /\ Append(idle, c) \in Seq(Conn)
  BY AppendProperties, LenProperties
<1> QED
  BY <1>1, AdvisoryLockAssumption DEF Returned

LEMMA WithoutOne ==
  ASSUME NEW idle \in Seq(Conn), Len(idle) <= MaxIdle, NEW i \in 1..Len(idle)
  PROVE  /\ SubSeq(idle, 1, i - 1) \o SubSeq(idle, i + 1, Len(idle)) \in Seq(Conn)
         /\ Len(SubSeq(idle, 1, i - 1) \o SubSeq(idle, i + 1, Len(idle))) <= MaxIdle
<1> DEFINE a == SubSeq(idle, 1, i - 1)
           b == SubSeq(idle, i + 1, Len(idle))
<1>1. Len(idle) \in Nat /\ i \in Int /\ 1 <= i /\ i <= Len(idle)
  BY LenProperties
<1>2. a \in Seq(Conn) /\ Len(a) = i - 1
  BY <1>1, SubSeqProperties
<1>3. b \in Seq(Conn) /\ Len(b) = Len(idle) - i
  BY <1>1, SubSeqProperties
<1> HIDE DEF a, b
<1>4. a \o b \in Seq(Conn) /\ Len(a \o b) = Len(a) + Len(b)
  BY <1>2, <1>3, ConcatProperties
<1>5. Len(a \o b) <= MaxIdle
  BY <1>1, <1>2, <1>3, <1>4, AdvisoryLockAssumption
<1> QED
  BY <1>4, <1>5 DEF a, b

(* The advisory lock. *)
Session(adv) ==
    /\ adv \in [session : Conn \cup {None}, depth : Nat]
    /\ adv.session # None => adv.depth # 0

LEMMA SessionType ==
  ASSUME Session(advisory), NEW c \in Conn
  PROVE  /\ Session(Acquired(c)) /\ Session(ReleasedBy(c)) /\ Session(Unlocked)
         /\ Session(WithoutSession(advisory, c))
         /\ Session(WithoutSession(Acquired(c), c))
         /\ Session(WithoutSession(ReleasedBy(c), c))
<1>1. Session(Acquired(c)) /\ Session(Unlocked)
  BY DEF Session, Acquired, Unlocked
<1>2. Session(ReleasedBy(c))
  <2>1. CASE advisory.session = c /\ advisory.depth # 1
    <3>1. advisory.depth # 0 /\ advisory.depth \in Nat
      BY <2>1, AdvisoryLockAssumption DEF Session
    <3>2. ReleasedBy(c) = [advisory EXCEPT !.depth = @ - 1]
      BY <2>1 DEF ReleasedBy
    <3> QED
      BY <2>1, <3>1, <3>2 DEF Session
  <2> QED
    BY <1>1, <2>1 DEF ReleasedBy, Session
<1> QED
  BY <1>1, <1>2 DEF WithoutSession

(* Every action keeps the types; what it does to the pool and to the       *)
(* advisory lock follows from the lemmas above.                            *)
LEMMA TypeStep == TypeInv /\ [Next]_vars => TypeInv'
<1> SUFFICES ASSUME TypeInv, [Next]_vars PROVE TypeInv'
  OBVIOUS
<1> DEFINE Idle(s) == s \in Seq(Conn) /\ Len(s) <= MaxIdle
<1>1. Session(advisory)
  BY DEF TypeInv, TypeOK, Using, Session
<1>2. \A p \in Replica : Idle(free[p]) /\ Idle(Rest(p)) /\ Handout(p) \subseteq Conn
  BY HandoutType DEF TypeInv, TypeOK
<1>3. \A idle, c : Idle(idle) /\ c \in Conn => Idle(Returned(idle, c))
  BY ReturnedType
<1>4. \A c \in Conn :
        /\ Session(Acquired(c)) /\ Session(ReleasedBy(c)) /\ Session(Unlocked)
        /\ Session(WithoutSession(advisory, c))
        /\ Session(WithoutSession(Acquired(c), c))
        /\ Session(WithoutSession(ReleasedBy(c), c))
  BY <1>1, SessionType
<1>5. \A t \in Thread : On[t] \in Replica
  BY AdvisoryLockAssumption
<1>6. \A u \in Reader : On[u] \in Replica
  BY AdvisoryLockAssumption
<1>7. Idle(<<>>) /\ Session(Unlocked)
  BY AdvisoryLockAssumption, EmptySeq DEF Session, Unlocked
<1> DEFINE FreeOK == free \in [Replica -> Seq(Conn)] /\ \A p \in Replica : Idle(free[p])
           Shape == /\ mux \in [Replica -> Thread \cup {None}]
                    /\ pc \in [Thread -> {"idle", "mutex", "waiting", "locked",
                                       "tx", "failed", "saving", "ended"}]
                    /\ conn \in [Thread \cup Reader -> Conn \cup {None}]
                    /\ ending \in [Replica -> SUBSET Conn]
                    /\ \A t \in Thread : pc[t] \in {"waiting", "tx", "saving"} => conn[t] \in Conn
<1>8. Shape /\ FreeOK
  BY <1>2 DEF TypeInv, TypeOK, Using
<1>9. SUFFICES Shape' /\ FreeOK' /\ Session(advisory')
  BY DEF TypeInv, TypeOK, Using, Session
<1>10. ASSUME NEW q \in Replica, NEW s, Idle(s), free' = [free EXCEPT ![q] = s]
       PROVE  FreeOK'
  BY <1>8, <1>10
<1> HIDE DEF Idle
<1>11. ASSUME NEW t \in Thread, Request(t) PROVE Shape' /\ FreeOK' /\ Session(advisory')
  BY <1>1, <1>8, <1>11 DEF Request
<1>12. ASSUME NEW t \in Thread, LockMux(t) PROVE Shape' /\ FreeOK' /\ Session(advisory')
  <2>1. FreeOK'
    BY <1>2, <1>5, <1>10, <1>12 DEF LockMux
  <2> HIDE DEF FreeOK
  <2> QED
    BY <1>1, <1>2, <1>5, <1>8, <1>12, <2>1 DEF LockMux
<1>13. ASSUME NEW t \in Thread, LockDatabase(t) PROVE Shape' /\ FreeOK' /\ Session(advisory')
  <2>1. conn[t] \in Conn /\ On[t] \in Replica
    BY <1>5, <1>8, <1>13 DEF LockDatabase
  <2>2. FreeOK'
    BY <1>2, <1>3, <1>10, <1>13, <2>1 DEF LockDatabase
  <2>3. Session(advisory')
    BY <1>4, <1>13, <2>1 DEF LockDatabase, AfterReturn
  <2> HIDE DEF FreeOK
  <2> QED
    BY <1>8, <1>13, <2>1, <2>2, <2>3 DEF LockDatabase
<1>14. ASSUME NEW t \in Thread, LockFails(t) PROVE Shape' /\ FreeOK' /\ Session(advisory')
  <2>1. conn[t] \in Conn /\ On[t] \in Replica
    BY <1>5, <1>8, <1>14 DEF LockFails
  <2> QED
    BY <1>4, <1>8, <1>14, <2>1 DEF LockFails
<1>15. ASSUME NEW t \in Thread, BeginTx(t) PROVE Shape' /\ FreeOK' /\ Session(advisory')
  <2>1. FreeOK'
    BY <1>2, <1>5, <1>10, <1>15 DEF BeginTx
  <2> HIDE DEF FreeOK
  <2> QED
    BY <1>1, <1>2, <1>5, <1>8, <1>15, <2>1 DEF BeginTx
<1>16. ASSUME NEW t \in Thread, SideQuery(t) PROVE Shape' /\ FreeOK' /\ Session(advisory')
  <2>1. FreeOK'
    BY <1>2, <1>3, <1>5, <1>10, <1>16 DEF SideQuery
  <2> HIDE DEF FreeOK
  <2> QED
    BY <1>1, <1>8, <1>16, <2>1 DEF SideQuery
<1>17. ASSUME NEW t \in Thread, EndTx(t) PROVE Shape' /\ FreeOK' /\ Session(advisory')
  <2>1. conn[t] \in Conn /\ On[t] \in Replica
    BY <1>5, <1>8, <1>17 DEF EndTx
  <2>2. FreeOK'
    BY <1>2, <1>3, <1>10, <1>17, <2>1 DEF EndTx
  <2>3. Session(advisory')
    BY <1>1, <1>4, <1>17, <2>1 DEF EndTx, AfterReturn
  <2> HIDE DEF FreeOK
  <2> QED
    BY <1>8, <1>17, <2>1, <2>2, <2>3 DEF EndTx
<1>18. ASSUME NEW t \in Thread, CancelTx(t) PROVE Shape' /\ FreeOK' /\ Session(advisory')
  <2>1. conn[t] \in Conn /\ On[t] \in Replica
    BY <1>5, <1>8, <1>18 DEF CancelTx
  <2> QED
    BY <1>1, <1>8, <1>18, <2>1 DEF CancelTx
<1>19. ASSUME NEW t \in Thread, Unlock(t) PROVE Shape' /\ FreeOK' /\ Session(advisory')
  <2>1. PICK c \in Handout(On[t]) :
          /\ advisory' = AfterReturn(ReleasedBy(c), Rest(On[t]), c)
          /\ free' = [free EXCEPT ![On[t]] = Returned(Rest(On[t]), c)]
    BY <1>19 DEF Unlock
  <2>2. c \in Conn /\ On[t] \in Replica
    BY <1>2, <1>5
  <2>3. FreeOK'
    BY <1>2, <1>3, <1>10, <2>1, <2>2
  <2>4. Session(advisory')
    BY <1>4, <2>1, <2>2 DEF AfterReturn
  <2> HIDE DEF FreeOK
  <2> QED
    BY <1>8, <1>19, <2>2, <2>3, <2>4 DEF Unlock
<1>20. ASSUME NEW p \in Replica, Crash(p) PROVE Shape' /\ FreeOK' /\ Session(advisory')
  <2>1. FreeOK'
    BY <1>7, <1>10, <1>20 DEF Crash
  <2> HIDE DEF FreeOK
  <2> QED
    BY <1>1, <1>7, <1>8, <1>20, <2>1 DEF Crash
<1>21. ASSUME NEW t \in Thread, UnlockFails(t) PROVE Shape' /\ FreeOK' /\ Session(advisory')
  <2>1. CASE t \notin Gin
    BY <1>5, <1>20, <1>21, <2>1 DEF UnlockFails
  <2>2. CASE t \in Gin
    <3>1. FreeOK'
      BY <1>2, <1>5, <1>10, <1>21, <2>2 DEF UnlockFails
    <3> HIDE DEF FreeOK
    <3> QED
      BY <1>2, <1>4, <1>5, <1>8, <1>21, <2>2, <3>1 DEF UnlockFails
  <2> QED
    BY <2>1, <2>2
<1>22. ASSUME NEW u \in Reader, ReaderTakes(u) PROVE Shape' /\ FreeOK' /\ Session(advisory')
  <2>1. FreeOK'
    BY <1>2, <1>6, <1>10, <1>22 DEF ReaderTakes
  <2> HIDE DEF FreeOK
  <2> QED
    BY <1>1, <1>2, <1>6, <1>8, <1>22, <2>1 DEF ReaderTakes
<1>23. ASSUME NEW u \in Reader, ReaderReturns(u) PROVE Shape' /\ FreeOK' /\ Session(advisory')
  <2>1. conn[u] \in Conn /\ On[u] \in Replica
    BY <1>6, <1>8, <1>23 DEF ReaderReturns
  <2>2. FreeOK'
    BY <1>2, <1>3, <1>10, <1>23, <2>1 DEF ReaderReturns
  <2>3. Session(advisory')
    BY <1>1, <1>4, <1>23, <2>1 DEF ReaderReturns, AfterReturn
  <2> HIDE DEF FreeOK
  <2> QED
    BY <1>8, <1>23, <2>1, <2>2, <2>3, AdvisoryLockAssumption DEF ReaderReturns
<1>24. ASSUME NEW p \in Replica, NEW c \in Conn, RollBack(p, c)
       PROVE  Shape' /\ FreeOK' /\ Session(advisory')
  <2>1. FreeOK'
    BY <1>2, <1>3, <1>8, <1>10, <1>24 DEF RollBack
  <2>2. Session(advisory')
    BY <1>1, <1>4, <1>24 DEF RollBack, AfterReturn
  <2> HIDE DEF FreeOK
  <2> QED
    BY <1>8, <1>24, <2>1, <2>2 DEF RollBack
<1>25. ASSUME NEW p \in Replica, IdleBreaks(p) PROVE Shape' /\ FreeOK' /\ Session(advisory')
  <2>1. PICK i \in 1..Len(free[p]) :
          /\ free' = [free EXCEPT ![p] =
                        SubSeq(free[p], 1, i - 1) \o SubSeq(free[p], i + 1, Len(free[p]))]
          /\ advisory' = WithoutSession(advisory, free[p][i])
    BY <1>25 DEF IdleBreaks
  <2>2. free[p] \in Seq(Conn) /\ Len(free[p]) \in Nat /\ Len(free[p]) <= MaxIdle
    BY DEF TypeInv, TypeOK
  <2>3. /\ SubSeq(free[p], 1, i - 1) \o SubSeq(free[p], i + 1, Len(free[p])) \in Seq(Conn)
        /\ Len(SubSeq(free[p], 1, i - 1) \o SubSeq(free[p], i + 1, Len(free[p]))) <= MaxIdle
    BY <2>2, WithoutOne
  <2>4. FreeOK'
    BY <1>10, <2>1, <2>3 DEF Idle
  <2>5. free[p][i] \in Conn
    BY <2>2, ElementOfSeq
  <2>6. Session(advisory')
    BY <1>4, <2>1, <2>5
  <2> HIDE DEF FreeOK
  <2> QED
    BY <1>8, <1>25, <2>4, <2>6 DEF IdleBreaks
<1>26. CASE UNCHANGED vars
  BY <1>1, <1>8, <1>26 DEF vars
<1> HIDE DEF Shape, FreeOK
<1> QED
  BY <1>11, <1>12, <1>13, <1>14, <1>15, <1>16, <1>17, <1>18, <1>19, <1>20,
     <1>21, <1>22, <1>23, <1>24, <1>25, <1>26 DEF Next, Proceed, Killed

(* Every state of AdvisoryLock has the declared types, for any number of   *)
(* replicas, goroutines and connections.                                   *)
THEOREM LockTypeCorrect == Spec => []TypeOK
<1>1. Init => TypeInv
  BY EmptySeq, AdvisoryLockAssumption DEF Init, TypeInv, TypeOK, Using, Unlocked
<1>2. TypeInv => TypeOK
  BY DEF TypeInv
<1> QED
  BY <1>1, <1>2, TypeStep, PTL DEF Spec

-----------------------------------------------------------------------------
(* From lock() to unlock() a goroutine has the mutex of its process.       *)
MuxHeld ==
    /\ pc \in [Thread -> {"idle", "mutex", "waiting", "locked",
                                       "tx", "failed", "saving", "ended"}]
    /\ mux \in [Replica -> Thread \cup {None}]
    /\ \A t \in Thread :
         pc[t] \in {"waiting", "locked", "tx", "failed", "saving", "ended"} => mux[On[t]] = t

LEMMA MuxHeldStep == MuxHeld /\ [Next]_vars => MuxHeld'
<1> SUFFICES ASSUME MuxHeld, [Next]_vars PROVE MuxHeld'
  OBVIOUS
<1> USE AdvisoryLockAssumption DEF MuxHeld
<1>1. ASSUME NEW t \in Thread, Request(t) \/ LockMux(t) PROVE MuxHeld'
  BY <1>1 DEF Request, LockMux
<1>2. ASSUME NEW t \in Thread, LockDatabase(t) \/ BeginTx(t) \/ SideQuery(t)
      PROVE  MuxHeld'
  BY <1>2 DEF LockDatabase, BeginTx, SideQuery
<1>3. ASSUME NEW t \in Thread, EndTx(t) \/ CancelTx(t) PROVE MuxHeld'
  BY <1>3 DEF EndTx, CancelTx
<1>4. ASSUME NEW t \in Thread, LockFails(t) \/ Unlock(t) PROVE MuxHeld'
  BY <1>4 DEF LockFails, Unlock
<1>5. ASSUME NEW p \in Replica, Crash(p) PROVE MuxHeld'
  BY <1>5 DEF Crash
<1>6. ASSUME NEW t \in Thread, UnlockFails(t) PROVE MuxHeld'
  BY <1>5, <1>6 DEF UnlockFails
<1>7. CASE UNCHANGED <<mux, pc>>
  BY <1>7
<1> QED
  BY <1>1, <1>2, <1>3, <1>4, <1>5, <1>6, <1>7
     DEF Next, Proceed, Killed, IdleBreaks, ReaderTakes, ReaderReturns, RollBack, vars

(* Where nobody shares the lock and nobody gets it while it is taken, a    *)
(* step is one of GlobalLock or none.                                      *)
LEMMA LockStep ==
  ASSUME MuxHeld, [Next]_vars, \A t, u \in Inside : t = u,
         \A t \in Thread : LockDatabase(t) => Inside = {}
  PROVE  [Abstract!Next]_Inside
<1> USE AdvisoryLockAssumption DEF MuxHeld, Inside
<1>1. ASSUME NEW t \in Thread, LockDatabase(t) PROVE Abstract!Enter(t)
  <2>1. Inside = {}
    BY <1>1
  <2>2. pc' = [pc EXCEPT ![t] = "locked"]
    BY <1>1 DEF LockDatabase
  <2>3. Inside' = {t}
    BY <2>1, <2>2
  <2> QED
    BY <2>1, <2>3 DEF Abstract!Enter
<1>2. ASSUME NEW t \in Thread, NEW s \in {"ended", "idle", "mutex", "waiting"},
             pc' = [pc EXCEPT ![t] = s]
      PROVE  [Abstract!Next]_Inside
  <2>1. Inside' = Inside \ {t}
    BY <1>2
  <2>2. CASE t \in Inside
    BY <2>1, <2>2 DEF Abstract!Next, Abstract!Leave
  <2>3. CASE t \notin Inside
    BY <2>1, <2>3
  <2> QED
    BY <2>2, <2>3
<1>3. ASSUME NEW t \in Thread, NEW s \in {"tx", "failed", "saving"}, t \in Inside,
             pc' = [pc EXCEPT ![t] = s]
      PROVE  UNCHANGED Inside
  BY <1>3
<1>4. ASSUME NEW p \in Replica, Crash(p) PROVE [Abstract!Next]_Inside
  <2>1. Inside' = {t \in Inside : On[t] # p}
    BY <1>4 DEF Crash
  <2>2. CASE \E t \in Inside : On[t] = p
    <3>1. PICK t \in Inside : Inside = {t} /\ On[t] = p
      BY <2>2
    <3>2. Inside' = Inside \ {t}
      BY <2>1, <3>1
    <3> QED
      BY <3>1, <3>2 DEF Abstract!Next, Abstract!Leave
  <2>3. CASE ~\E t \in Inside : On[t] = p
    BY <2>1, <2>3
  <2> QED
    BY <2>2, <2>3
<1>5. ASSUME NEW t \in Thread, Request(t) \/ LockMux(t) \/ SideQuery(t) \/ Proceed(t)
      PROVE  [Abstract!Next]_Inside
  <2>1. CASE LockDatabase(t)
    BY <1>1, <2>1 DEF Abstract!Next
  <2>2. CASE BeginTx(t)
    BY <1>3, <2>2 DEF BeginTx
  <2>3. CASE SideQuery(t)
    BY <2>3 DEF SideQuery
  <2>4. CASE UnlockFails(t)
    BY <1>2, <1>4, <2>4 DEF UnlockFails
  <2>5. CASE Request(t) \/ LockMux(t) \/ LockFails(t) \/ CancelTx(t) \/ Unlock(t)
    BY <1>2, <2>5 DEF Request, LockMux, LockFails, CancelTx, Unlock
  <2>6. CASE EndTx(t)
    <3>1. CASE pc' = [pc EXCEPT ![t] = "ended"]
      BY <1>2, <3>1
    <3>2. CASE pc[t] = "tx" /\ pc' = [pc EXCEPT ![t] = "failed"]
      BY <1>3, <3>2
    <3> QED
      BY <2>6, <3>1, <3>2 DEF EndTx
  <2> QED
    BY <1>5, <2>1, <2>2, <2>3, <2>4, <2>5, <2>6 DEF Proceed
<1>6. CASE UNCHANGED pc
  BY <1>6
<1> QED
  BY <1>4, <1>5, <1>6
     DEF Next, Killed, IdleBreaks, ReaderTakes, ReaderReturns, RollBack, vars

(* One process implements GlobalLock with any number of goroutines,        *)
(* connections and failures, and whatever becomes of the advisory lock.    *)
THEOREM OneProcessExcludes ==
  ASSUME \A t, u \in Thread : On[t] = On[u]
  PROVE  Spec => ImplementsGlobalLock
<1>1. Init => MuxHeld /\ Abstract!Init
  BY DEF Init, MuxHeld, Abstract!Init, Inside
<1>2. MuxHeld /\ [Next]_vars => [Abstract!Next]_Inside
  <2> SUFFICES ASSUME MuxHeld, [Next]_vars PROVE [Abstract!Next]_Inside
    OBVIOUS
  <2>1. \A t \in Thread : pc[t] \in {"waiting", "locked", "tx", "failed", "saving"} =>
          \A u \in Inside : u = t
    BY AdvisoryLockAssumption DEF MuxHeld, Inside
  <2>2. \A t \in Thread : LockDatabase(t) => Inside = {}
    BY <2>1 DEF LockDatabase, Inside
  <2>3. \A t, u \in Inside : t = u
    BY <2>1 DEF Inside
  <2> QED
    BY <2>2, <2>3, LockStep
<1> QED
  BY <1>1, <1>2, MuxHeldStep, PTL DEF Spec, ImplementsGlobalLock, Abstract!Spec

-----------------------------------------------------------------------------
(* Many processes, as long as nothing but the goroutines that take the     *)
(* lock uses the pools, and nothing fails but whole processes.             *)
Quiet == Reader = {} /\ MaxIdle >= 2 /\ Hazards \subseteq {"crash"}

Elems(s) == {s[i] : i \in 1..Len(s)}

(* A connection is one process's. *)
Disjoint == \A p, q \in Replica : p # q => ConnsOf(p) \cap ConnsOf(q) = {}

(* From LockDatabase to Unlock the session that has the lock, once, is the *)
(* connection of the transaction, or else the one the pool will hand out   *)
(* next; and a goroutine has no connection it does not use.                *)
Top(p) == IF free[p] = <<>> THEN None ELSE free[p][Len(free[p])]

Busy == {"locked", "tx", "failed", "saving", "ended"}

SessionInv ==
    /\ \A p \in Replica : ending[p] = {}
    /\ \A p \in Replica : Len(free[p]) <= 2
    /\ \A t \in Thread : pc[t] \in {"waiting", "tx", "saving"} => Len(free[On[t]]) <= 1
    /\ \A t \in Thread : pc[t] \notin {"waiting", "tx", "saving"} => conn[t] = None
    /\ \A t \in Thread : pc[t] \in {"locked", "failed", "ended"} =>
         advisory = [session |-> Top(On[t]), depth |-> 1] /\ free[On[t]] # <<>>
    /\ \A t \in Thread : pc[t] \in {"tx", "saving"} => advisory = [session |-> conn[t], depth |-> 1]
    /\ (\A t \in Thread : pc[t] \notin Busy) => advisory = Unlocked

QuietInv == TypeInv /\ MuxHeld /\ Disjoint /\ SessionInv

(* What the pool keeps and hands out. *)
LEMMA RestElems ==
  ASSUME TypeOK, NEW p \in Replica
  PROVE  /\ Elems(Rest(p)) \subseteq Elems(free[p])
         /\ free[p] = <<>> => Rest(p) = <<>>
         /\ free[p] # <<>> => Len(Rest(p)) = Len(free[p]) - 1 /\ Handout(p) = {Top(p)}
         /\ free[p] # <<>> => Top(p) \in Elems(free[p])
         /\ Len(free[p]) \in Nat
         /\ free[p] = <<>> <=> Len(free[p]) = 0
<1>1. free[p] \in Seq(Conn) /\ Len(free[p]) \in Nat
  BY DEF TypeOK
<1>2. CASE free[p] = <<>>
  BY <1>1, <1>2, EmptySeq DEF Rest, Elems
<1>3. CASE free[p] # <<>>
  <2>1. Len(free[p]) >= 1
    BY <1>1, <1>3, EmptySeq
  <2>2. /\ Len(SubSeq(free[p], 1, Len(free[p]) - 1)) = Len(free[p]) - 1
        /\ \A i \in 1..(Len(free[p]) - 1) :
             SubSeq(free[p], 1, Len(free[p]) - 1)[i] = free[p][i]
    BY <1>1, <2>1
  <2>3. Rest(p) = SubSeq(free[p], 1, Len(free[p]) - 1)
    BY <1>3 DEF Rest
  <2>4. Elems(Rest(p)) \subseteq Elems(free[p])
    BY <2>1, <2>2, <2>3, <1>1 DEF Elems
  <2>5. Top(p) \in Elems(free[p]) /\ Handout(p) = {Top(p)}
    BY <1>1, <1>3, <2>1 DEF Top, Elems, Handout
  <2> QED
    BY <1>1, <1>3, <2>1, <2>2, <2>3, <2>4, <2>5
<1> QED
  BY <1>2, <1>3

LEMMA ReturnedElems ==
  ASSUME NEW idle \in Seq(Conn), NEW c \in Conn
  PROVE  /\ Elems(Returned(idle, c)) \subseteq Elems(idle) \cup {c}
         /\ Len(idle) < MaxIdle =>
              /\ Len(Returned(idle, c)) = Len(idle) + 1
              /\ Returned(idle, c)[Len(Returned(idle, c))] = c
<1>1. /\ Len(Append(idle, c)) = Len(idle) + 1 /\ Len(idle) \in Nat
      /\ \A i \in 1..Len(idle) : Append(idle, c)[i] = idle[i]
      /\ Append(idle, c)[Len(idle) + 1] = c
  BY AppendProperties, LenProperties
<1> QED
  BY <1>1 DEF Returned, Elems

LEMMA ConnsAre ==
  ASSUME NEW p \in Replica
  PROVE  ConnsOf(p) =
           ({conn[u] : u \in {v \in Thread \cup Reader : On[v] = p}} \ {None})
             \cup Elems(free[p]) \cup ending[p]
BY DEF ConnsOf, Elems

LEMMA HandoutNew ==
  ASSUME TypeOK, NEW p \in Replica
  PROVE  Handout(p) \subseteq ConnsOf(p) \cup (Conn \ Open)
<1>1. CASE free[p] = <<>>
  BY <1>1 DEF Handout
<1>2. CASE free[p] # <<>>
  BY <1>2, RestElems, ConnsAre
<1> QED
  BY <1>1, <1>2

(* One process takes connections from its own pool, or new ones.           *)
LEMMA DisjointStep ==
  ASSUME TypeOK, Disjoint, NEW p \in Replica,
         ConnsOf(p)' \subseteq ConnsOf(p) \cup Handout(p),
         \A q \in Replica \ {p} : ConnsOf(q)' = ConnsOf(q)
  PROVE  Disjoint'
<1>1. \A q \in Replica \ {p} : Handout(p) \cap ConnsOf(q) = {}
  BY HandoutNew DEF Disjoint, Open
<1>2. \A q \in Replica \ {p} : ConnsOf(p)' \cap ConnsOf(q)' = {}
  BY <1>1 DEF Disjoint
<1>3. \A q, r \in Replica : ConnsOf(q)' \cap ConnsOf(r)' # {} => q = r
  BY <1>2 DEF Disjoint
<1> QED
  BY <1>3 DEF Disjoint

LEMMA OneConnStep ==
  ASSUME TypeOK, Disjoint, NEW t \in Thread, NEW s, NEW x,
         free' = [free EXCEPT ![On[t]] = s],
         Elems(s) \subseteq Elems(free[On[t]]) \cup ({conn[t]} \ {None}) \cup Handout(On[t]),
         conn' = [conn EXCEPT ![t] = x],
         x \in {None, conn[t]} \cup Handout(On[t]),
         ending' = ending
  PROVE  Disjoint'
<1>1. On[t] \in Replica
  BY AdvisoryLockAssumption
<1>2. \A q \in Replica : ConnsOf(q)' =
           ({conn'[u] : u \in {v \in Thread \cup Reader : On[v] = q}} \ {None})
             \cup Elems(free'[q]) \cup ending'[q]
  BY DEF ConnsOf, Elems
<1>3. \A u \in Thread \cup Reader : conn'[u] = IF u = t THEN x ELSE conn[u]
  BY DEF TypeOK
<1>4. \A q \in Replica : free'[q] = IF q = On[t] THEN s ELSE free[q]
  BY DEF TypeOK
<1>5. \A q \in Replica \ {On[t]} : ConnsOf(q)' = ConnsOf(q)
  <2> SUFFICES ASSUME NEW q \in Replica, q # On[t] PROVE ConnsOf(q)' = ConnsOf(q)
    OBVIOUS
  <2>1. \A u \in {v \in Thread \cup Reader : On[v] = q} : conn'[u] = conn[u]
    BY <1>3
  <2>2. {conn'[u] : u \in {v \in Thread \cup Reader : On[v] = q}}
          = {conn[u] : u \in {v \in Thread \cup Reader : On[v] = q}}
    BY <2>1
  <2>3. free'[q] = free[q]
    BY <1>4
  <2> QED
    BY <1>2, <2>2, <2>3, ConnsAre
<1>6. ConnsOf(On[t])' \subseteq ConnsOf(On[t]) \cup Handout(On[t])
  BY <1>1, <1>2, <1>3, <1>4, ConnsAre
<1> QED
  BY <1>1, <1>5, <1>6, DisjointStep

(* The session that has the lock is a connection of its holder's process,  *)
(* so there is one holder.                                                 *)
LEMMA HolderSession ==
  ASSUME QuietInv, NEW u \in Thread, pc[u] \in Busy
  PROVE  advisory.session \in Conn /\ advisory.session \in ConnsOf(On[u])
<1>1. On[u] \in Replica
  BY AdvisoryLockAssumption
<1>2. CASE pc[u] \in {"tx", "saving"}
  <2>1. advisory.session = conn[u] /\ conn[u] \in Conn
    BY <1>2 DEF QuietInv, SessionInv, TypeInv, Using
  <2> QED
    BY <1>1, <2>1, ConnsAre, AdvisoryLockAssumption
<1>3. CASE pc[u] \notin {"tx", "saving"}
  <2>1. advisory.session = Top(On[u]) /\ free[On[u]] # <<>>
    BY <1>3 DEF QuietInv, SessionInv, Busy
  <2>2. Top(On[u]) \in Elems(free[On[u]])
    BY <1>1, <2>1, RestElems DEF QuietInv, TypeInv
  <2>3. free[On[u]] \in Seq(Conn)
    BY <1>1 DEF QuietInv, TypeInv, TypeOK
  <2>4. Top(On[u]) \in Conn
    BY <2>2, <2>3, ElementOfSeq DEF Elems
  <2> QED
    BY <1>1, <2>1, <2>2, <2>4, ConnsAre
<1> QED
  BY <1>2, <1>3

LEMMA OneHolder ==
  ASSUME QuietInv, NEW t \in Thread, NEW u \in Thread, pc[t] \in Busy, pc[u] \in Busy
  PROVE  t = u
<1>1. On[t] \in Replica /\ On[u] \in Replica
  BY AdvisoryLockAssumption
<1>2. On[t] = On[u]
  BY <1>1, HolderSession DEF QuietInv, Disjoint
<1> QED
  BY <1>2 DEF QuietInv, MuxHeld, Busy

(* A goroutine gets the lock only when nobody has it: the session it finds *)
(* free is not its own from before.                                        *)
LEMMA LockIsFree ==
  ASSUME QuietInv, NEW t \in Thread, LockDatabase(t)
  PROVE  advisory = Unlocked /\ \A u \in Thread : pc[u] \notin Busy
<1>1. /\ pc[t] = "waiting" /\ conn[t] \in Conn /\ On[t] \in Replica
      /\ advisory.session \in {None, conn[t]}
  BY AdvisoryLockAssumption DEF LockDatabase, QuietInv, TypeInv, Using
<1>2. conn[t] \in ConnsOf(On[t])
  BY <1>1, ConnsAre, AdvisoryLockAssumption
<1>3. ASSUME NEW u \in Thread, pc[u] \in Busy PROVE FALSE
  <2>1. On[u] # On[t] /\ On[u] \in Replica
    BY <1>1, <1>3, AdvisoryLockAssumption DEF QuietInv, MuxHeld, Busy
  <2>2. advisory.session \in Conn /\ advisory.session \in ConnsOf(On[u])
    BY <1>3, HolderSession
  <2> QED
    BY <1>1, <1>2, <2>1, <2>2, AdvisoryLockAssumption DEF QuietInv, Disjoint
<1> QED
  BY <1>3 DEF QuietInv, SessionInv

(* A goroutine with the mutex of its process is the only one there that    *)
(* uses the pool.                                                          *)
LEMMA Alone ==
  ASSUME QuietInv, NEW t \in Thread, NEW u \in Thread, u # t, On[u] = On[t],
         \/ pc[t] \in {"waiting", "locked", "tx", "failed", "saving", "ended"}
         \/ mux[On[t]] = None
  PROVE  pc[u] \notin {"waiting", "locked", "tx", "failed", "saving", "ended"}
BY AdvisoryLockAssumption DEF QuietInv, MuxHeld

(* What one goroutine does with its connection and its pool leaves the     *)
(* others' as they are.                                                    *)
LEMMA SessionFrame ==
  ASSUME QuietInv, NEW t \in Thread, NEW x, NEW s, NEW y,
         \A u \in Thread : u # t /\ On[u] = On[t] =>
           pc[u] \notin {"waiting", "locked", "tx", "failed", "saving", "ended"},
         pc' = [pc EXCEPT ![t] = x], free' = [free EXCEPT ![On[t]] = s],
         conn' = [conn EXCEPT ![t] = y], ending' = ending,
         Len(s) <= 2,
         x \in {"waiting", "tx", "saving"} => Len(s) <= 1,
         x \notin {"waiting", "tx", "saving"} => y = None,
         x \in {"locked", "failed", "ended"} =>
           s # <<>> /\ advisory' = [session |-> s[Len(s)], depth |-> 1],
         x \in {"tx", "saving"} => advisory' = [session |-> y, depth |-> 1],
         (x \notin Busy /\ \A u \in Thread \ {t} : pc[u] \notin Busy) => advisory' = Unlocked,
         \A u \in Thread \ {t} : pc[u] \in Busy => advisory' = advisory
  PROVE  SessionInv'
<1>1. On[t] \in Replica
  BY AdvisoryLockAssumption
<1>2. /\ \A u \in Thread : pc'[u] = IF u = t THEN x ELSE pc[u]
      /\ \A u \in Thread : conn'[u] = IF u = t THEN y ELSE conn[u]
      /\ \A q \in Replica : free'[q] = IF q = On[t] THEN s ELSE free[q]
  BY DEF QuietInv, TypeInv, TypeOK
<1>3. \A p \in Replica : ending'[p] = {} /\ Len(free'[p]) <= 2
  BY <1>2 DEF QuietInv, SessionInv
<1>4. ASSUME NEW u \in Thread
      PROVE  /\ pc'[u] \in {"waiting", "tx", "saving"} => Len(free'[On[u]]) <= 1
             /\ pc'[u] \notin {"waiting", "tx", "saving"} => conn'[u] = None
             /\ pc'[u] \in {"locked", "failed", "ended"} =>
                  advisory' = [session |-> Top(On[u])', depth |-> 1] /\ free'[On[u]] # <<>>
             /\ pc'[u] \in {"tx", "saving"} => advisory' = [session |-> conn'[u], depth |-> 1]
  <2>1. On[u] \in Replica
    BY AdvisoryLockAssumption
  <2>2. CASE u = t
    BY <1>1, <1>2, <2>2 DEF Top
  <2>3. CASE u # t
    BY <1>2, <2>1, <2>3 DEF QuietInv, SessionInv, Top, Busy
  <2> QED
    BY <2>2, <2>3
<1>5. (\A u \in Thread : pc'[u] \notin Busy) => advisory' = Unlocked
  BY <1>2
<1> QED
  BY <1>3, <1>4, <1>5 DEF SessionInv

LEMMA CrashQuiet ==
  ASSUME QuietInv, NEW p \in Replica, Crash(p)
  PROVE  Disjoint' /\ SessionInv'
<1> USE DEF Crash
<1>1. /\ \A u \in Thread : pc'[u] = IF On[u] = p THEN "idle" ELSE pc[u]
      /\ \A u \in Thread \cup Reader : conn'[u] = IF On[u] = p THEN None ELSE conn[u]
      /\ \A q \in Replica : free'[q] = IF q = p THEN <<>> ELSE free[q]
      /\ \A q \in Replica : ending'[q] = IF q = p THEN {} ELSE ending[q]
  BY DEF QuietInv, TypeInv, TypeOK
<1>2. \A q \in Replica : ConnsOf(q)' =
           ({conn'[u] : u \in {v \in Thread \cup Reader : On[v] = q}} \ {None})
             \cup Elems(free'[q]) \cup ending'[q]
  BY DEF ConnsOf, Elems
<1>3. ConnsOf(p)' = {}
  <2>1. Elems(free'[p]) = {}
    BY <1>1, EmptySeq DEF Elems
  <2>2. {conn'[u] : u \in {v \in Thread \cup Reader : On[v] = p}} \ {None} = {}
    BY <1>1
  <2>3. ending'[p] = {}
    BY <1>1
  <2>4. ConnsOf(p)' = {} \cup {} \cup {}
    BY <1>2, <2>1, <2>2, <2>3, Zenon
  <2> QED
    BY <2>4
<1>4. ASSUME NEW q \in Replica \ {p} PROVE ConnsOf(q)' = ConnsOf(q)
  <2>1. {conn'[u] : u \in {v \in Thread \cup Reader : On[v] = q}}
          = {conn[u] : u \in {v \in Thread \cup Reader : On[v] = q}}
    BY <1>1
  <2>2. free'[q] = free[q] /\ ending'[q] = ending[q]
    BY <1>1
  <2> QED
    BY <1>2, <2>1, <2>2, ConnsAre
<1>5. Disjoint'
  BY <1>3, <1>4, DisjointStep DEF QuietInv, TypeInv
<1>6. ASSUME NEW u \in Thread, pc[u] \in Busy, On[u] # p PROVE advisory' = advisory
  <2>1. On[u] \in Replica
    BY AdvisoryLockAssumption
  <2> QED
    BY <1>6, <2>1, HolderSession DEF QuietInv, Disjoint
<1>7. (\A u \in Thread : pc'[u] \notin Busy) => advisory' = Unlocked
  <2>1. CASE \E u \in Thread : pc[u] \in Busy /\ On[u] = p
    BY <2>1, HolderSession
  <2>2. CASE ~\E u \in Thread : pc[u] \in Busy /\ On[u] = p
    BY <1>1, <2>2 DEF QuietInv, SessionInv
  <2> QED
    BY <2>1, <2>2
<1>8. \A q \in Replica : ending'[q] = {} /\ Len(free'[q]) <= 2
  BY <1>1, EmptySeq DEF QuietInv, SessionInv
<1>9. ASSUME NEW u \in Thread
      PROVE  /\ pc'[u] \in {"waiting", "tx", "saving"} => Len(free'[On[u]]) <= 1
             /\ pc'[u] \notin {"waiting", "tx", "saving"} => conn'[u] = None
             /\ pc'[u] \in {"locked", "failed", "ended"} =>
                  advisory' = [session |-> Top(On[u])', depth |-> 1] /\ free'[On[u]] # <<>>
             /\ pc'[u] \in {"tx", "saving"} => advisory' = [session |-> conn'[u], depth |-> 1]
  <2>1. On[u] \in Replica
    BY AdvisoryLockAssumption
  <2>2. CASE On[u] = p
    BY <1>1, <2>2
  <2>3. CASE On[u] # p
    BY <1>1, <1>6, <2>1, <2>3 DEF QuietInv, SessionInv, Top, Busy
  <2> QED
    BY <2>2, <2>3
<1>10. SessionInv'
  BY <1>7, <1>8, <1>9 DEF SessionInv
<1> QED
  BY <1>5, <1>10

LEMMA SessionStep ==
  ASSUME Quiet, QuietInv, [Next]_vars
  PROVE  Disjoint' /\ SessionInv'
<1> DEFINE Goal == Disjoint' /\ SessionInv'
<1>1. /\ \A t \in Thread : On[t] \in Replica
      /\ \A p \in Replica : free[p] \in Seq(Conn) /\ Len(free[p]) \in Nat
      /\ \A t \in Thread : pc[t] \in {"waiting", "tx", "saving"} => conn[t] \in Conn /\ Len(free[On[t]]) <= 1
      /\ MaxIdle \in Nat /\ MaxIdle >= 2
  BY AdvisoryLockAssumption DEF Quiet, QuietInv, TypeInv, TypeOK, Using, SessionInv
<1>2. ASSUME NEW t \in Thread, Request(t) PROVE Goal
  <2>1. /\ pc'[t] = "mutex" /\ pc[t] = "idle" /\ UNCHANGED <<conn, free, ending, advisory>>
        /\ \A u \in Thread \ {t} : pc'[u] = pc[u]
    BY <1>2 DEF Request, QuietInv, TypeInv, TypeOK
  <2>2. Disjoint'
    <3>1. \A p \in Replica : ConnsOf(p)' = ConnsOf(p)
      BY <2>1 DEF ConnsOf
    <3> QED
      BY <3>1 DEF QuietInv, Disjoint
  <2>3. SessionInv'
    BY <2>1 DEF QuietInv, SessionInv, Top, Busy
  <2> QED
    BY <2>2, <2>3
<1>3. ASSUME NEW t \in Thread, LockMux(t) PROVE Goal
  <2>1. PICK c \in Handout(On[t]) : conn' = [conn EXCEPT ![t] = c]
    BY <1>3 DEF LockMux
  <2>2. /\ pc' = [pc EXCEPT ![t] = "waiting"] /\ free' = [free EXCEPT ![On[t]] = Rest(On[t])]
        /\ pc[t] = "mutex" /\ mux[On[t]] = None /\ UNCHANGED <<ending, advisory>>
    BY <1>3 DEF LockMux
  <2>3. /\ Elems(Rest(On[t])) \subseteq Elems(free[On[t]])
        /\ Len(Rest(On[t])) <= 1
    BY <1>1, RestElems, EmptySeq DEF QuietInv, TypeInv, SessionInv
  <2>4. Disjoint'
    BY <2>1, <2>2, <2>3, OneConnStep DEF QuietInv, TypeInv
  <2>5. (\A u \in Thread \ {t} : pc[u] \notin Busy) => advisory' = Unlocked
    BY <2>2 DEF QuietInv, SessionInv, Busy
  <2>6. \A u \in Thread : u # t /\ On[u] = On[t] =>
          pc[u] \notin {"waiting", "locked", "tx", "failed", "saving", "ended"}
    BY <2>2, Alone
  <2>7. Len(Rest(On[t])) <= 2
    BY <1>1, <2>3, RestElems, EmptySeq DEF QuietInv, TypeInv, SessionInv
  <2>8. SessionInv'
    BY <2>1, <2>2, <2>3, <2>5, <2>6, <2>7, SessionFrame
  <2> QED
    BY <2>4, <2>8
<1>4. ASSUME NEW t \in Thread, LockDatabase(t) PROVE Goal
  <2> DEFINE s == Returned(free[On[t]], conn[t])
  <2>1. /\ pc' = [pc EXCEPT ![t] = "locked"] /\ free' = [free EXCEPT ![On[t]] = s]
        /\ conn' = [conn EXCEPT ![t] = None] /\ ending' = ending
        /\ pc[t] = "waiting"
        /\ advisory' = AfterReturn(Acquired(conn[t]), free[On[t]], conn[t])
    BY <1>4 DEF LockDatabase
  <2>2. /\ conn[t] \in Conn /\ Len(free[On[t]]) \in Nat /\ Len(free[On[t]]) <= 1
        /\ free[On[t]] \in Seq(Conn)
    BY <1>1, <2>1
  <2>3. /\ Elems(s) \subseteq Elems(free[On[t]]) \cup {conn[t]}
        /\ Len(s) = Len(free[On[t]]) + 1 /\ s[Len(s)] = conn[t]
    BY <1>1, <2>2, ReturnedElems
  <2>4. advisory = Unlocked /\ \A u \in Thread : pc[u] \notin Busy
    BY <1>4, LockIsFree
  <2>5. advisory' = [session |-> conn[t], depth |-> 1]
    BY <1>1, <2>1, <2>2, <2>4 DEF AfterReturn, Acquired, Unlocked
  <2>6. Len(s) <= 2 /\ s # <<>>
    BY <2>2, <2>3, EmptySeq
  <2>7. \A u \in Thread : u # t /\ On[u] = On[t] =>
          pc[u] \notin {"waiting", "locked", "tx", "failed", "saving", "ended"}
    BY <2>1, Alone
  <2> HIDE DEF s
  <2>8. Disjoint'
    <3>1. conn[t] # None
      BY <2>2, AdvisoryLockAssumption
    <3> QED
      BY <2>1, <2>3, <3>1, OneConnStep DEF QuietInv, TypeInv
  <2>9. advisory' = [session |-> s[Len(s)], depth |-> 1]
    BY <2>3, <2>5
  <2>10. SessionInv'
    BY <2>1, <2>4, <2>6, <2>7, <2>9, SessionFrame DEF Busy
  <2> QED
    BY <2>8, <2>10
<1>5. ASSUME NEW t \in Thread, BeginTx(t) PROVE Goal
  <2>1. PICK c \in Handout(On[t]) : conn' = [conn EXCEPT ![t] = c]
    BY <1>5 DEF BeginTx
  <2>2. PICK x \in {"tx", "saving"} :
          /\ pc' = [pc EXCEPT ![t] = x] /\ free' = [free EXCEPT ![On[t]] = Rest(On[t])]
          /\ pc[t] \in {"locked", "failed"} /\ UNCHANGED <<ending, advisory>>
    BY <1>5 DEF BeginTx, QuietInv, TypeInv, TypeOK
  <2>3. advisory = [session |-> Top(On[t]), depth |-> 1] /\ free[On[t]] # <<>>
    BY <2>2 DEF QuietInv, SessionInv
  <2>4. /\ Elems(Rest(On[t])) \subseteq Elems(free[On[t]])
        /\ Len(Rest(On[t])) = Len(free[On[t]]) - 1 /\ c = Top(On[t])
    BY <1>1, <2>1, <2>3, RestElems DEF QuietInv, TypeInv
  <2>5. Len(Rest(On[t])) <= 1 /\ Len(Rest(On[t])) <= 2
    BY <1>1, <2>4 DEF QuietInv, SessionInv
  <2>6. \A u \in Thread : u # t /\ On[u] = On[t] =>
          pc[u] \notin {"waiting", "locked", "tx", "failed", "saving", "ended"}
    BY <2>2, Alone
  <2>7. Disjoint'
    BY <2>1, <2>2, <2>4, OneConnStep DEF QuietInv, TypeInv
  <2>8. advisory' = advisory /\ advisory = [session |-> c, depth |-> 1]
    BY <2>2, <2>3, <2>4
  <2>9. SessionInv'
    <3>1. CASE x = "tx"
      BY <2>1, <2>2, <2>5, <2>6, <2>8, <3>1, SessionFrame DEF Busy
    <3>2. CASE x = "saving"
      BY <2>1, <2>2, <2>5, <2>6, <2>8, <3>2, SessionFrame DEF Busy
    <3> QED
      BY <2>2, <3>1, <3>2
  <2> QED
    BY <2>7, <2>9
<1>6. ASSUME NEW t \in Thread, SideQuery(t) PROVE Goal
  <2>1. PICK c \in Handout(On[t]) : free' = [free EXCEPT ![On[t]] = Returned(Rest(On[t]), c)]
    BY <1>6 DEF SideQuery
  <2> DEFINE s == Returned(Rest(On[t]), c)
  <2>2. pc[t] = "tx" /\ UNCHANGED <<pc, conn, ending, advisory>>
    BY <1>6 DEF SideQuery
  <2>3. /\ Elems(Rest(On[t])) \subseteq Elems(free[On[t]]) /\ Rest(On[t]) \in Seq(Conn)
        /\ Len(Rest(On[t])) = 0 /\ c \in Conn
    BY <1>1, <2>2, RestElems, HandoutType, EmptySeq DEF QuietInv, TypeInv
  <2>4. /\ Elems(s) \subseteq Elems(Rest(On[t])) \cup {c}
        /\ Len(Rest(On[t])) < MaxIdle => Len(s) = Len(Rest(On[t])) + 1
    BY <2>3, ReturnedElems
  <2>5. free' = [free EXCEPT ![On[t]] = s]
    BY <2>1
  <2> HIDE DEF s
  <2>6. Elems(s) \subseteq Elems(free[On[t]]) \cup {c} /\ Len(s) <= 1 /\ Len(s) <= 2
    <3>1. MaxIdle \in Nat /\ MaxIdle >= 2
      BY <1>1
    <3>2. Len(s) = 1
      BY <2>3, <2>4, <3>1
    <3>3. Elems(s) \subseteq Elems(free[On[t]]) \cup {c}
      BY <2>3, <2>4, Zenon
    <3> QED
      BY <3>2, <3>3
  <2>7. advisory = [session |-> conn[t], depth |-> 1]
    BY <2>2 DEF QuietInv, SessionInv
  <2>8. \A u \in Thread : u # t /\ On[u] = On[t] =>
          pc[u] \notin {"waiting", "locked", "tx", "failed", "saving", "ended"}
    BY <2>2, Alone
  <2>9. pc' = [pc EXCEPT ![t] = "tx"] /\ conn' = [conn EXCEPT ![t] = conn[t]]
    BY <2>2 DEF QuietInv, TypeInv, TypeOK
  <2>10. Disjoint'
    BY <2>2, <2>5, <2>9, <2>6, OneConnStep DEF QuietInv, TypeInv
  <2>11. SessionInv'
    BY <2>2, <2>5, <2>7, <2>8, <2>9, <2>6, SessionFrame DEF Busy
  <2> QED
    BY <2>10, <2>11
<1>7. ASSUME NEW t \in Thread, EndTx(t) PROVE Goal
  <2> DEFINE s == Returned(free[On[t]], conn[t])
  <2>1. PICK x \in {"failed", "ended"} :
          /\ pc' = [pc EXCEPT ![t] = x] /\ free' = [free EXCEPT ![On[t]] = s]
          /\ conn' = [conn EXCEPT ![t] = None] /\ ending' = ending
          /\ pc[t] \in {"tx", "saving"}
          /\ advisory' = AfterReturn(advisory, free[On[t]], conn[t])
    BY <1>7 DEF EndTx
  <2>2. /\ conn[t] \in Conn /\ Len(free[On[t]]) \in Nat /\ Len(free[On[t]]) <= 1
        /\ free[On[t]] \in Seq(Conn)
    BY <1>1, <2>1
  <2>3. /\ Elems(s) \subseteq Elems(free[On[t]]) \cup {conn[t]}
        /\ Len(s) = Len(free[On[t]]) + 1 /\ s[Len(s)] = conn[t]
    BY <1>1, <2>2, ReturnedElems
  <2>4. advisory = [session |-> conn[t], depth |-> 1]
    BY <2>1 DEF QuietInv, SessionInv
  <2>5. advisory' = advisory
    BY <1>1, <2>1, <2>2 DEF AfterReturn
  <2>6. Len(s) <= 2 /\ s # <<>>
    BY <2>2, <2>3, EmptySeq
  <2>7. \A u \in Thread : u # t /\ On[u] = On[t] =>
          pc[u] \notin {"waiting", "locked", "tx", "failed", "saving", "ended"}
    BY <2>1, Alone
  <2> HIDE DEF s
  <2>8. Disjoint'
    <3>1. conn[t] # None
      BY <2>2, AdvisoryLockAssumption
    <3> QED
      BY <2>1, <2>3, <3>1, OneConnStep DEF QuietInv, TypeInv
  <2>9. advisory' = [session |-> s[Len(s)], depth |-> 1]
    BY <2>3, <2>4, <2>5
  <2>10. SessionInv'
    <3>1. CASE x = "failed"
      BY <2>1, <2>5, <2>6, <2>7, <2>9, <3>1, SessionFrame DEF Busy
    <3>2. CASE x = "ended"
      BY <2>1, <2>5, <2>6, <2>7, <2>9, <3>2, SessionFrame DEF Busy
    <3> QED
      BY <2>1, <3>1, <3>2
  <2> QED
    BY <2>8, <2>10
<1>8. ASSUME NEW t \in Thread, Unlock(t) PROVE Goal
  <2>1. PICK c \in Handout(On[t]) :
          /\ advisory' = AfterReturn(ReleasedBy(c), Rest(On[t]), c)
          /\ free' = [free EXCEPT ![On[t]] = Returned(Rest(On[t]), c)]
    BY <1>8 DEF Unlock
  <2> DEFINE s == Returned(Rest(On[t]), c)
  <2>2. pc[t] = "ended" /\ pc' = [pc EXCEPT ![t] = "idle"] /\ UNCHANGED <<conn, ending>>
    BY <1>8 DEF Unlock
  <2>3. advisory = [session |-> Top(On[t]), depth |-> 1] /\ free[On[t]] # <<>>
    BY <2>2 DEF QuietInv, SessionInv
  <2>4. /\ Elems(Rest(On[t])) \subseteq Elems(free[On[t]]) /\ Rest(On[t]) \in Seq(Conn)
        /\ Len(Rest(On[t])) = Len(free[On[t]]) - 1 /\ c = Top(On[t]) /\ c \in Conn
    BY <1>1, <2>1, <2>3, RestElems, HandoutType DEF QuietInv, TypeInv
  <2>5. Len(Rest(On[t])) \in Nat /\ Len(Rest(On[t])) <= 1
    BY <1>1, <2>4, LenProperties DEF QuietInv, SessionInv
  <2>6. Elems(s) \subseteq Elems(free[On[t]]) \cup {c} /\ Len(s) <= 2
    BY <1>1, <2>4, <2>5, ReturnedElems
  <2>7. advisory' = Unlocked
    <3>1. ReleasedBy(c) = Unlocked
      BY <2>3, <2>4 DEF ReleasedBy
    <3> QED
      BY <1>1, <2>1, <2>5, <3>1 DEF AfterReturn
  <2>8. conn' = [conn EXCEPT ![t] = None]
    BY <2>2 DEF QuietInv, SessionInv, TypeInv, TypeOK
  <2>9. \A u \in Thread \ {t} : pc[u] \notin Busy
    BY <2>2, OneHolder DEF Busy
  <2>10. \A u \in Thread : u # t /\ On[u] = On[t] =>
           pc[u] \notin {"waiting", "locked", "tx", "failed", "saving", "ended"}
    BY <2>2, Alone
  <2>11. free' = [free EXCEPT ![On[t]] = s]
    BY <2>1
  <2> HIDE DEF s
  <2>12. Disjoint'
    BY <2>11, <2>2, <2>6, <2>8, OneConnStep DEF QuietInv, TypeInv
  <2>13. SessionInv'
    BY <2>11, <2>2, <2>6, <2>7, <2>8, <2>9, <2>10, SessionFrame DEF Busy
  <2> QED
    BY <2>12, <2>13
<1>9. ASSUME NEW p \in Replica, Crash(p) PROVE Goal
  BY <1>9, CrashQuiet
<1>10. ASSUME NEW p \in Replica, NEW c \in Conn, RollBack(p, c) PROVE FALSE
  BY <1>10 DEF RollBack, QuietInv, SessionInv
<1>11. ASSUME NEW t \in Thread, LockFails(t) \/ CancelTx(t) \/ UnlockFails(t) PROVE FALSE
  BY <1>11 DEF Quiet, LockFails, CancelTx, UnlockFails
<1>12. Reader = {}
  BY DEF Quiet
<1>13. CASE UNCHANGED vars
  <2>1. UNCHANGED <<mux, pc, conn, free, ending, advisory>>
    BY <1>13 DEF vars
  <2>2. Disjoint'
    BY <2>1 DEF QuietInv, Disjoint, ConnsOf
  <2>3. SessionInv'
    BY <2>1 DEF QuietInv, SessionInv, Top
  <2> QED
    BY <2>2, <2>3
<1> HIDE DEF Goal
<1>14. ASSUME NEW t \in Thread, Request(t) \/ LockMux(t) \/ SideQuery(t) \/ Proceed(t)
       PROVE  Goal
  BY <1>2, <1>3, <1>4, <1>5, <1>6, <1>7, <1>8, <1>11, <1>14 DEF Proceed
<1>15. ASSUME NEW p \in Replica, Killed(p) \/ IdleBreaks(p) \/ \E c \in Conn : RollBack(p, c)
       PROVE  Goal
  BY <1>9, <1>10, <1>15 DEF Killed, IdleBreaks, Quiet
<1>16. ASSUME Next PROVE Goal
  BY <1>12, <1>14, <1>15, <1>16 DEF Next
<1> QED
  BY <1>13, <1>16 DEF Goal

LEMMA QuietStep ==
  ASSUME Quiet
  PROVE  /\ Init => QuietInv
         /\ QuietInv /\ [Next]_vars => QuietInv'
<1>1. ASSUME Init PROVE QuietInv
  <2>1. TypeInv /\ MuxHeld
    BY <1>1, EmptySeq, AdvisoryLockAssumption
       DEF Init, TypeInv, TypeOK, Using, Unlocked, MuxHeld
  <2>2. \A p \in Replica : ConnsOf(p) = {}
    <3> SUFFICES ASSUME NEW p \in Replica PROVE ConnsOf(p) = {}
      OBVIOUS
    <3>1. Elems(free[p]) = {} /\ ending[p] = {}
      BY <1>1, EmptySeq DEF Init, Elems
    <3>2. {conn[u] : u \in {v \in Thread \cup Reader : On[v] = p}} \subseteq {None}
      BY <1>1 DEF Init
    <3> QED
      BY <3>1, <3>2, ConnsAre
  <2>3. SessionInv
    BY <1>1, EmptySeq DEF Init, SessionInv, Busy
  <2> QED
    BY <2>1, <2>2, <2>3 DEF QuietInv, Disjoint
<1>2. ASSUME QuietInv, [Next]_vars PROVE QuietInv'
  BY <1>2, TypeStep, MuxHeldStep, SessionStep DEF QuietInv
<1> QED
  BY <1>1, <1>2

(* unlock() releases what lock() has acquired although both run on some    *)
(* connection of the pool, in any number of processes, goroutines and      *)
(* connections, as long as nothing else uses the pools.                    *)
THEOREM QuietLockIsReleased ==
  ASSUME Quiet
  PROVE  Spec => []NothingLeaked
<1>1. QuietInv => NothingLeaked
  BY DEF QuietInv, SessionInv, NothingLeaked, Busy
<1> QED
  BY <1>1, QuietStep, PTL DEF Spec

(* Then the goroutines of all processes exclude each other. *)
THEOREM QuietLockExcludes ==
  ASSUME Quiet
  PROVE  Spec => ImplementsGlobalLock
<1>1. Init => Abstract!Init
  BY DEF Init, Abstract!Init, Inside
<1>2. QuietInv /\ [Next]_vars => [Abstract!Next]_Inside
  <2> SUFFICES ASSUME QuietInv, [Next]_vars PROVE [Abstract!Next]_Inside
    OBVIOUS
  <2>1. MuxHeld
    BY DEF QuietInv
  <2>2. \A t, u \in Inside : t = u
    BY OneHolder DEF Inside, Busy
  <2>3. \A t \in Thread : LockDatabase(t) => Inside = {}
    BY LockIsFree DEF Inside, Busy
  <2> QED
    BY <2>1, <2>2, <2>3, LockStep
<1> QED
  BY <1>1, <1>2, QuietStep, PTL DEF Spec, ImplementsGlobalLock, Abstract!Spec
=============================================================================
