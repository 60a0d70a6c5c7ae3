---------------------------- MODULE AdvisoryLock ----------------------------
(***************************************************************************)
(* How lock() and unlock() of pkg/controller/impl.go come about: a mutex   *)
(* in every process and one advisory lock of PostgreSQL for all of them.   *)
(* The advisory lock belongs to a session, that is, to a connection, and   *)
(* it counts; Lock and Unlock of pkg/database/impl.go run on whatever      *)
(* connection the pool of database/sql hands out.  The pool gives the      *)
(* connection that was returned last and keeps at most MaxIdle idle ones   *)
(* (2, its default); closing a connection frees what its session holds.    *)
(***************************************************************************)
EXTENDS Naturals, Sequences, FiniteSets

CONSTANTS
    Replica,       \* processes of the service
    Thread,        \* their goroutines that take the lock
    Reader,        \* their requests that use the pool without the lock
    On,            \* [Thread \cup Reader -> Replica]
    Conn,          \* connections: bound on those open at one time
    MaxIdle,       \* of database/sql: 2
    MaxDepth,      \* bound: deeper than this, nobody asks for the lock
    Gin,           \* the threads that gin recovers from a panic (DeleteRule)
    None,
    Hazards        \* subset of {"cancel", "database", "crash"}: what may happen

VARIABLES
    mux,       \* [Replica -> Thread \cup {None}]: who has locked impl.mux
    pc,        \* where in lock() ... unlock() a thread is
    conn,      \* the connection a thread or reader is using
    free,      \* [Replica -> Seq(Conn)]: the idle connections of the pool
    ending,    \* connections of cancelled transactions, not yet rolled back
    advisory   \* the session that has the advisory lock, and how many times

vars == <<mux, pc, conn, free, ending, advisory>>

ASSUME AdvisoryLockAssumption ==
    /\ On \in [Thread \cup Reader -> Replica]
    /\ Thread \cap Reader = {}
    /\ MaxIdle \in Nat
    /\ MaxDepth \in Nat
    /\ Gin \subseteq Thread
    /\ Hazards \subseteq {"cancel", "database", "crash"}
    /\ None \notin Thread \cup Conn

Unlocked == [session |-> None, depth |-> 0]

Init ==
    /\ mux = [p \in Replica |-> None]
    /\ pc = [t \in Thread |-> "idle"]
    /\ conn = [u \in Thread \cup Reader |-> None]
    /\ free = [p \in Replica |-> <<>>]
    /\ ending = [p \in Replica |-> {}]
    /\ advisory = Unlocked

-----------------------------------------------------------------------------
(* The pool. *)
ConnsOf(p) ==
    ({conn[u] : u \in {v \in Thread \cup Reader : On[v] = p}} \ {None})
      \cup {free[p][i] : i \in 1..Len(free[p])} \cup ending[p]

Open == UNION {ConnsOf(p) : p \in Replica}

(* What is handed out, and what is left. *)
Handout(p) ==
    IF free[p] # <<>> THEN {free[p][Len(free[p])]} ELSE Conn \ Open

Rest(p) ==
    IF free[p] # <<>> THEN SubSeq(free[p], 1, Len(free[p]) - 1) ELSE <<>>

(* Mutant: SetMaxIdleConns(MaxIdle + 1). *)
ReturnedToLargerPool(idle, c) ==
    IF Len(idle) <= MaxIdle THEN Append(idle, c) ELSE idle

Returned(idle, c) == IF Len(idle) < MaxIdle THEN Append(idle, c) ELSE idle

(* A session ends with its connection. *)
WithoutSession(adv, c) == IF adv.session = c THEN Unlocked ELSE adv

AfterReturn(adv, idle, c) ==
    IF Len(idle) < MaxIdle THEN adv ELSE WithoutSession(adv, c)

(* pg_advisory_lock and pg_advisory_unlock; the latter answers false if    *)
(* the session does not have the lock, which Unlock does not look at.      *)
Acquired(c) == [session |-> c, depth |-> advisory.depth + 1]

(* Mutant: pg_advisory_unlock is forgotten. *)
KeptBy(c) == advisory

ReleasedBy(c) ==
    IF advisory.session # c THEN advisory
    ELSE IF advisory.depth = 1 THEN Unlocked
    ELSE [advisory EXCEPT !.depth = @ - 1]

-----------------------------------------------------------------------------
Request(t) ==
    /\ pc[t] = "idle"
    /\ advisory.depth <= MaxDepth
    /\ pc' = [pc EXCEPT ![t] = "mutex"]
    /\ UNCHANGED <<mux, conn, free, ending, advisory>>

(* Mutant: there is no impl.mux. *)
LockDatabaseOnly(t) ==
    /\ pc[t] = "mutex"
    /\ \E c \in Handout(On[t]) : conn' = [conn EXCEPT ![t] = c]
    /\ free' = [free EXCEPT ![On[t]] = Rest(On[t])]
    /\ pc' = [pc EXCEPT ![t] = "waiting"]
    /\ UNCHANGED <<mux, ending, advisory>>

(* mux.Lock(), then Exec takes a connection for pg_advisory_lock. *)
LockMux(t) ==
    /\ pc[t] = "mutex"
    /\ mux[On[t]] = None
    /\ mux' = [mux EXCEPT ![On[t]] = t]
    /\ \E c \in Handout(On[t]) : conn' = [conn EXCEPT ![t] = c]
    /\ free' = [free EXCEPT ![On[t]] = Rest(On[t])]
    /\ pc' = [pc EXCEPT ![t] = "waiting"]
    /\ UNCHANGED <<ending, advisory>>

(* Mutant: pg_try_advisory_lock, whose answer nobody looks at. *)
TryLock(t) ==
    /\ pc[t] = "waiting"
    /\ LET p == On[t]
       IN  /\ free' = [free EXCEPT ![p] = Returned(free[p], conn[t])]
           /\ advisory' = IF advisory.session \in {None, conn[t]}
                          THEN Acquired(conn[t]) ELSE advisory
    /\ conn' = [conn EXCEPT ![t] = None]
    /\ pc' = [pc EXCEPT ![t] = "locked"]
    /\ UNCHANGED <<mux, ending>>

(* The statement returns, the connection goes back to the pool. *)
LockDatabase(t) ==
    /\ pc[t] = "waiting"
    /\ advisory.session \in {None, conn[t]}
    /\ LET p == On[t]
       IN  /\ free' = [free EXCEPT ![p] = Returned(free[p], conn[t])]
           /\ advisory' = AfterReturn(Acquired(conn[t]), free[p], conn[t])
    /\ conn' = [conn EXCEPT ![t] = None]
    /\ pc' = [pc EXCEPT ![t] = "locked"]
    /\ UNCHANGED <<mux, ending>>

(* The connection breaks: lock() gives the mutex back, and its caller up.  *)
LockFails(t) ==
    /\ "database" \in Hazards
    /\ pc[t] = "waiting"
    /\ advisory' = WithoutSession(advisory, conn[t])
    /\ conn' = [conn EXCEPT ![t] = None]
    /\ mux' = [mux EXCEPT ![On[t]] = None]
    /\ pc' = [pc EXCEPT ![t] = "idle"]
    /\ UNCHANGED <<free, ending>>

(* GetTx(), for the work and, after it failed in runRule, for saveRule. *)
BeginTx(t) ==
    /\ pc[t] \in {"locked", "failed"}
    /\ \E c \in Handout(On[t]) : conn' = [conn EXCEPT ![t] = c]
    /\ free' = [free EXCEPT ![On[t]] = Rest(On[t])]
    /\ pc' = [pc EXCEPT ![t] = IF @ = "locked" THEN "tx" ELSE "saving"]
    /\ UNCHANGED <<mux, ending, advisory>>

(* GetColumns, FindDeviceTables, ListRules: a query beside the transaction.*)
SideQuery(t) ==
    /\ pc[t] = "tx"
    /\ \E c \in Handout(On[t]) :
         free' = [free EXCEPT ![On[t]] = Returned(Rest(On[t]), c)]
    /\ UNCHANGED <<mux, pc, conn, ending, advisory>>

(* Commit or Rollback gives the connection back before it returns; a run   *)
(* that was rolled back has its errors still to save.                      *)
EndTx(t) ==
    /\ pc[t] \in {"tx", "saving"}
    /\ LET p == On[t]
       IN  /\ free' = [free EXCEPT ![p] = Returned(free[p], conn[t])]
           /\ advisory' = AfterReturn(advisory, free[p], conn[t])
    /\ conn' = [conn EXCEPT ![t] = None]
    /\ \/ pc' = [pc EXCEPT ![t] = "ended"]
       \/ pc[t] = "tx" /\ pc' = [pc EXCEPT ![t] = "failed"]
    /\ UNCHANGED <<mux, ending>>

(* An early return: only cancel() is called, and the rollback is left to   *)
(* goroutines of database/sql and lib/pq ...                               *)
CancelTx(t) ==
    /\ "cancel" \in Hazards
    /\ pc[t] \in {"tx", "saving"}
    /\ ending' = [ending EXCEPT ![On[t]] = @ \cup {conn[t]}]
    /\ conn' = [conn EXCEPT ![t] = None]
    /\ pc' = [pc EXCEPT ![t] = "ended"]
    /\ UNCHANGED <<mux, free, advisory>>

(* ... which race to give the connection back or to close it. *)
RollBack(p, c) ==
    /\ c \in ending[p]
    /\ ending' = [ending EXCEPT ![p] = @ \ {c}]
    /\ \/ /\ free' = [free EXCEPT ![p] = Returned(free[p], c)]
          /\ advisory' = AfterReturn(advisory, free[p], c)
       \/ /\ advisory' = WithoutSession(advisory, c)
          /\ UNCHANGED free
    /\ UNCHANGED <<mux, pc, conn>>

(* Mutant: mux.Unlock() is forgotten. *)
UnlockDatabaseOnly(t) ==
    /\ pc[t] = "ended"
    /\ \E c \in Handout(On[t]) :
         /\ advisory' = AfterReturn(ReleasedBy(c), Rest(On[t]), c)
         /\ free' = [free EXCEPT ![On[t]] = Returned(Rest(On[t]), c)]
    /\ pc' = [pc EXCEPT ![t] = "idle"]
    /\ UNCHANGED <<mux, conn, ending>>

(* pg_advisory_unlock on some connection, then mux.Unlock(). *)
Unlock(t) ==
    /\ pc[t] = "ended"
    /\ \E c \in Handout(On[t]) :
         /\ advisory' = AfterReturn(ReleasedBy(c), Rest(On[t]), c)
         /\ free' = [free EXCEPT ![On[t]] = Returned(Rest(On[t]), c)]
    /\ mux' = [mux EXCEPT ![On[t]] = None]
    /\ pc' = [pc EXCEPT ![t] = "idle"]
    /\ UNCHANGED <<conn, ending>>

-----------------------------------------------------------------------------
(* An idle connection breaks: database/sql drops it (driver.ErrBadConn)    *)
(* and retries the statement on another, or on a new one.                  *)
IdleBreaks(p) ==
    /\ "database" \in Hazards
    /\ \E i \in 1..Len(free[p]) :
         /\ free' = [free EXCEPT ![p] = SubSeq(@, 1, i - 1) \o SubSeq(@, i + 1, Len(@))]
         /\ advisory' = WithoutSession(advisory, free[p][i])
    /\ UNCHANGED <<mux, pc, conn, ending>>

(* A process ends, and all its connections with it. *)
Crash(p) ==
    /\ mux' = [mux EXCEPT ![p] = None]
    /\ pc' = [t \in Thread |-> IF On[t] = p THEN "idle" ELSE pc[t]]
    /\ conn' = [u \in Thread \cup Reader |-> IF On[u] = p THEN None ELSE conn[u]]
    /\ free' = [free EXCEPT ![p] = <<>>]
    /\ ending' = [ending EXCEPT ![p] = {}]
    /\ advisory' = IF advisory.session \in ConnsOf(p) THEN Unlocked ELSE advisory

Killed(p) == "crash" \in Hazards /\ Crash(p)

(* unlock() panics because Unlock returned an error (the connection is     *)
(* broken): that ends the process unless gin recovers the request.         *)
UnlockFails(t) ==
    /\ "database" \in Hazards
    /\ pc[t] = "ended"
    /\ IF t \in Gin
       THEN /\ \E c \in Handout(On[t]) : advisory' = WithoutSession(advisory, c)
            /\ free' = [free EXCEPT ![On[t]] = Rest(On[t])]
            /\ pc' = [pc EXCEPT ![t] = "idle"]
            /\ UNCHANGED <<mux, conn, ending>>
       ELSE Crash(On[t])

-----------------------------------------------------------------------------
(* Requests that take no lock: CreateRule, UpdateRule, GetRule, ListRules. *)
ReaderTakes(u) ==
    /\ conn[u] = None
    /\ \E c \in Handout(On[u]) : conn' = [conn EXCEPT ![u] = c]
    /\ free' = [free EXCEPT ![On[u]] = Rest(On[u])]
    /\ UNCHANGED <<mux, pc, ending, advisory>>

ReaderReturns(u) ==
    /\ conn[u] # None
    /\ LET p == On[u]
       IN  /\ free' = [free EXCEPT ![p] = Returned(free[p], conn[u])]
           /\ advisory' = AfterReturn(advisory, free[p], conn[u])
    /\ conn' = [conn EXCEPT ![u] = None]
    /\ UNCHANGED <<mux, pc, ending>>

-----------------------------------------------------------------------------
Proceed(t) ==
    \/ LockDatabase(t) \/ LockFails(t) \/ BeginTx(t) \/ EndTx(t) \/ CancelTx(t)
    \/ Unlock(t) \/ UnlockFails(t)

Next ==
    \/ \E t \in Thread : Request(t) \/ LockMux(t) \/ SideQuery(t) \/ Proceed(t)
    \/ \E u \in Reader : ReaderTakes(u) \/ ReaderReturns(u)
    \/ \E p \in Replica : Killed(p) \/ IdleBreaks(p) \/ \E c \in Conn : RollBack(p, c)

Spec == Init /\ [][Next]_vars

(* A mutex and PostgreSQL's lock queue starve nobody; statements, requests *)
(* and rollbacks end.                                                      *)
Fairness ==
    /\ \A t \in Thread : SF_vars(LockMux(t)) /\ SF_vars(Proceed(t))
    /\ \A u \in Reader : WF_vars(ReaderReturns(u))
    /\ \A p \in Replica, c \in Conn : WF_vars(RollBack(p, c))

FairSpec == Spec /\ Fairness

-----------------------------------------------------------------------------
(* The state has the types the declarations above give it. *)
TypeOK ==
    /\ mux \in [Replica -> Thread \cup {None}]
    /\ pc \in [Thread -> {"idle", "mutex", "waiting", "locked",
                         "tx", "failed", "saving", "ended"}]
    /\ conn \in [Thread \cup Reader -> Conn \cup {None}]
    /\ free \in [Replica -> Seq(Conn)]
    /\ \A p \in Replica : Len(free[p]) <= MaxIdle
    /\ ending \in [Replica -> SUBSET Conn]
    /\ advisory \in [session : Conn \cup {None}, depth : Nat]

Inside == {t \in Thread : pc[t] \in {"locked", "tx", "failed", "saving"}}

Abstract == INSTANCE GlobalLock WITH inside <- Inside

(* Among the goroutines of all replicas at most one is between lock() and  *)
(* the end of its transactions, which is what Controller relies on.         *)
ImplementsGlobalLock == Abstract!Spec

(* Nobody between lock() and unlock(): no session keeps the lock, so       *)
(* unlock() did release it, although it may have run on another connection *)
(* than lock().                                                            *)
NothingLeaked ==
    (\A t \in Thread : pc[t] \in {"idle", "mutex", "waiting"}) => advisory = Unlocked

(* Whoever asks for the lock gets it, or its process ends: unlock() leaves *)
(* no deadlock behind (impl.go:571, "panic will follow to avoid deadlock").*)
Served == \A t \in Thread : pc[t] = "mutex" ~> pc[t] \in {"locked", "idle"}
=============================================================================
