-------------------------- MODULE ControllerHistory --------------------------
(***************************************************************************)
(* Controller with history variables: what the last request that was       *)
(* answered 200 put into each rule, and which rules were PUT while a run   *)
(* of theirs was under way.  They observe and restrict nothing.            *)
(***************************************************************************)
EXTENDS Controller

VARIABLES
    latest,     \* [Rule -> Content \cup {None}]
    overtaken   \* subset of Rule: PUT again before there was a verdict

historyVars == <<vars, latest, overtaken>>

(* A POST or PUT of r is answered in this step: its goroutine is started.  *)
Answered(r) ==
    \E w \in Worker : /\ job[w].op = "idle"
                      /\ job'[w].op = "run"
                      /\ job'[w].rule = r

HistoryInit == Init /\ latest = NoRows /\ overtaken = {}

HistoryNext ==
    /\ Next
    /\ latest' = [r \in Rule |-> IF Answered(r) THEN rows'[r].content ELSE latest[r]]
    /\ overtaken' = overtaken \cup {r \in Existing : Answered(r) /\ ~Settled(r)}

HistorySpec == HistoryInit /\ [][HistoryNext]_historyVars

(* What the last answered POST or PUT stored is what GET returns once the  *)
(* service is at rest (impl_test.go compares what it created with what it  *)
(* reads, swagger.json promises a PUT "Success").                          *)
AnsweredPutIsKept ==
    Quiescent => \A r \in Existing : rows[r].content = latest[r]

(* The same of a rule whose clients look at it before they PUT it, and     *)
(* wait until it has completed or has errors.                              *)
PatientPutIsKept ==
    Quiescent => \A r \in Existing \ overtaken : rows[r].content = latest[r]
=============================================================================
