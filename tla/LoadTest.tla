------------------------------ MODULE LoadTest -----------------------------
(***************************************************************************)
(* rszeroctl loadtest (rszeroctl/src/cmd/loadtest.rs): the workers, the    *)
(* tasks that stop them, the progress display and the main task.  Every      *)
(* load, store and fetch_add of a shared atomic is a step.                 *)
(***************************************************************************)
EXTENDS Integers, FiniteSets

CONSTANTS
    LtWorkers,
    Total          \* the requests asked for; 0: until the duration is over

ASSUME LoadTestAssumption == Total \in Nat /\ LtWorkers # {} /\ IsFiniteSet(LtWorkers)

MaxSent == Total + Cardinality(LtWorkers) + 2  \* bound on the requests when only time ends the test

VARIABLES
    timed,         \* a duration was given
    sent, good, bad,\* total_sent, total_ok, total_err
    stop,          \* should_stop
    lt,            \* lt[w]: where worker w is
    display,       \* the task of the progress display
    mainPc         \* "join", "await_progress" or "reported"

loadVars == <<timed, sent, good, bad, stop, lt, display, mainPc>>

LoadInit ==
    /\ timed \in (IF Total > 0 THEN BOOLEAN ELSE {TRUE})
    /\ sent = 0 /\ good = 0 /\ bad = 0 /\ stop = FALSE
    /\ lt = [w \in LtWorkers |-> "top"]
    /\ display = "sleep" /\ mainPc = "join"

LtGo(w, l) == lt' = [lt EXCEPT ![w] = l]

\* The wrong variant: one too many.
MutantEnough == Total > 0 /\ sent > Total

Enough == Total > 0 /\ sent >= Total

CheckStop(w) ==
    /\ lt[w] = "top"
    /\ LtGo(w, IF stop THEN "gone" ELSE "limit")
    /\ UNCHANGED <<timed, sent, good, bad, stop, display, mainPc>>

CheckTotal(w) ==
    /\ lt[w] = "limit"
    /\ LtGo(w, IF Enough THEN "gone" ELSE "request")
    /\ UNCHANGED <<timed, sent, good, bad, stop, display, mainPc>>

\* send_http_request() has time limits of its own: it returns.
Respond(w) ==
    /\ lt[w] = "request" /\ sent < MaxSent
    /\ sent' = sent + 1
    /\ \E out \in {"good", "bad"} : LtGo(w, out)
    /\ UNCHANGED <<timed, good, bad, stop, display, mainPc>>

CountResult(w) ==
    /\ lt[w] \in {"good", "bad"}
    /\ good' = good + (IF lt[w] = "good" THEN 1 ELSE 0)
    /\ bad' = bad + (IF lt[w] = "bad" THEN 1 ELSE 0)
    /\ LtGo(w, "top")
    /\ UNCHANGED <<timed, sent, stop, display, mainPc>>

\* The task that sleeps for the duration, and the one that watches the total.
SetStop ==
    /\ ~stop /\ (timed \/ Enough)
    /\ stop' = TRUE
    /\ UNCHANGED <<timed, sent, good, bad, lt, display, mainPc>>

\* loop { sleep(1 s); print }: nothing ends it.
ShowProgress ==
    /\ display' = IF display = "sleep" THEN "print" ELSE "sleep"
    /\ UNCHANGED <<timed, sent, good, bad, stop, lt, mainPc>>

\* All workers joined: stop the rest, and wait for the progress display.
JoinWorkers ==
    /\ mainPc = "join" /\ \A w \in LtWorkers : lt[w] = "gone"
    /\ stop' = TRUE
    /\ mainPc' = "await_progress"
    /\ UNCHANGED <<timed, sent, good, bad, lt, display>>

LoadWork ==
    \/ \E w \in LtWorkers : CheckStop(w) \/ CheckTotal(w) \/ Respond(w) \/ CountResult(w)
    \/ SetStop \/ ShowProgress \/ JoinWorkers

\* The results are printed when the progress display has ended.
Report ==
    /\ mainPc = "await_progress" /\ display = "ended"
    /\ mainPc' = "reported"
    /\ UNCHANGED <<timed, sent, good, bad, stop, lt, display>>

LoadNext == LoadWork \/ Report

\* Sleeps end, requests return, and the runtime polls ready tasks.
LoadFairness ==
    /\ \A w \in LtWorkers : /\ WF_loadVars(CheckStop(w)) /\ WF_loadVars(CheckTotal(w))
                            /\ WF_loadVars(Respond(w)) /\ WF_loadVars(CountResult(w))
    /\ WF_loadVars(SetStop) /\ WF_loadVars(ShowProgress) /\ WF_loadVars(JoinWorkers) /\ WF_loadVars(Report)

LoadSafety == LoadInit /\ [][LoadNext]_loadVars

LoadSpec == LoadSafety /\ LoadFairness
------------------------------------------------------------------------------
(***************************************************************************)
(* What is printed adds up once the workers are joined, and the test sends *)
(* at least the total, unless time ended it, and exceeds it by less than   *)
(* one request for each worker: they check the total before they count.    *)
(***************************************************************************)
TotalsAddUp ==
    /\ good + bad <= sent
    /\ mainPc # "join" => good + bad = sent
    /\ mainPc # "join" /\ ~timed => sent >= Total
    /\ Total > 0 => sent <= Total + Cardinality(LtWorkers) - 1

(***************************************************************************)
(* "Sends concurrent HTTP requests and reports latency statistics."        *)
(* (loadtest.rs:3)                                                         *)
(***************************************************************************)
LoadtestReports == <>(mainPc = "reported")
=============================================================================
