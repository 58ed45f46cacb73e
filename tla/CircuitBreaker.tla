--------------------------- MODULE CircuitBreaker ---------------------------
(***************************************************************************)
(* breaker/mod.rs: CircuitBreaker shared by concurrent requests.           *)
(*                                                                         *)
(* state, opened_at and window are three separate tokio RwLocks and        *)
(* probe_count an atomic, so a request sees them at different moments.     *)
(* Each request is one call of execute(), or one direct call of            *)
(* record_success / record_failure; a request therefore records at most    *)
(* one outcome and the sliding window is a set of entries named by their   *)
(* request (only its size and its number of failures are ever used).       *)
(*                                                                         *)
(* A section run under state.write() is one step up to its next .await,    *)
(* where the future may be dropped: record_failure() waits for opened_at   *)
(* after it has set state to Open, and reset() for opened_at and for       *)
(* window after it has set state to Closed.  record_success() closing the  *)
(* breaker is two steps because execute() changes probe_count without the  *)
(* lock.                                                                   *)
(***************************************************************************)
EXTENDS Integers, FiniteSets

CONSTANTS
    Requests,       \* the requests made through the breaker
    MinRequests,    \* config.min_requests
    ThresholdNum,   \* config.failure_threshold =
    ThresholdDen,   \*     ThresholdNum / ThresholdDen
    Cooldown,       \* config.cooldown, in ticks
    MaxProbes,      \* config.max_probes
    Window,         \* config.window, in ticks
    MaxTime,        \* bound on the clock
    DirectReports,  \* are record_success / record_failure called directly?
    MayCancel,      \* may the caller drop the future of a call?
    Resetter,       \* the task that calls reset()
    None            \* Option::None, and the free lock

ASSUME ConfigAssumption ==
    /\ MinRequests \in Nat /\ MaxProbes \in Nat
    /\ ThresholdNum \in Nat /\ ThresholdDen \in Nat \ {0}
    /\ Cooldown \in Nat /\ Window \in Nat /\ MaxTime \in Nat
    /\ DirectReports \in BOOLEAN /\ MayCancel \in BOOLEAN
ASSUME NoneAssumption == None \notin Requests /\ None \notin Nat
ASSUME ResetterAssumption == Resetter \notin Requests /\ Resetter # None

VARIABLES
    now,            \* Instant::now()
    state,          \* BreakerState
    lock,           \* who is inside state.write() between two steps
    opened_at,
    window,
    probe_count,
    instant,        \* the Instant record_failure() took for opened_at
    resetting,      \* where reset() stands
    stage,          \* where each request stands
    ev,             \* where it stands in evaluate_state()
    outcome,        \* did f (or the direct report) succeed?
    probes,         \* history: requests admitted by the probe counter since
                    \* it was last set to 0
    openSince,      \* history: is the request being admitted, and has the
                    \* breaker been Open ever since it began?
    opened          \* history: "torn" if the future of the last opening was
                    \* dropped before it wrote opened_at

breaker == <<state, lock, opened_at, window, probe_count>>
taskVars == <<stage, ev, outcome>>
opening == <<instant, opened>>
breakerVars == <<now, breaker, taskVars, probes, openSince, opening,
                 resetting>>

States == {"Closed", "Open", "HalfOpen"}
Entries == [req : Requests, ts : Nat, success : BOOLEAN]

\* The points of execute() / record_*() at which evaluate_state() runs: the
\* is_open() check, the half-open gate, and the start of record_*().
Evaluating == {"check", "gate", "settle"}
Stages == Evaluating \cup {"idle", "admit", "running", "append", "record",
                        "closing", "opening", "reopening", "rejected",
                        "dropped", "done"}

BreakerInit ==
    /\ now = 0
    /\ state = "Closed"
    /\ lock = None
    /\ opened_at = None
    /\ window = {}
    /\ probe_count = 0
    /\ stage = [r \in Requests |-> "idle"]
    /\ ev = [r \in Requests |-> "read"]
    /\ outcome = [r \in Requests |-> FALSE]
    /\ probes = {}
    /\ openSince = [r \in Requests |-> FALSE]
    /\ instant = 0 /\ opened = "whole"
    /\ resetting = "no"

\* The history variable follows the state, until the request is decided.
TrackOpen ==
    openSince' = [r \in Requests |->
        openSince[r] /\ state' = "Open" /\ stage'[r] \in Evaluating \cup {"admit", "running"}]

BeginRequest(r, at) ==
    /\ stage[r] = "idle"
    /\ stage' = [stage EXCEPT ![r] = at]
    /\ UNCHANGED <<now, breaker, ev, probes, opening, resetting>>

\* execute(f) is called.
Execute(r) == /\ BeginRequest(r, "check")
              /\ openSince' = [openSince EXCEPT ![r] = (state = "Open")]
              /\ UNCHANGED outcome

\* record_success() or record_failure() is called by itself.
Report(r) == /\ DirectReports
             /\ BeginRequest(r, "settle")
             /\ \E ok \in BOOLEAN : outcome' = [outcome EXCEPT ![r] = ok]
             /\ UNCHANGED openSince

\* Mutant: execute() without its is_open() check.
ReturnUnchecked(r, s) ==
    /\ ev' = [ev EXCEPT ![r] = "read"]
    /\ stage' = [stage EXCEPT ![r] =
                CASE stage[r] = "check"  -> "gate"
                  [] stage[r] = "gate"   -> IF s = "HalfOpen" THEN "admit" ELSE "running"
                  [] stage[r] = "settle" -> "append"]
    /\ UNCHANGED outcome

\* evaluate_state() returns s to its caller: is_open() rejects, the gate
\* counts a probe, record_*() only wanted the transition.
Return(r, s) ==
    /\ ev' = [ev EXCEPT ![r] = "read"]
    /\ stage' = [stage EXCEPT ![r] =
                CASE stage[r] = "check"  -> IF s = "Open" THEN "rejected" ELSE "gate"
                  [] stage[r] = "gate"   -> IF s = "HalfOpen" THEN "admit" ELSE "running"
                  [] stage[r] = "settle" -> "append"]
    /\ UNCHANGED outcome

\* evaluate_state(), first .await: the state, under its read lock.
ReadState(r) ==
    /\ stage[r] \in Evaluating /\ ev[r] = "read"
    /\ lock = None
    /\ IF state # "Open"
         THEN Return(r, state)
         ELSE ev' = [ev EXCEPT ![r] = "opened"] /\ UNCHANGED <<stage, outcome>>
    /\ UNCHANGED <<now, breaker, probes, opening, resetting>>
    /\ TrackOpen

\* Second .await: opened_at, under its own lock, and the elapsed time.
CooldownOver == opened_at # None /\ now - opened_at >= Cooldown

ReadOpenedAt(r) ==
    /\ stage[r] \in Evaluating /\ ev[r] = "opened"
    /\ IF CooldownOver
         THEN ev' = [ev EXCEPT ![r] = "flip"] /\ UNCHANGED <<stage, outcome>>
         ELSE Return(r, "Open")
    /\ UNCHANGED <<now, breaker, probes, opening, resetting>>
    /\ TrackOpen

\* Third .await: state.write(); only an Open breaker turns HalfOpen, but the
\* caller is told HalfOpen in any case.
Flip(r) ==
    /\ stage[r] \in Evaluating /\ ev[r] = "flip"
    /\ lock = None
    /\ IF state = "Open"
         THEN state' = "HalfOpen" /\ probe_count' = 0 /\ probes' = {}
         ELSE UNCHANGED <<state, probe_count, probes>>
    /\ Return(r, "HalfOpen")
    /\ TrackOpen
    /\ UNCHANGED <<now, lock, opened_at, window, opening, resetting>>

\* Mutant: probe > max_probes.
AdmitOneMore(r) ==
    /\ stage[r] = "admit"
    /\ probe_count' = probe_count + 1
    /\ IF probe_count > MaxProbes
         THEN stage' = [stage EXCEPT ![r] = "rejected"] /\ UNCHANGED probes
         ELSE stage' = [stage EXCEPT ![r] = "running"] /\ probes' = probes \cup {r}
    /\ UNCHANGED <<now, state, lock, opened_at, window, ev, outcome, opening,
                   resetting>>
    /\ TrackOpen

\* execute(): the half-open gate takes a number from probe_count.
Admit(r) ==
    /\ stage[r] = "admit"
    /\ probe_count' = probe_count + 1
    /\ IF probe_count >= MaxProbes
         THEN stage' = [stage EXCEPT ![r] = "rejected"] /\ UNCHANGED probes
         ELSE stage' = [stage EXCEPT ![r] = "running"] /\ probes' = probes \cup {r}
    /\ UNCHANGED <<now, state, lock, opened_at, window, ev, outcome, opening,
                   resetting>>
    /\ TrackOpen

\* f.await completes with Ok or Err.
Respond(r) ==
    /\ stage[r] = "running"
    /\ stage' = [stage EXCEPT ![r] = "settle"]
    /\ \E ok \in BOOLEAN : outcome' = [outcome EXCEPT ![r] = ok]
    /\ UNCHANGED <<now, breaker, ev, probes, opening, resetting>>
    /\ TrackOpen

\* append_window(): entries before the cutoff are dropped.  The counters
\* total_success and total_failure, which only their getters read, are left
\* out.
AppendWindow(r) ==
    /\ stage[r] = "append"
    /\ window' = {e \in window : e.ts + Window >= now}
                   \cup {[req |-> r, ts |-> now, success |-> outcome[r]]}
    /\ stage' = [stage EXCEPT ![r] = "record"]
    /\ UNCHANGED <<now, state, lock, opened_at, probe_count, ev, outcome,
                   probes, openSince, opening, resetting>>

\* should_open(): the rate of an empty window is NaN, which is not >= anything.
Failures == {e \in window : ~e.success}
should_open ==
    /\ Cardinality(window) >= MinRequests
    /\ window # {}
    /\ Cardinality(Failures) * ThresholdDen >= ThresholdNum * Cardinality(window)

\* Mutant: fetch_add returns the old value, and the + 1 is forgotten.
RecordSuccessLate(r) ==
    /\ stage[r] = "record" /\ outcome[r]
    /\ lock = None
    /\ IF state = "HalfOpen"
         THEN /\ probe_count' = probe_count + 1
              /\ IF probe_count > MaxProbes
                   THEN lock' = r /\ stage' = [stage EXCEPT ![r] = "closing"]
                   ELSE stage' = [stage EXCEPT ![r] = "done"] /\ UNCHANGED lock
         ELSE stage' = [stage EXCEPT ![r] = "done"] /\ UNCHANGED <<probe_count, lock>>
    /\ UNCHANGED <<now, state, opened_at, window, ev, outcome, probes,
                   openSince, opening, resetting>>

\* record_success() under state.write(): a success seen in HalfOpen counts as
\* a probe, whoever reports it.
RecordSuccess(r) ==
    /\ stage[r] = "record" /\ outcome[r]
    /\ lock = None
    /\ IF state = "HalfOpen"
         THEN /\ probe_count' = probe_count + 1
              /\ IF probe_count + 1 >= MaxProbes
                   THEN lock' = r /\ stage' = [stage EXCEPT ![r] = "closing"]
                   ELSE stage' = [stage EXCEPT ![r] = "done"] /\ UNCHANGED lock
         ELSE stage' = [stage EXCEPT ![r] = "done"] /\ UNCHANGED <<probe_count, lock>>
    /\ UNCHANGED <<now, state, opened_at, window, ev, outcome, probes,
                   openSince, opening, resetting>>

\* ... and enough of them close the breaker.
CloseBreaker(r) ==
    /\ stage[r] = "closing"
    /\ state' = "Closed" /\ probe_count' = 0 /\ probes' = {}
    /\ lock' = None
    /\ stage' = [stage EXCEPT ![r] = "done"]
    /\ TrackOpen
    /\ UNCHANGED <<now, opened_at, window, ev, outcome, opening, resetting>>

\* record_failure() under state.write(), up to the .await of opened_at.  The
\* right-hand side of the assignment, Instant::now(), is evaluated first.
RecordFailure(r) ==
    /\ stage[r] = "record" /\ ~outcome[r]
    /\ lock = None
    /\ IF state = "HalfOpen" \/ (state = "Closed" /\ should_open)
         THEN /\ state' = "Open" /\ lock' = r
              /\ instant' = now /\ opened' = "whole"
              /\ stage' = [stage EXCEPT ![r] =
                    IF state = "HalfOpen" THEN "reopening" ELSE "opening"]
         ELSE /\ stage' = [stage EXCEPT ![r] = "done"]
              /\ UNCHANGED <<state, lock, opening>>
    /\ TrackOpen
    /\ UNCHANGED <<now, opened_at, window, probe_count, ev, outcome,
                   probes, resetting>>

\* ... opened_at is written, and a failed probe resets the counter.
StampOpening(r) ==
    /\ stage[r] \in {"opening", "reopening"}
    /\ opened_at' = instant
    /\ IF stage[r] = "reopening"
         THEN probe_count' = 0 /\ probes' = {}
         ELSE UNCHANGED <<probe_count, probes>>
    /\ lock' = None
    /\ stage' = [stage EXCEPT ![r] = "done"]
    /\ UNCHANGED <<now, state, window, ev, outcome, openSince, opening,
                   resetting>>

\* reset(), up to the .await of opened_at.
Reset ==
    /\ lock = None
    /\ state' = "Closed"
    /\ lock' = Resetter /\ resetting' = "time"
    /\ TrackOpen
    /\ UNCHANGED <<now, opened_at, window, probe_count, taskVars, probes,
                   opening>>

\* ... up to the .await of window.
ResetTime ==
    /\ resetting = "time"
    /\ opened_at' = None
    /\ resetting' = "window"
    /\ UNCHANGED <<now, state, lock, window, probe_count, taskVars, probes,
                   openSince, opening>>

\* ... and to its end.
ResetWindow ==
    /\ resetting = "window"
    /\ window' = {} /\ probe_count' = 0 /\ probes' = {}
    /\ lock' = None /\ resetting' = "no"
    /\ UNCHANGED <<now, state, opened_at, taskVars, openSince, opening>>

ResetStep == ResetTime \/ ResetWindow

\* The caller of reset() drops it while it waits for a lock.
CancelReset ==
    /\ MayCancel
    /\ resetting # "no"
    /\ lock' = None /\ resetting' = "no"
    /\ UNCHANGED <<now, state, opened_at, window, probe_count, taskVars,
                   probes, openSince, opening>>

\* The caller drops the future at one of its .await points: nothing more is
\* recorded, a number taken from probe_count is not given back, and a breaker
\* that is being opened stays Open with the opened_at it had.  The locals of
\* the request are gone.
CancelRequest(r) ==
    /\ MayCancel
    /\ stage[r] \in Evaluating \cup {"running", "append", "record", "opening", "reopening"}
    /\ stage' = [stage EXCEPT ![r] = "dropped"]
    /\ IF stage[r] \in {"opening", "reopening"}
         THEN lock' = None /\ opened' = "torn"
         ELSE UNCHANGED <<lock, opened>>
    /\ ev' = [ev EXCEPT ![r] = "read"]
    /\ outcome' = [outcome EXCEPT ![r] = FALSE]
    /\ openSince' = [openSince EXCEPT ![r] = FALSE]
    /\ UNCHANGED <<now, state, opened_at, window, probe_count, probes, instant,
                   resetting>>

Tick ==
    /\ now < MaxTime
    /\ now' = now + 1
    /\ UNCHANGED <<breaker, taskVars, probes, openSince, opening, resetting>>

RequestStep(r) ==
    \/ ReadState(r) \/ ReadOpenedAt(r) \/ Flip(r) \/ Admit(r) \/ Respond(r)
    \/ AppendWindow(r) \/ RecordSuccess(r) \/ CloseBreaker(r) \/ RecordFailure(r)
    \/ StampOpening(r)

BreakerNext ==
    \/ \E r \in Requests : Execute(r) \/ Report(r) \/ RequestStep(r) \/ CancelRequest(r)
    \/ Reset \/ ResetStep \/ CancelReset
    \/ Tick

BreakerSafety == BreakerInit /\ [][BreakerNext]_breakerVars

\* A request that can take a step is polled again; f completes.  The state lock
\* is a fair tokio RwLock, and its holders wait only for locks that are held
\* for a moment.
BreakerFairness ==
    /\ \A r \in Requests : WF_breakerVars(RequestStep(r))
    /\ WF_breakerVars(ResetStep)

BreakerSpec == BreakerSafety /\ BreakerFairness

-----------------------------------------------------------------------------
(* Properties *)

\* The types of the breaker's locks and counters and of each request's locals.
BreakerTypeOK ==
    /\ now \in Nat
    /\ state \in States
    /\ lock \in Requests \cup {None, Resetter}
    /\ opened_at \in Nat \cup {None}
    /\ window \in SUBSET Entries
    /\ probe_count \in Nat
    /\ stage \in [Requests -> Stages]
    /\ ev \in [Requests -> {"read", "opened", "flip"}]
    /\ outcome \in [Requests -> BOOLEAN]
    /\ probes \in SUBSET Requests
    /\ openSince \in [Requests -> BOOLEAN]
    /\ instant \in Nat /\ opened \in {"whole", "torn"}
    /\ resetting \in {"no", "time", "window"}

\* Once record_failure() has released the state, an Open breaker carries the
\* time at which it was opened, and not an earlier one or none: evaluate_state()
\* leaves Open only by that time.  The exception is an opening whose future was
\* dropped while it waited for opened_at (lines 166, 172): the breaker is then
\* Open with the time of an earlier opening, or with none and so for ever.
OpenHasTimestamp ==
    /\ state = "Open" /\ lock = None /\ opened = "whole" => opened_at = instant /\ instant <= now
    /\ opened = "torn" => MayCancel

\* "Max probe requests allowed in HalfOpen state" (line 50): between two resets
\* of probe_count the gate lets at most max_probes requests through, although
\* requests take numbers without the lock, outcomes move the same counter, and
\* a request may have been told HalfOpen in an earlier round.
ProbeLimit == Cardinality(probes) <= MaxProbes

\* "Requests are rejected immediately" (line 5): no request runs f if the
\* breaker was Open during the whole of its admission.
FailFast == \A r \in Requests : stage[r] = "running" => ~openSince[r]

\* The transitions of the table in lines 11-16, and reset(): whatever a request
\* read before it got the lock, no step moves the breaker along another edge.
LegalTransition ==
    \/ state' = state
    \/ state = "Closed" /\ state' = "Open"
    \/ state = "Open" /\ state' = "HalfOpen"
    \/ state = "HalfOpen" /\ state' \in {"Open", "Closed"}
    \/ state' = "Closed" /\ lock' = Resetter
TransitionsLegal == [][LegalTransition]_breakerVars

\* "HalfOpen --(probes succeed)--> Closed" and "HalfOpen --(probes fail)-->
\* Open" (lines 14-15): a half-open round whose probes are all out ends, since
\* every admitted probe reports and its report closes or re-opens the breaker.
\* A probe whose future is dropped never reports and keeps its number, so the
\* property is about behaviours in which no probe of a round is dropped.
ProbesOut == state = "HalfOpen" /\ probe_count >= MaxProbes
ProbeDropped == \E r \in probes : stage[r] = "dropped"
ProbesResolve == []~ProbeDropped => (ProbesOut ~> ~ProbesOut)
=============================================================================
