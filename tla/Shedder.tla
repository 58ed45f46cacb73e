------------------------------ MODULE Shedder -------------------------------
(***************************************************************************)
(* AdaptiveShedder (shedder/mod.rs): threads that record latencies in      *)
(* atomics one after the other, without a lock.  One action is one atomic  *)
(* operation.                                                              *)
(***************************************************************************)
EXTENDS Naturals

CONSTANTS
    Threads,      \* threads that handle requests
    Threshold,    \* latency_threshold_ms
    Low, High,    \* latencies below and above it
    SampleWindow, \* samples before the window is reset (1000 in the code)
    ProbStep,     \* how far the probability falls per good sample (500)
    MaxManual     \* bound on activate() and deactivate()

ASSUME ShedAssumption ==
    /\ {Threshold, Low, High, SampleWindow, ProbStep, MaxManual} \subseteq Nat
    /\ 0 < Threshold /\ Low < Threshold /\ Threshold < High

VARIABLES
    active, prob, samples, sum,   \* the atomics
    thr,                          \* thr[t]: [pc, count, val]: a thread in record_latency()
    calm,                         \* from now on all latencies are low
    hand,                         \* the call of activate() or deactivate() between its stores
    manual                        \* calls of activate() and deactivate() so far

atomics == <<active, prob, samples, sum>>
shedVars == <<atomics, thr, calm, hand, manual>>

\* (excess * 100).min(95) as u64 * 100
Rejection(avg) ==
    LET excess == (100 * (avg - Threshold)) \div Threshold
    IN 100 * IF excess > 95 THEN 95 ELSE excess

\* What should_reject() may answer.
should_reject == IF active /\ prob > 0 THEN BOOLEAN ELSE {FALSE}

Idle == [pc |-> "idle", count |-> 0, val |-> 0]

ShedInit ==
    /\ active = FALSE /\ prob = 0 /\ samples = 0 /\ sum = 0
    /\ thr = [t \in Threads |-> Idle]
    /\ calm = FALSE /\ hand = "none" /\ manual = 0

At(t, l) == thr[t].pc = l

Goto(t, l, v) == thr' = [thr EXCEPT ![t].pc = l, ![t].val = v]

\* A request that was not rejected has been served: fetch_add on sample_count.
Count(t) ==
    /\ At(t, "idle") /\ FALSE \in should_reject
    /\ samples' = samples + 1
    /\ thr' = [thr EXCEPT ![t] = [pc |-> "sum", count |-> samples + 1, val |-> 0]]
    /\ UNCHANGED <<active, prob, sum>>

\* fetch_add on latency_sum, and what follows from it without further atomics.
Sum(t) ==
    /\ At(t, "sum")
    /\ \E l \in IF calm THEN {Low} ELSE {Low, High} :
         LET avg == (sum + l) \div thr[t].count IN
         /\ sum' = sum + l
         /\ IF avg > Threshold THEN Goto(t, "raise", Rejection(avg)) ELSE Goto(t, "load", 0)
    /\ UNCHANGED <<active, prob, samples>>

\* The end of the call: reset the window, or return.
Done(t) ==
    thr' = [thr EXCEPT ![t] = IF thr[t].count > SampleWindow
                              THEN [pc |-> "reset", count |-> 0, val |-> 0] ELSE Idle]

Raise(t) ==
    /\ At(t, "raise")
    /\ prob' = thr[t].val
    /\ Goto(t, "activate", 0)
    /\ UNCHANGED <<active, samples, sum>>

Activate(t) ==
    /\ At(t, "activate")
    /\ active' = TRUE
    /\ Done(t)
    /\ UNCHANGED <<prob, samples, sum>>

\* current = load(); nothing is stored when it is 0.
Load(t) ==
    /\ At(t, "load")
    /\ Goto(t, IF prob > 0 THEN "lower" ELSE "off", prob)
    /\ UNCHANGED atomics

\* The wrong variant: the probability stays at its last step.
MutantLower(t) ==
    /\ At(t, "lower")
    /\ prob' = IF thr[t].val > ProbStep THEN thr[t].val - ProbStep ELSE prob
    /\ Goto(t, "off", 0)
    /\ UNCHANGED <<active, samples, sum>>

\* saturating_sub
Lower(t) ==
    /\ At(t, "lower")
    /\ prob' = IF thr[t].val > ProbStep THEN thr[t].val - ProbStep ELSE 0
    /\ Goto(t, "off", 0)
    /\ UNCHANGED <<active, samples, sum>>

Off(t) ==
    /\ At(t, "off")
    /\ IF prob = 0 THEN Goto(t, "deactivate", 0) ELSE Done(t)
    /\ UNCHANGED atomics

Deactivate(t) ==
    /\ At(t, "deactivate")
    /\ active' = FALSE
    /\ Done(t)
    /\ UNCHANGED <<prob, samples, sum>>

ResetCount(t) ==
    /\ At(t, "reset")
    /\ samples' = 0
    /\ Goto(t, "reset2", 0)
    /\ UNCHANGED <<active, prob, sum>>

ResetSum(t) ==
    /\ At(t, "reset2")
    /\ sum' = 0
    /\ Goto(t, "idle", 0)
    /\ UNCHANGED <<active, prob, samples>>

\* activate() and deactivate(), called by hand: two stores each.
Manual(on) ==
    /\ manual < MaxManual /\ ~calm /\ hand = "none"
    /\ manual' = manual + 1
    /\ active' = on
    /\ hand' = IF on THEN "on" ELSE "off"
    /\ UNCHANGED <<prob, samples, sum, thr, calm>>

ManualProb ==
    /\ hand # "none"
    /\ prob' = IF hand = "on" THEN 5000 ELSE 0
    /\ hand' = "none"
    /\ UNCHANGED <<active, samples, sum, thr, calm, manual>>

CalmDown ==
    /\ ~calm
    /\ calm' = TRUE
    /\ UNCHANGED <<atomics, thr, hand, manual>>

Record(t) ==
    /\ \/ Count(t) \/ Sum(t) \/ Raise(t) \/ Activate(t) \/ Load(t) \/ Lower(t) \/ Off(t)
       \/ Deactivate(t) \/ ResetCount(t) \/ ResetSum(t)
    /\ UNCHANGED <<calm, hand, manual>>

ShedNext == (\E t \in Threads : Record(t)) \/ (\E on \in BOOLEAN : Manual(on)) \/ ManualProb \/ CalmDown

\* Requests keep coming, and should_reject() never rejects all of them.
ShedFairness == (\A t \in Threads : WF_shedVars(Record(t))) /\ WF_shedVars(ManualProb)

ShedSpec == ShedInit /\ [][ShedNext]_shedVars /\ ShedFairness
------------------------------------------------------------------------------
(***************************************************************************)
(* Shedding ends: once latencies stay below the threshold, is_active() is  *)
(* false again and again, whatever the order in which the threads' stores  *)
(* met, a half-done reset of the window included.                          *)
(***************************************************************************)
ShedRecovers == calm ~> ~active
=============================================================================
