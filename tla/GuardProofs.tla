---------------------------- MODULE GuardProofs ----------------------------
(***************************************************************************)
(* Proofs about what guards a single call.                                 *)
(*                                                                         *)
(* SingleFlight, for every set of calls and keys, with or without dropped  *)
(* futures: at most one call executes f for a key, every result handed out *)
(* belongs to the caller's key and flight, and the entries of the map are  *)
(* live.                                                                   *)
(*                                                                         *)
(* CircuitBreaker, for every configuration and every set of requests: an   *)
(* Open breaker has an opening time, at most max_probes requests pass the  *)
(* half-open gate per round, no request runs if the breaker was Open       *)
(* throughout its admission, and the breaker moves only along the          *)
(* documented edges.                                                       *)
(***************************************************************************)
EXTENDS SingleFlight, CircuitBreaker, FiniteSetTheorems, TLAPS

-----------------------------------------------------------------------------
(* The single-flight group *)

Receiving(c) == pc[c] \in {"fastRecv", "slowRecv"}

\* A call between insert and remove owns the entry of its key.
HolderOwnsEntry == \A c \in Calls : HoldsSender(c) => inflight[key[c]] = c

\* The write guard is held across an .await only in SlowRecv.
GuardHolder == writer # NoCall => pc[writer] = "slowRecv"

\* A receiver is subscribed to a channel of its own key, and what is in its
\* mailbox is the result of that channel's flight.
Subscribed ==
    \A c \in Calls :
        Receiving(c) =>
            /\ sub[c] \in Calls /\ key[sub[c]] = key[c]
            /\ mailbox[c] # NoCall =>
                 mailbox[c] = sub[c] /\ mailbox[c] \in sent \ sentBefore[c]

\* What has been sent, what had been when a call began, and who has a result.
SentState ==
    \A c \in Calls :
        /\ pc[c] \in {"idle", "fast", "fastRecv", "slow", "slowRecv", "exec"}
             => c \notin sent
        /\ pc[c] = "remove" => c \in sent
        /\ sentBefore[c] \subseteq sent
        /\ c \notin sentBefore[c]
        /\ pc[c] # "done" => result[c] = NoCall

\* The inductive invariant.
FlightInv ==
    /\ TypeOK
    /\ HolderOwnsEntry /\ EntriesAreLive
    /\ GuardHolder /\ GuardedWaitKeepsEntry
    /\ Subscribed /\ SentState /\ ResultOfThisFlight

-----------------------------------------------------------------------------

LEMMA FlightInitInv == Init => FlightInv
BY NoCallAssumption
   DEF Init, FlightInv, TypeOK, Maybe, PCs, HolderOwnsEntry, HoldsSender, EntriesAreLive,
       GuardHolder, GuardedWaitKeepsEntry, Subscribed, Receiving, SentState,
       ResultOfThisFlight

LEMMA FlightTypeStep == TypeOK /\ [Next]_vars => TypeOK'
<1> SUFFICES ASSUME TypeOK, [Next]_vars PROVE TypeOK'
  OBVIOUS
<1> USE DEF TypeOK, Maybe, PCs
<1>1. ASSUME NEW c \in Calls, Begin(c) PROVE TypeOK'
  BY <1>1 DEF Begin
<1>2. ASSUME NEW c \in Calls, FastPath(c) PROVE TypeOK'
  BY <1>2 DEF FastPath, Subscribe
<1>3. ASSUME NEW c \in Calls, FastRecv(c) PROVE TypeOK'
  BY <1>3 DEF FastRecv
<1>4. ASSUME NEW c \in Calls, SlowPath(c) PROVE TypeOK'
  BY <1>4 DEF SlowPath, Subscribe
<1>5. ASSUME NEW c \in Calls, SlowRecv(c) PROVE TypeOK'
  BY <1>5 DEF SlowRecv
<1>6. ASSUME NEW c \in Calls, Finish(c) PROVE TypeOK'
  BY <1>6 DEF Finish
<1>7. ASSUME NEW c \in Calls, Remove(c) PROVE TypeOK'
  BY <1>7 DEF Remove
<1>8. ASSUME NEW c \in Calls, Cancel(c) PROVE TypeOK'
  BY <1>8 DEF Cancel
<1>9. CASE UNCHANGED vars
  BY <1>9 DEF vars
<1> QED
  BY <1>1, <1>2, <1>3, <1>4, <1>5, <1>6, <1>7, <1>8, <1>9 DEF Next, Step

LEMMA FlightInvStep == FlightInv /\ [Next]_vars => FlightInv'
<1> SUFFICES ASSUME FlightInv, [Next]_vars PROVE FlightInv'
  OBVIOUS
<1>0. TypeOK'
  BY FlightTypeStep DEF FlightInv
<1> USE <1>0, NoCallAssumption
    DEF FlightInv, TypeOK, Maybe, PCs, HolderOwnsEntry, HoldsSender, EntriesAreLive,
        GuardHolder, GuardedWaitKeepsEntry, Subscribed, Receiving, SentState,
        ResultOfThisFlight
<1>1. ASSUME NEW c \in Calls, Begin(c) PROVE FlightInv'
  BY <1>1 DEF Begin
<1>2. ASSUME NEW c \in Calls, FastPath(c) PROVE FlightInv'
  BY <1>2 DEF FastPath, Subscribe
<1>3. ASSUME NEW c \in Calls, FastRecv(c) PROVE FlightInv'
  BY <1>3 DEF FastRecv
<1>4. ASSUME NEW c \in Calls, SlowPath(c) PROVE FlightInv'
  BY <1>4 DEF SlowPath, Subscribe
<1>5. ASSUME NEW c \in Calls, SlowRecv(c) PROVE FlightInv'
  BY <1>5 DEF SlowRecv, RecvReady, Closed
<1>6. ASSUME NEW c \in Calls, Finish(c) PROVE FlightInv'
  BY <1>6 DEF Finish
<1>7. ASSUME NEW c \in Calls, Remove(c) PROVE FlightInv'
  BY <1>7 DEF Remove
<1>8. ASSUME NEW c \in Calls, Cancel(c) PROVE FlightInv'
  BY <1>8 DEF Cancel
<1>9. CASE UNCHANGED vars
  BY <1>9 DEF vars
<1> QED
  BY <1>1, <1>2, <1>3, <1>4, <1>5, <1>6, <1>7, <1>8, <1>9 DEF Next, Step

\* Every reachable state satisfies the inductive invariant.
THEOREM FlightInvariance == Spec => []FlightInv
BY FlightInitInv, FlightInvStep, PTL DEF Spec

\* The state of the group and of its calls is well typed.
THEOREM FlightTypeCorrect == Spec => []TypeOK
<1>1. FlightInv => TypeOK
  BY DEF FlightInv
<1> QED BY <1>1, FlightInvariance, PTL

\* "only one concurrent call executes": two calls that execute f for one key
\* would both own the entry of that key.
THEOREM SingleExecution == Spec => []AtMostOneExecutor
<1>1. FlightInv => AtMostOneExecutor
  BY DEF FlightInv, HolderOwnsEntry, AtMostOneExecutor
<1> QED BY <1>1, FlightInvariance, PTL

\* "other waiters receive the same result": a result belongs to the caller's
\* key and was broadcast after the call began.
THEOREM FreshResults == Spec => []ResultOfThisFlight
<1>1. FlightInv => ResultOfThisFlight
  BY DEF FlightInv
<1> QED BY <1>1, FlightInvariance, PTL

\* The entry a call waits on under the write guard stays in the map, so the
\* Closed branch of the slow path never runs.
THEOREM GuardedWait == Spec => []GuardedWaitKeepsEntry
<1>1. FlightInv => GuardedWaitKeepsEntry
  BY DEF FlightInv
<1> QED BY <1>1, FlightInvariance, PTL

\* An entry of the map belongs to a call in flight, or to one whose future was
\* dropped there.
THEOREM LiveEntries == Spec => []EntriesAreLive
<1>1. FlightInv => EntriesAreLive
  BY DEF FlightInv
<1> QED BY <1>1, FlightInvariance, PTL

-----------------------------------------------------------------------------
(* The circuit breaker *)

\* The counter is at least the number of probes it has let through.
ProbesCounted ==
    /\ IsFiniteSet(probes)
    /\ Cardinality(probes) <= probe_count

\* Who holds the lock between two steps: a request that closes the breaker,
\* which is HalfOpen until it is done; a request that has opened it; reset(),
\* which has closed it.  Nobody else changes the state meanwhile.
LockHeld ==
    /\ \A r \in Requests :
         /\ stage[r] = "closing" => lock = r /\ state = "HalfOpen"
         /\ stage[r] \in {"opening", "reopening"} => lock = r /\ state = "Open" /\ opened = "whole"
    /\ resetting # "no" <=> lock = Resetter
    /\ lock = Resetter => state = "Closed"
    /\ instant <= now

\* The history variable, and where a request may stand that saw only Open.
SawOtherThanOpen ==
    \A r \in Requests :
        /\ openSince[r] => state = "Open"
        /\ stage[r] \in {"gate", "admit", "running"} => ~openSince[r]

\* The inductive invariant.
BreakerInv ==
    /\ BreakerTypeOK
    /\ OpenHasTimestamp
    /\ ProbesCounted /\ ProbeLimit
    /\ LockHeld
    /\ SawOtherThanOpen

-----------------------------------------------------------------------------

LEMMA BreakerInitInv == BreakerInit => BreakerInv
<1> SUFFICES ASSUME BreakerInit PROVE BreakerInv
  OBVIOUS
<1>1. BreakerTypeOK /\ OpenHasTimestamp /\ LockHeld /\ SawOtherThanOpen
  BY ResetterAssumption
     DEF BreakerInit, BreakerTypeOK, States, Stages, Evaluating, Entries, OpenHasTimestamp,
         LockHeld, SawOtherThanOpen
<1>2. ProbesCounted /\ ProbeLimit
  BY FS_EmptySet, ConfigAssumption DEF BreakerInit, ProbesCounted, ProbeLimit
<1> QED BY <1>1, <1>2 DEF BreakerInv

LEMMA BreakerTypeStep == BreakerTypeOK /\ [BreakerNext]_breakerVars => BreakerTypeOK'
<1> SUFFICES ASSUME BreakerTypeOK, [BreakerNext]_breakerVars PROVE BreakerTypeOK'
  OBVIOUS
<1> USE DEF BreakerTypeOK, States, Stages, Evaluating, breaker, breakerVars, taskVars, opening
<1>1. ASSUME NEW r \in Requests, Execute(r) PROVE BreakerTypeOK'
  BY <1>1 DEF Execute, BeginRequest
<1>2. ASSUME NEW r \in Requests, Report(r) PROVE BreakerTypeOK'
  BY <1>2 DEF Report, BeginRequest
<1>3. ASSUME NEW r \in Requests, ReadState(r) PROVE BreakerTypeOK'
  BY <1>3 DEF ReadState, Return, TrackOpen
<1>4. ASSUME NEW r \in Requests, ReadOpenedAt(r) PROVE BreakerTypeOK'
  BY <1>4 DEF ReadOpenedAt, Return, TrackOpen
<1>5. ASSUME NEW r \in Requests, Flip(r) PROVE BreakerTypeOK'
  BY <1>5 DEF Flip, Return, TrackOpen
<1>6. ASSUME NEW r \in Requests, Admit(r) PROVE BreakerTypeOK'
  BY <1>6 DEF Admit, TrackOpen
<1>7. ASSUME NEW r \in Requests, Respond(r) PROVE BreakerTypeOK'
  BY <1>7 DEF Respond, TrackOpen
<1>8. ASSUME NEW r \in Requests, AppendWindow(r) PROVE BreakerTypeOK'
  <2>1. [req |-> r, ts |-> now, success |-> outcome[r]] \in Entries
    BY DEF Entries
  <2>2. window' \in SUBSET Entries
    BY <1>8, <2>1 DEF AppendWindow
  <2> QED BY <1>8, <2>2 DEF AppendWindow
<1>9. ASSUME NEW r \in Requests, RecordSuccess(r) PROVE BreakerTypeOK'
  BY <1>9 DEF RecordSuccess
<1>10. ASSUME NEW r \in Requests, CloseBreaker(r) PROVE BreakerTypeOK'
  BY <1>10 DEF CloseBreaker, TrackOpen
<1>11. ASSUME NEW r \in Requests, RecordFailure(r) \/ StampOpening(r) PROVE BreakerTypeOK'
  <2>1. CASE RecordFailure(r)
    BY <2>1 DEF RecordFailure, TrackOpen
  <2>2. CASE StampOpening(r)
    BY <2>2 DEF StampOpening
  <2> QED BY <1>11, <2>1, <2>2
<1>12. ASSUME NEW r \in Requests, CancelRequest(r) PROVE BreakerTypeOK'
  BY <1>12 DEF CancelRequest
<1>13. CASE Reset \/ ResetStep \/ CancelReset
  <2>1. CASE Reset
    BY <2>1 DEF Reset, TrackOpen
  <2>2. CASE ResetTime \/ ResetWindow \/ CancelReset
    BY <2>2 DEF ResetTime, ResetWindow, CancelReset
  <2> QED BY <1>13, <2>1, <2>2 DEF ResetStep
<1>14. CASE Tick
  BY <1>14 DEF Tick
<1>15. CASE UNCHANGED breakerVars
  BY <1>15 DEF breakerVars
<1> QED
  BY <1>1, <1>2, <1>3, <1>4, <1>5, <1>6, <1>7, <1>8, <1>9, <1>10, <1>11,
     <1>12, <1>13, <1>14, <1>15 DEF BreakerNext, RequestStep

\* The gate lets a request through only below the limit, and counts it.
LEMMA ProbesStep == BreakerInv /\ [BreakerNext]_breakerVars => ProbesCounted' /\ ProbeLimit'
<1> SUFFICES ASSUME BreakerInv, [BreakerNext]_breakerVars PROVE ProbesCounted' /\ ProbeLimit'
  OBVIOUS
<1> USE ConfigAssumption DEF BreakerInv, BreakerTypeOK, ProbesCounted, ProbeLimit, breaker,
                             taskVars
<1>0. Cardinality(probes) \in Nat
  BY FS_CardinalityType
<1>1. ASSUME probes' = {}, probe_count' \in Nat PROVE ProbesCounted' /\ ProbeLimit'
  BY <1>1, FS_EmptySet
<1>2. ASSUME probes' = probes, probe_count' \in {probe_count, probe_count + 1}
      PROVE ProbesCounted' /\ ProbeLimit'
  BY <1>0, <1>2
<1>3. ASSUME NEW r \in Requests, Admit(r) PROVE ProbesCounted' /\ ProbeLimit'
  <2>1. CASE probe_count >= MaxProbes
    BY <1>2, <1>3, <2>1 DEF Admit
  <2>2. CASE ~(probe_count >= MaxProbes)
    <3>1. probes' = probes \cup {r} /\ probe_count' = probe_count + 1
      BY <1>3, <2>2 DEF Admit
    <3>2. /\ IsFiniteSet(probes \cup {r})
          /\ Cardinality(probes \cup {r}) \in {Cardinality(probes), Cardinality(probes) + 1}
      BY FS_AddElement
    <3> QED BY <1>0, <2>2, <3>1, <3>2
  <2> QED BY <2>1, <2>2
<1>4. ASSUME NEW r \in Requests, Flip(r) PROVE ProbesCounted' /\ ProbeLimit'
  BY <1>1, <1>2, <1>4 DEF Flip
<1>5. ASSUME NEW r \in Requests, RecordSuccess(r) PROVE ProbesCounted' /\ ProbeLimit'
  BY <1>2, <1>5 DEF RecordSuccess
<1>6. ASSUME NEW r \in Requests, CloseBreaker(r) PROVE ProbesCounted' /\ ProbeLimit'
  BY <1>1, <1>6 DEF CloseBreaker
<1>7. ASSUME NEW r \in Requests, StampOpening(r) PROVE ProbesCounted' /\ ProbeLimit'
  BY <1>1, <1>2, <1>7 DEF StampOpening
<1>8. CASE ResetWindow
  BY <1>1, <1>8 DEF ResetWindow
<1>9. ASSUME UNCHANGED <<probes, probe_count>> PROVE ProbesCounted' /\ ProbeLimit'
  BY <1>2, <1>9
<1>10. ASSUME NEW r \in Requests,
              \/ Execute(r) \/ Report(r) \/ ReadState(r) \/ ReadOpenedAt(r)
              \/ Respond(r) \/ AppendWindow(r) \/ RecordFailure(r) \/ CancelRequest(r)
       PROVE ProbesCounted' /\ ProbeLimit'
  BY <1>9, <1>10 DEF Execute, Report, BeginRequest, ReadState, ReadOpenedAt, Respond,
                     AppendWindow, RecordFailure, CancelRequest
<1>11. CASE Reset \/ ResetTime \/ CancelReset \/ Tick \/ UNCHANGED breakerVars
  BY <1>9, <1>11 DEF Reset, ResetTime, CancelReset, Tick, breakerVars
<1> QED
  BY <1>3, <1>4, <1>5, <1>6, <1>7, <1>8, <1>10, <1>11 DEF BreakerNext, RequestStep, ResetStep

LEMMA BreakerInvStep == BreakerInv /\ [BreakerNext]_breakerVars => BreakerInv'
<1> SUFFICES ASSUME BreakerInv, [BreakerNext]_breakerVars PROVE BreakerInv'
  OBVIOUS
<1>0. BreakerTypeOK' /\ ProbesCounted' /\ ProbeLimit'
  BY BreakerTypeStep, ProbesStep DEF BreakerInv
<1> DEFINE Rest == OpenHasTimestamp /\ LockHeld /\ SawOtherThanOpen
<1> SUFFICES Rest'
  BY <1>0 DEF BreakerInv
<1> USE <1>0, NoneAssumption, ResetterAssumption
    DEF BreakerInv, BreakerTypeOK, States, Stages, Evaluating, OpenHasTimestamp, LockHeld,
        SawOtherThanOpen, breaker, breakerVars, taskVars, opening
<1>1. ASSUME NEW r \in Requests, Execute(r) PROVE Rest'
  BY <1>1 DEF Execute, BeginRequest
<1>2. ASSUME NEW r \in Requests, Report(r) PROVE Rest'
  BY <1>2 DEF Report, BeginRequest
<1>3. ASSUME NEW r \in Requests, ReadState(r) PROVE Rest'
  BY <1>3 DEF ReadState, Return, TrackOpen
<1>4. ASSUME NEW r \in Requests, ReadOpenedAt(r) PROVE Rest'
  BY <1>4 DEF ReadOpenedAt, Return, TrackOpen
<1>5. ASSUME NEW r \in Requests, Flip(r) PROVE Rest'
  BY <1>5 DEF Flip, Return, TrackOpen
<1>6. ASSUME NEW r \in Requests, Admit(r) PROVE Rest'
  BY <1>6 DEF Admit, TrackOpen
<1>7. ASSUME NEW r \in Requests, Respond(r) PROVE Rest'
  BY <1>7 DEF Respond, TrackOpen
<1>8. ASSUME NEW r \in Requests, AppendWindow(r) PROVE Rest'
  BY <1>8 DEF AppendWindow
<1>9. ASSUME NEW r \in Requests, RecordSuccess(r) PROVE Rest'
  BY <1>9 DEF RecordSuccess
<1>10. ASSUME NEW r \in Requests, CloseBreaker(r) PROVE Rest'
  BY <1>10 DEF CloseBreaker, TrackOpen
<1>11. ASSUME NEW r \in Requests, RecordFailure(r) \/ StampOpening(r) PROVE Rest'
  <2>1. CASE RecordFailure(r)
    BY <2>1 DEF RecordFailure, TrackOpen
  <2>2. CASE StampOpening(r)
    BY <2>2 DEF StampOpening
  <2> QED BY <1>11, <2>1, <2>2
<1>12. ASSUME NEW r \in Requests, CancelRequest(r) PROVE Rest'
  BY <1>12 DEF CancelRequest
<1>13. CASE Reset \/ ResetStep \/ CancelReset
  BY <1>13 DEF Reset, ResetStep, ResetTime, ResetWindow, CancelReset, TrackOpen
<1>14. CASE Tick
  BY <1>14 DEF Tick
<1>15. CASE UNCHANGED breakerVars
  BY <1>15 DEF breakerVars
<1> QED
  BY <1>1, <1>2, <1>3, <1>4, <1>5, <1>6, <1>7, <1>8, <1>9, <1>10, <1>11,
     <1>12, <1>13, <1>14, <1>15 DEF BreakerNext, RequestStep

\* Every reachable state satisfies the inductive invariant.
THEOREM BreakerInvariance == BreakerSafety => []BreakerInv
BY BreakerInitInv, BreakerInvStep, PTL DEF BreakerSafety

\* The breaker and its requests are well typed.
THEOREM BreakerTypeCorrect == BreakerSafety => []BreakerTypeOK
<1>1. BreakerInv => BreakerTypeOK
  BY DEF BreakerInv
<1> QED BY <1>1, BreakerInvariance, PTL

\* Unless the future that opened it was dropped before it wrote opened_at, an
\* Open breaker whose lock is free carries the time of that very opening, so
\* evaluate_state() leaves Open a cooldown after it; and no opening is dropped
\* where callers drop no futures.
THEOREM OpenIsTimed == BreakerSafety => []OpenHasTimestamp
<1>1. BreakerInv => OpenHasTimestamp
  BY DEF BreakerInv
<1> QED BY <1>1, BreakerInvariance, PTL

\* At most max_probes requests pass the half-open gate per round.
THEOREM ProbesLimited == BreakerSafety => []ProbeLimit
<1>1. BreakerInv => ProbeLimit
  BY DEF BreakerInv
<1> QED BY <1>1, BreakerInvariance, PTL

\* No request runs if the breaker was Open during the whole of its admission.
THEOREM FailsFast == BreakerSafety => []FailFast
<1>1. BreakerInv => FailFast
  BY DEF BreakerInv, SawOtherThanOpen, FailFast
<1> QED BY <1>1, BreakerInvariance, PTL

\* The breaker moves only along the edges of the table in lines 11-16, or is
\* reset.
THEOREM OnlyLegalTransitions == BreakerSafety => TransitionsLegal
<1>1. BreakerInv /\ [BreakerNext]_breakerVars => [LegalTransition]_breakerVars
  <2> SUFFICES ASSUME BreakerInv, BreakerNext PROVE LegalTransition
    OBVIOUS
  <2> USE DEF BreakerInv, BreakerTypeOK, States, LegalTransition, breaker
  <2>1. ASSUME NEW r \in Requests, Flip(r) PROVE LegalTransition
    BY <2>1 DEF Flip
  <2>2. ASSUME NEW r \in Requests, CloseBreaker(r) PROVE LegalTransition
    BY <2>2 DEF CloseBreaker, LockHeld
  <2>3. ASSUME NEW r \in Requests, RecordFailure(r) PROVE LegalTransition
    BY <2>3 DEF RecordFailure
  <2>4. CASE Reset \/ ResetStep \/ CancelReset
    BY <2>4 DEF Reset, ResetStep, ResetTime, ResetWindow, CancelReset
  <2>5. ASSUME NEW r \in Requests,
               \/ Execute(r) \/ Report(r) \/ ReadState(r) \/ ReadOpenedAt(r)
               \/ Admit(r) \/ Respond(r) \/ AppendWindow(r) \/ RecordSuccess(r)
               \/ CancelRequest(r) \/ StampOpening(r)
        PROVE LegalTransition
    <3>1. CASE Execute(r) \/ Report(r) \/ CancelRequest(r) \/ StampOpening(r)
      BY <3>1 DEF Execute, Report, BeginRequest, CancelRequest, StampOpening
    <3>2. CASE ReadState(r) \/ ReadOpenedAt(r) \/ Respond(r) \/ AppendWindow(r)
      BY <3>2 DEF ReadState, ReadOpenedAt, Respond, AppendWindow
    <3>3. CASE Admit(r)
      BY <3>3 DEF Admit
    <3>4. CASE RecordSuccess(r)
      BY <3>4 DEF RecordSuccess
    <3> QED BY <2>5, <3>1, <3>2, <3>3, <3>4
  <2>6. CASE Tick
    BY <2>6 DEF Tick
  <2> QED BY <2>1, <2>2, <2>3, <2>4, <2>5, <2>6 DEF BreakerNext, RequestStep
<1> QED BY <1>1, BreakerInvariance, PTL DEF BreakerSafety, TransitionsLegal
=============================================================================
