------------------------------- MODULE Outbox -------------------------------
(***************************************************************************)
(* What the outbox of queue/transactional.rs promises, without its table,  *)
(* its sweepers and their faults: a message is committed or withdrawn as a *)
(* whole, only a committed one is delivered, delivery is final, a message  *)
(* is given up only after MaxRetries failed attempts (and may be taken up  *)
(* again), and no committed message is left behind.                        *)
(***************************************************************************)
EXTENDS Naturals

CONSTANTS Messages, MaxRetries

VARIABLES
    fate,     \* what has become of each message
    tries     \* failed attempts to deliver it, counted up to MaxRetries

Init ==
    /\ fate = [m \in Messages |-> "none"]
    /\ tries = [m \in Messages |-> 0]

Becomes(m, from, to) ==
    /\ fate[m] \in from
    /\ fate' = [fate EXCEPT ![m] = to]

Begin(m) == Becomes(m, {"none"}, "open") /\ UNCHANGED tries
Withdraw(m) == Becomes(m, {"open"}, "withdrawn") /\ UNCHANGED tries
Commit(m) == Becomes(m, {"none", "open"}, "committed") /\ UNCHANGED tries
Deliver(m) == Becomes(m, {"committed", "failed"}, "delivered") /\ UNCHANGED tries

\* An attempt failed: the message stays what it is, is given up when that was
\* not the first of MaxRetries, or is taken up again.
Attempt(m) ==
    /\ fate[m] \in {"committed", "delivered", "failed"}
    /\ tries' = [tries EXCEPT ![m] = IF @ < MaxRetries THEN @ + 1 ELSE @]
    /\ \/ UNCHANGED fate
       \/ tries'[m] >= MaxRetries /\ Becomes(m, {"committed"}, "failed")
       \/ Becomes(m, {"failed"}, "committed")

Next ==
    \E m \in Messages :
        Begin(m) \/ Withdraw(m) \/ Commit(m) \/ Deliver(m) \/ Attempt(m)

\* A message that stays committed is in the end delivered or given up.
Settle(m) ==
    /\ fate[m] = "committed"
    /\ Deliver(m) \/ (Attempt(m) /\ fate'[m] = "failed")

Safety == Init /\ [][Next]_<<fate, tries>>

Spec ==
    /\ Safety
    /\ \A m \in Messages : WF_<<fate, tries>>(Settle(m))
=============================================================================
