------------------------------ MODULE MCGuards ------------------------------
(* Model-checking instance of what guards a single call: single-flight, with *)
(* three calls on two keys any of whose futures may be dropped; the circuit  *)
(* breaker, with three requests of which one is enough to open it, once with *)
(* dropped requests over two ticks and once with resets, dropped ones too,   *)
(* over one; and the load shedder, with two threads and the shortest window. *)
(* They share nothing: a behaviour is one of the four (`part`).              *)
EXTENDS SingleFlight, CircuitBreaker, Shedder

CONSTANT Parts     \* the components a run looks at
VARIABLE part

GuardsInit ==
    /\ part \in Parts /\ Init /\ BreakerInit /\ ShedInit
    /\ part # "flight" => key = [c \in Calls |-> CHOOSE k \in Keys : TRUE]   \* not looked at

GuardsNext ==
    /\ UNCHANGED part
    /\ \/ part = "flight" /\ Next /\ UNCHANGED <<breakerVars, shedVars>>
       \/ part = "breaker" /\ BreakerNext /\ UNCHANGED <<resetting, vars, shedVars>>
       \/ part = "reset" /\ BreakerNext /\ UNCHANGED <<vars, shedVars>>
            /\ now' <= 1 /\ \A r \in Requests : stage'[r] # "dropped"
       \/ part = "shedder" /\ ShedNext /\ UNCHANGED <<vars, breakerVars>>

GuardsSpec ==
    /\ GuardsInit /\ [][GuardsNext]_<<part, vars, breakerVars, shedVars>>
    /\ \A c \in Calls : WF_vars(part = "flight" /\ Step(c))
    /\ \A r \in Requests : WF_breakerVars(part \in {"breaker", "reset"} /\ RequestStep(r))
    /\ WF_breakerVars(part = "reset" /\ ResetStep)
    /\ WF_shedVars(part = "shedder" /\ ManualProb)
    /\ \A t \in Threads : WF_shedVars(part = "shedder" /\ Record(t))
=============================================================================
