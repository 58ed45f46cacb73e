------------------------------- MODULE MCRpc -------------------------------
(* Model-checking instance of registry and clients.  Part "discovery": a     *)
(* program that keeps its registration handle and an RpcServer.  Part "rpc": *)
(* callers that share an RpcClient while instances registered by other means *)
(* come and go.                                                              *)
EXTENDS RpcClient

CONSTANTS o, s, f1, f2
VARIABLE part

\* The order of the keys in etcd.
MCKeyOrder == <<f1, o, f2, s>>

\* Only round robin looks at `shared`.
Init ==
    /\ part \in {"rpc", "discovery"} /\ RpcInit
    /\ load_balance # "RoundRobin" => shared = FALSE
    /\ part # "rpc" => load_balance = "First"              \* not looked at

Next ==
    /\ UNCHANGED part
    /\ \/ part = "rpc" /\ RpcNext /\ UNCHANGED server
       \/ /\ part = "discovery" /\ DiscNext
          /\ UNCHANGED clientVars /\ \A i \in Foreign : entry'[i] = entry[i]

Spec ==
    /\ Init /\ [][Next]_<<part, rpcVars>>
    /\ \A c \in Callers :
          /\ WF_rpcVars(part = "rpc" /\ Discover(c))
          /\ WF_rpcVars(part = "rpc" /\ (Select(c) \/ TimedOut(c) \/ Backoff(c)))
    /\ WF_discVars(part = "discovery" /\ Tick)
    /\ \A i \in Registering : /\ WF_discVars(part = "discovery" /\ Cancelled(i))
                              /\ WF_discVars(part = "discovery" /\ KeepAlive(i))
=============================================================================
