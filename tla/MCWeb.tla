------------------------------- MODULE MCWeb -------------------------------
(* Model-checking instance of the HTTP side: the server with its middleware, *)
(* and the WebSocket manager with two connections.  They share no state: a   *)
(* behaviour is one of either (`part`).                                      *)
EXTENDS RestServer, WsManager

CONSTANT Parts     \* the components a run looks at
VARIABLE part

CONSTANTS r1, r2

\* A valid GET, and requests that differ from it in what one layer looks at.
Good == [route |-> "/a", method |-> "GET", rid |-> NoReq, trace |-> NoReq, sig |-> "good",
         jwt |-> "valid", declared |-> 0, size |-> 1, headers |-> TRUE, json |-> "matches",
         key |-> "none", tenant |-> "none", canary |-> "none"]

Anonymous == [Good EXCEPT !.jwt = "none"]
Keyed     == [Good EXCEPT !.method = "POST", !.key = "k", !.tenant = "t", !.rid = r1]
KeyedBad  == [Keyed EXCEPT !.json = "breaks", !.canary = "cookie"]
Large     == [Good EXCEPT !.method = "POST", !.size = 3, !.sig = "old"]
OtherPath == [Good EXCEPT !.route = "/b"]
Probe     == [Anonymous EXCEPT !.route = "/health"]

\* Builder scripts, innermost layer first.  The second caches outside its gates; the
\* third adds a route that only its last layer wraps.
Cached ==
    <<<<"route", "/a">>, <<"layer", "cache">>, <<"layer", "idempotency">>, <<"layer", "schema">>,
      <<"layer", "error">>, <<"layer", "request_id">>>>
Gated ==
    <<<<"route", "/a">>, <<"layer", "jwt">>, <<"layer", "limit">>, <<"layer", "trace">>,
      <<"layer", "cache">>, <<"layer", "canary">>>>
TwoRoutes ==
    <<<<"route", "/a">>, <<"layer", "idempotency">>, <<"layer", "validation">>,
      <<"layer", "signature">>, <<"layer", "tenant">>, <<"route", "/b">>, <<"layer", "error">>>>

\* A script and two requests that meet in its cache, its key store, or not at all.
Scenarios ==
    {<<Cached, Good, Good>>, <<Cached, Keyed, Keyed>>, <<Cached, Keyed, KeyedBad>>,
     <<Gated, Good, Anonymous>>, <<Gated, Large, Probe>>,
     <<TwoRoutes, Keyed, Keyed>>, <<TwoRoutes, Large, Probe>>, <<TwoRoutes, OtherPath, KeyedBad>>}

InputOf(x) == (r1 :> x[2]) @@ (r2 :> x[3])
MCInputs == {InputOf(x) : x \in Scenarios}
MCSetups == {x[1] : x \in Scenarios}

Init ==
    /\ part \in Parts /\ RestInit /\ WsInit
    /\ <<input, layersOf>> \in
          {<<InputOf(x), RouterOf(x[1])>> :
             x \in IF part = "rest" THEN Scenarios
                   ELSE {<<Cached, Good, Good>>}}       \* not looked at

Next ==
    /\ UNCHANGED part
    /\ \/ part = "rest" /\ RestNext /\ UNCHANGED wsVars
       \/ part = "websocket" /\ WsNext /\ UNCHANGED restVars

Spec ==
    /\ Init /\ [][Next]_<<part, restVars, wsVars>>
    /\ WF_restVars(part = "rest" /\ RestTick)
    /\ WF_restVars(part = "rest" /\ Timer) /\ WF_restVars(part = "rest" /\ Drained)
    /\ WF_wsVars(part = "websocket" /\ WsTick)
    /\ \A c \in Clients :
          /\ SF_wsVars(part = "websocket" /\ Retransmit(c))
          /\ WF_wsVars(part = "websocket" /\ Task(c))
=============================================================================
