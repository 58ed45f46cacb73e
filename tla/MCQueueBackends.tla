--------------------------- MODULE MCQueueBackends --------------------------
(* Model-checking instance of QueueBackends: two subscribers beside a        *)
(* puller, so that both ways to consume compete for the same messages.       *)
EXTENDS QueueBackends
=============================================================================
