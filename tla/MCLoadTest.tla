----------------------------- MODULE MCLoadTest -----------------------------
(* Model-checking instance of LoadTest: three workers, three requests.       *)
EXTENDS LoadTest
=============================================================================
