------------------------ MODULE MCTransactionalQueue ------------------------
(* Model-checking instance of TransactionalQueue: two sweepers, each with    *)
(* batches shorter than the table.                                           *)
EXTENDS TransactionalQueue
=============================================================================
