----------------------------- MODULE MCDispatch -----------------------------
(***************************************************************************)
(* Instance of Dispatch: two databases of one file, and requests of every  *)
(* group of tools.                                                         *)
(***************************************************************************)
EXTENDS Dispatch

MixedRequests ==
    { [tool |-> "begin", db |-> "a"], [tool |-> "commit", db |-> "a"],
      [tool |-> "sql_execute", db |-> "b"], [tool |-> "vector_upsert", db |-> "a"],
      [tool |-> "vector_status", db |-> "a"], [tool |-> "vector_search", db |-> "a"],
      [tool |-> "queue_wait", db |-> "a"], [tool |-> "db_open", db |-> "a"],
      [tool |-> "sql_batch_required", db |-> "a"] }
=============================================================================
