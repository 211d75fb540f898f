---------------------------- MODULE Transactions ----------------------------
(***************************************************************************)
(* The statements of the writing tools, one by one, on the connection they *)
(* share: sql_execute, sql_batch, db_import (with                          *)
(* vector_collection_create), vector_upsert and the transaction control    *)
(* that sql_query accepts, with every place where a call may fail.         *)
(*                                                                         *)
(* One call runs at a time (run_blocking holds the registry), so calls of  *)
(* different clients interleave as wholes; the process may die between any *)
(* two statements.                                                         *)
(***************************************************************************)
EXTENDS Naturals, FiniteSets

CONSTANTS Calls, MaxStatements, NoRequest, NoCall

VARIABLES
    file,      \* the committed content
    content,   \* the content as the connection sees it
    txn,       \* "open" when the connection is not in autocommit mode
    requests,
    answers,
    running    \* the call under the registry's lock

vars == << file, content, txn, requests, answers, running >>

(* A running call: how many rows it has written, whether it has begun its  *)
(* own transaction, and (history) the content and the transaction it met.  *)
Running == [ call : Calls, done : 0 .. MaxStatements, begun : BOOLEAN,
             content : SUBSET (Calls \X (1 .. MaxStatements)), txn : {"none", "open"} ]

InUnit == running # NoCall /\ running.begun

(* A unit has no effect before it ends.                                    *)
Abstract == INSTANCE AtomicCalls WITH
    content <- IF InUnit THEN running.content ELSE content,
    txn <- IF InUnit THEN running.txn ELSE txn

ASSUME RunningAssumption ==
    /\ MaxStatements \in Nat \ {0}
    /\ NoRequest \notin Abstract!Requests
    /\ NoCall \notin Running

Request == requests[running.call]

IsUnit == Request.tool \in Abstract!Units

TypeOK ==
    /\ file \in Abstract!RowSets
    /\ content \in Abstract!RowSets
    /\ txn \in {"none", "open"}
    /\ requests \in [Calls -> Abstract!Requests \union {NoRequest}]
    /\ answers \in [Calls -> {"none", "ok", "error", "lost"}]
    /\ running \in Running \union {NoCall}

Init ==
    /\ file = {} /\ content = {} /\ txn = "none"
    /\ requests = [c \in Calls |-> NoRequest]
    /\ answers = [c \in Calls |-> "none"]
    /\ running = NoCall

-----------------------------------------------------------------------------
(* The life of a call                                                      *)

(* Only imports have truncate_first; sql_execute has one statement.        *)
Submit(c) ==
    /\ running = NoCall
    /\ requests[c] = NoRequest
    /\ \E request \in Abstract!Requests :
         /\ request.tool # "db_import" => ~request.truncate_first
         /\ request.tool = "sql_execute" => request.size = 1
         /\ requests' = [requests EXCEPT ![c] = request]
    /\ running' = [ call |-> c, done |-> 0, begun |-> FALSE,
                    content |-> content, txn |-> txn ]
    /\ UNCHANGED << file, content, txn, answers >>

Respond(status) ==
    /\ answers' = [answers EXCEPT ![running.call] = status]
    /\ running' = NoCall
    /\ UNCHANGED requests

(* Deliberately wrong: a failing BEGIN is rolled back like any statement.  *)
RefuseRollingBack ==
    /\ running # NoCall /\ ~running.begun /\ running.done = 0
    /\ Respond("error")
    /\ content' = file /\ txn' = "none"
    /\ UNCHANGED file

(* Errors before the first statement: invalid input, limits, an unknown    *)
(* db_id, a missing confirmation; for a unit also BEGIN IMMEDIATE, which   *)
(* fails inside a transaction (or is not even tried, by sql_batch) and     *)
(* when another connection holds the write lock.                           *)
Refuse ==
    /\ running # NoCall /\ ~running.begun /\ running.done = 0
    /\ Respond("error")
    /\ UNCHANGED << file, content, txn >>

-----------------------------------------------------------------------------
(* Units                                                                   *)

(* BEGIN IMMEDIATE, and the DELETE of truncate_first.                      *)
Begin ==
    /\ running # NoCall /\ IsUnit /\ ~running.begun
    /\ txn = "none" /\ txn' = "open"
    /\ content' = IF Request.truncate_first THEN {} ELSE content
    /\ running' = [running EXCEPT !.begun = TRUE]
    /\ UNCHANGED << file, requests, answers >>

(* Deliberately wrong: one statement too many.                             *)
UnitStatementOffByOne ==
    /\ InUnit /\ running.done <= Request.size
    /\ content' = content \union {<<running.call, running.done + 1>>}
    /\ running' = [running EXCEPT !.done = @ + 1]
    /\ UNCHANGED << file, txn, requests, answers >>

(* Deliberately wrong: an import commits after every batch_size rows.      *)
UnitStatementCommitting ==
    /\ InUnit /\ running.done < Request.size
    /\ content' = content \union {<<running.call, running.done + 1>>}
    /\ file' = content'
    /\ running' = [running EXCEPT !.done = @ + 1]
    /\ UNCHANGED << txn, requests, answers >>

UnitStatement ==
    /\ InUnit /\ running.done < Request.size
    /\ content' = content \union {<<running.call, running.done + 1>>}
    /\ running' = [running EXCEPT !.done = @ + 1]
    /\ UNCHANGED << file, txn, requests, answers >>

(* Deliberately wrong: the error is returned without ROLLBACK.             *)
UnitFailsInTransaction ==
    /\ InUnit
    /\ Respond("error")
    /\ UNCHANGED << file, content, txn >>

(* An error after BEGIN: a statement that may not run or that fails (and   *)
(* may already have made SQLite roll back), or the size limit.  ROLLBACK   *)
(* follows, and the error is returned whether or not ROLLBACK finds a      *)
(* transaction to end.                                                     *)
UnitFails ==
    /\ InUnit
    /\ content' = file /\ txn' = "none"
    /\ Respond("error")
    /\ UNCHANGED file

(* sql_batch returns at once when a statement is too long.                 *)
BatchStatementTooLong ==
    /\ InUnit /\ Request.tool = "sql_batch_required" /\ running.done < Request.size
    /\ Respond("error")
    /\ UNCHANGED << file, content, txn >>

(* vector_upsert embeds each item before it writes it.  When the inference *)
(* panics, neither ROLLBACK nor COMMIT is reached; the call is answered    *)
(* with an error, and the next one finds the transaction open.             *)
EmbeddingPanics ==
    /\ InUnit /\ Request.tool = "vector_upsert" /\ running.done < Request.size
    /\ Respond("error")
    /\ UNCHANGED << file, content, txn >>

(* The process may die before it can answer.                               *)
UnitCommits ==
    /\ InUnit /\ running.done = Request.size
    /\ file' = content /\ txn' = "none"
    /\ Respond("ok") \/ Respond("lost")
    /\ UNCHANGED content

(* COMMIT fails, with the transaction still open: a deferred constraint is *)
(* violated or another connection is reading the file.  db_import rolls    *)
(* back (UnitFails), sql_batch does not.                                   *)
BatchCommitFails ==
    /\ InUnit /\ Request.tool = "sql_batch_required" /\ running.done = Request.size
    /\ Respond("error")
    /\ UNCHANGED << file, content, txn >>

-----------------------------------------------------------------------------
(* sql_execute, and sql_batch without a transaction                        *)

Stepping == running # NoCall /\ ~IsUnit

Statement ==
    /\ Stepping /\ running.done < Request.size
    /\ content' = content \union {<<running.call, running.done + 1>>}
    /\ file' = IF txn = "none" THEN content' ELSE file
    /\ running' = [running EXCEPT !.done = @ + 1]
    /\ UNCHANGED << txn, requests, answers >>

(* BEGIN IMMEDIATE is a statement that is not read-only.                   *)
BeginImmediate ==
    /\ Stepping /\ running.done < Request.size
    /\ txn = "none" /\ txn' = "open"
    /\ running' = [running EXCEPT !.done = @ + 1]
    /\ UNCHANGED << file, content, requests, answers >>

(* The statement fails, or the size limit does after it has taken effect.  *)
StatementFails ==
    /\ Stepping
    /\ Respond("error")
    /\ UNCHANGED << file, content, txn >>

StatementAborts ==
    /\ Stepping /\ running.done < Request.size
    /\ txn = "open" /\ txn' = "none"
    /\ content' = file
    /\ Respond("error")
    /\ UNCHANGED file

Finish ==
    /\ Stepping /\ running.done = Request.size
    /\ Respond("ok")
    /\ UNCHANGED << file, content, txn >>

-----------------------------------------------------------------------------
(* sql_query executes BEGIN, COMMIT and ROLLBACK, which are read-only to   *)
(* SQLite.  A failing one changes nothing.                                 *)

QueryBegin ==
    /\ running = NoCall
    /\ txn = "none" /\ txn' = "open"
    /\ UNCHANGED << file, content, requests, answers, running >>

QueryCommit ==
    /\ running = NoCall
    /\ txn = "open" /\ txn' = "none"
    /\ file' = content
    /\ UNCHANGED << content, requests, answers, running >>

QueryRollback ==
    /\ running = NoCall
    /\ txn = "open" /\ txn' = "none"
    /\ content' = file
    /\ UNCHANGED << file, requests, answers, running >>

(* db_close and db_open with reset drop the connection, and SQLite rolls   *)
(* its transaction back.                                                   *)
Close ==
    /\ running = NoCall
    /\ txn' = "none" /\ content' = file
    /\ UNCHANGED << file, requests, answers, running >>

(* The process dies and is started again on the same file.                 *)
Crash ==
    /\ running # NoCall
    /\ txn' = "none" /\ content' = file
    /\ Respond("lost")
    /\ UNCHANGED file

Next ==
    \/ \E c \in Calls : Submit(c)
    \/ Refuse
    \/ Begin \/ UnitStatement \/ UnitFails \/ UnitCommits
    \/ BatchStatementTooLong \/ BatchCommitFails \/ EmbeddingPanics
    \/ Statement \/ BeginImmediate \/ StatementFails \/ StatementAborts \/ Finish
    \/ QueryBegin \/ QueryCommit \/ QueryRollback
    \/ Close \/ Crash

Spec == Init /\ [][Next]_vars

-----------------------------------------------------------------------------
(* Properties                                                              *)

(* Statement by statement, with errors, aborts and crashes anywhere, calls *)
(* do what AtomicCalls says: units take effect as a whole when they are    *)
(* acknowledged and not at all when they fail; only a required batch and   *)
(* an upsert whose embedding panics may leave the rows written so far, in  *)
(* a transaction that stays open and whose fate others decide.             *)
CallsAreAtomic == Abstract!Spec

(* No interleaving of calls, commits by other clients, failures and        *)
(* crashes leaves a part of an import in the file (db_import: failures     *)
(* roll back).                                                             *)
NoPartialImport == Abstract!ImportsAreWhole

(* A unit that meets the transaction of some client neither ends it nor    *)
(* adds to it (sql_batch refuses, BEGIN IMMEDIATE fails).                  *)
OthersTransactionKept ==
    [][running # NoCall /\ running' = NoCall /\ IsUnit /\ running.txn = "open"
         /\ answers'[running.call] # "lost"
       => file' = file /\ content' = running.content /\ txn' = "open"]_vars

(* The documented promise of sql_batch: with transaction="required", any   *)
(* error triggers rollback.                                                *)
RequiredBatchRollsBack ==
    [][running # NoCall /\ running' = NoCall /\ Request.tool = "sql_batch_required"
         /\ answers'[running.call] = "error"
       => content' = running.content /\ txn' = running.txn]_vars
=============================================================================
