---------------------------- MODULE AtomicCalls -----------------------------
(***************************************************************************)
(* What the writing tools promise about one database, whatever statements  *)
(* they are made of: every call takes effect in one step, and the file     *)
(* holds whole calls.                                                      *)
(*                                                                         *)
(* All clients share the connection of a db_id (get_connection), and with  *)
(* it the transaction one of them may have opened.  Content is a set of    *)
(* rows; a row is named by the call that writes it and its position there. *)
(***************************************************************************)
EXTENDS Naturals, FiniteSets

CONSTANTS
    Calls,           \* identities of calls, each used once
    MaxStatements,   \* SQLITE_MAX_STATEMENTS, and SQLITE_MAX_ROWS of imports
    NoRequest

(* sql_batch is two tools, by its transaction mode.  db_import also stands *)
(* for vector_collection_create, which is made alike.                      *)
Tools == {"sql_execute", "sql_batch_none", "sql_batch_required", "db_import",
          "vector_upsert"}

Requests == [ tool : Tools, size : 1 .. MaxStatements, truncate_first : BOOLEAN ]

(* What the proofs need; Transactions assumes it of its instance.          *)
CallsAssumption ==
    /\ MaxStatements \in Nat \ {0}
    /\ NoRequest \notin Requests

VARIABLES
    file,      \* the committed content
    content,   \* the content as the connection sees it
    txn,       \* "none" in autocommit mode, "open" in a transaction
    requests,  \* the request of every call made so far
    answers    \* what became of it

vars == << file, content, txn, requests, answers >>

(* Tools that run their statements in a transaction of their own.          *)
Units == {"sql_batch_required", "db_import", "vector_upsert"}

(* The units that do not roll back whatever happens to them.               *)
MayLeaveOpen == {"sql_batch_required", "vector_upsert"}

RowsOf(c, n) == {c} \X (1 .. n)

(* The content after the first n rows of a call, out of content old.       *)
Written(old, request, c, n) ==
    (IF request.truncate_first THEN {} ELSE old) \union RowsOf(c, n)

RowSets == SUBSET (Calls \X (1 .. MaxStatements))

TypeOK ==
    /\ file \in RowSets
    /\ content \in RowSets
    /\ txn \in {"none", "open"}
    /\ requests \in [Calls -> Requests \union {NoRequest}]
    /\ answers \in [Calls -> {"none", "ok", "error", "lost"}]

Init ==
    /\ file = {} /\ content = {} /\ txn = "none"
    /\ requests = [c \in Calls |-> NoRequest]
    /\ answers = [c \in Calls |-> "none"]

Pending(c) == requests[c] # NoRequest /\ answers[c] = "none"

Submit(c) ==
    /\ requests[c] = NoRequest
    /\ \E request \in Requests : requests' = [requests EXCEPT ![c] = request]
    /\ UNCHANGED << file, content, txn, answers >>

Answer(c, status) ==
    /\ Pending(c)
    /\ answers' = [answers EXCEPT ![c] = status]
    /\ UNCHANGED requests

(* All of a unit takes effect, and is committed when it is acknowledged    *)
(* (or would have been, had the process lived).                            *)
Applied(c) ==
    /\ Answer(c, "ok") \/ Answer(c, "lost")
    /\ requests[c].tool \in Units
    /\ txn = "none" /\ UNCHANGED txn
    /\ content' = Written(content, requests[c], c, requests[c].size)
    /\ file' = content'

(* Nothing of the call takes effect; a transaction it meets stays open.    *)
Refused(c) ==
    /\ Answer(c, "error")
    /\ UNCHANGED << file, content, txn >>

(* The exceptions: a required batch that fails, and an upsert whose        *)
(* embedding panics, may leave their transaction open with the rows they   *)
(* have written so far, for whoever ends it.                               *)
LeftOpen(c) ==
    /\ Answer(c, "error")
    /\ requests[c].tool \in MayLeaveOpen
    /\ txn = "none" /\ txn' = "open"
    /\ \E n \in 0 .. requests[c].size :
         content' = Written(content, requests[c], c, n)
    /\ UNCHANGED file

(* The other tools: one statement after the other, each committed at once  *)
(* unless a transaction is open.                                           *)
Stepped(c) ==
    /\ Pending(c) /\ requests[c].tool \notin Units
    /\ \E n \in 1 .. requests[c].size : content' = content \union {<<c, n>>}
    /\ file' = IF txn = "none" THEN content' ELSE file
    /\ UNCHANGED << txn, requests, answers >>

StartedTransaction ==
    /\ txn = "none" /\ txn' = "open"
    /\ UNCHANGED << file, content, requests, answers >>

Finished(c) ==
    /\ Answer(c, "ok")
    /\ requests[c].tool \notin Units
    /\ UNCHANGED << file, content, txn >>

(* SQLite ends the transaction when a statement fails badly enough.        *)
AbortedTransaction(c) ==
    /\ Answer(c, "error")
    /\ requests[c].tool \notin Units
    /\ txn = "open" /\ txn' = "none"
    /\ content' = file
    /\ UNCHANGED file

(* COMMIT and ROLLBACK by sql_query.                                       *)
Commit ==
    /\ txn = "open" /\ txn' = "none"
    /\ file' = content
    /\ UNCHANGED << content, requests, answers >>

Rollback ==
    /\ txn = "open" /\ txn' = "none"
    /\ content' = file
    /\ UNCHANGED << file, requests, answers >>

(* The connection is closed or reset, or the process dies, with the calls  *)
(* that are under way.                                                     *)
Disconnect ==
    /\ txn' = "none"
    /\ content' = file
    /\ answers' \in [Calls -> {"none", "ok", "error", "lost"}]
    /\ \A c \in Calls : answers'[c] # answers[c] => Pending(c) /\ answers'[c] = "lost"
    /\ UNCHANGED << file, requests >>

Next ==
    \/ \E c \in Calls :
         \/ Submit(c) \/ Applied(c) \/ Refused(c) \/ LeftOpen(c)
         \/ Stepped(c) \/ Finished(c) \/ AbortedTransaction(c)
    \/ StartedTransaction \/ Commit \/ Rollback \/ Disconnect

Spec == Init /\ [][Next]_vars

-----------------------------------------------------------------------------

(* The rows of an import are there as a whole or not at all, in the file   *)
(* and on the connection, and not at all when it has failed.               *)
ImportsAreWhole ==
    \A c \in Calls :
        requests[c] # NoRequest /\ requests[c].tool = "db_import" =>
            \A rows \in {file, content} :
                LET written == rows \intersect RowsOf(c, MaxStatements)
                IN \/ written = {}
                   \/ answers[c] \in {"ok", "lost"} /\ written = RowsOf(c, requests[c].size)
=============================================================================
