------------------------- MODULE TransactionsProofs -------------------------
(***************************************************************************)
(* The statements of Transactions implement the calls of AtomicCalls.      *)
(***************************************************************************)
EXTENDS Transactions, TLAPS

(* A running call is pending; a unit that has begun owns the transaction,  *)
(* which holds the rows it has written; and in autocommit mode the         *)
(* connection sees what is committed.                                      *)
RunningInv ==
    /\ txn = "none" => content = file
    /\ \A c \in Calls : requests[c] = NoRequest => answers[c] = "none"
    /\ running # NoCall =>
         /\ Abstract!Pending(running.call)
         /\ running.done <= Request.size
         /\ InUnit =>
              /\ IsUnit /\ txn = "open"
              /\ running.txn = "none" /\ running.content = file
              /\ content = Abstract!Written(file, Request, running.call, running.done)
         /\ IsUnit /\ ~InUnit =>
              running.done = 0 /\ running.content = content /\ running.txn = txn
         /\ Request.tool # "db_import" => ~Request.truncate_first

Inv == TypeOK /\ RunningInv

THEOREM InitInv == Init => Inv /\ Abstract!Init
  BY RunningAssumption
  DEF Init, Inv, TypeOK, RunningInv, Abstract!Init, InUnit, Abstract!RowSets

LEMMA NoRows ==
  ASSUME NEW c
  PROVE  Abstract!RowsOf(c, 0) = {}
  BY DEF Abstract!RowsOf

LEMMA MoreRows ==
  ASSUME NEW c, NEW n \in Nat
  PROVE  Abstract!RowsOf(c, n + 1) = Abstract!RowsOf(c, n) \union {<<c, n + 1>>}
  <1>1. 1 .. n + 1 = (1 .. n) \union {n + 1}
    OBVIOUS
  <1> QED
    BY <1>1 DEF Abstract!RowsOf

LEMMA RunningType ==
  ASSUME Inv, running # NoCall
  PROVE  /\ running \in Running /\ running.call \in Calls
         /\ Request \in Abstract!Requests
         /\ requests[running.call] # NoRequest /\ answers[running.call] = "none"
         /\ Request.size \in 1 .. MaxStatements
         /\ running.done \in 0 .. Request.size
  <1>1. running \in Running
    BY DEF Inv, TypeOK
  <1>2. running.call \in Calls /\ running.done \in 0 .. MaxStatements
    BY <1>1 DEF Running
  <1>3. /\ requests[running.call] # NoRequest /\ answers[running.call] = "none"
        /\ running.done <= Request.size
    BY DEF Inv, RunningInv, Abstract!Pending
  <1>4. Request \in Abstract!Requests
    BY <1>2, <1>3 DEF Request, Inv, TypeOK
  <1>5. Request.size \in 1 .. MaxStatements
    BY <1>4 DEF Abstract!Requests
  <1> QED
    BY <1>1, <1>2, <1>3, <1>4, <1>5, RunningAssumption

(* The end of a call leaves no call running.                               *)
LEMMA RespondInv ==
  ASSUME Inv, running # NoCall, NEW status \in {"ok", "error", "lost"}, Respond(status),
         file' \in Abstract!RowSets, content' \in Abstract!RowSets,
         (txn' = "none" /\ content' = file') \/ txn' = "open"
  PROVE  /\ Inv' /\ ~InUnit'
         /\ requests' = requests
         /\ answers' = [answers EXCEPT ![running.call] = status]
         /\ running' = NoCall
  BY RunningType DEF Inv, TypeOK, RunningInv, Respond, InUnit

LEMMA SubmitStep ==
  ASSUME Inv, NEW c \in Calls, Submit(c)
  PROVE  Inv' /\ Abstract!Submit(c)
  <1>1. PICK request \in Abstract!Requests :
          /\ request.tool # "db_import" => ~request.truncate_first
          /\ requests' = [requests EXCEPT ![c] = request]
    BY DEF Submit
  <1>2. /\ running = NoCall /\ requests[c] = NoRequest
        /\ running' = [ call |-> c, done |-> 0, begun |-> FALSE,
                        content |-> content, txn |-> txn ]
        /\ UNCHANGED << file, content, txn, answers >>
    BY DEF Submit
  <1>3. answers[c] = "none"
    BY <1>2 DEF Inv, RunningInv
  <1>4. /\ requests'[c] = request /\ Request' = request
        /\ running'.call = c /\ running'.done = 0 /\ running'.begun = FALSE
        /\ running'.content = content /\ running'.txn = txn
    BY <1>1, <1>2 DEF Inv, TypeOK, Request
  <1>5. request.size \in 1 .. MaxStatements /\ request # NoRequest
    BY RunningAssumption DEF Abstract!Requests
  <1>6. running' \in Running
    <2>1. content \in SUBSET (Calls \X (1 .. MaxStatements)) /\ txn \in {"none", "open"}
      BY DEF Inv, TypeOK, Abstract!RowSets
    <2>2. 0 \in 0 .. MaxStatements
      BY RunningAssumption
    <2> QED
      BY <1>2, <2>1, <2>2 DEF Running
  <1>7. TypeOK'
    BY <1>1, <1>2, <1>6 DEF Inv, TypeOK
  <1>8. ~InUnit /\ ~InUnit'
    BY <1>2, <1>4 DEF InUnit
  <1>9. RunningInv'
    BY <1>1, <1>2, <1>3, <1>4, <1>5, <1>8, RunningAssumption
    DEF Inv, TypeOK, RunningInv, Abstract!Pending
  <1>10. Abstract!Submit(c)
    BY <1>1, <1>2, <1>8 DEF Abstract!Submit
  <1> QED
    BY <1>7, <1>9, <1>10 DEF Inv

(* Before a call has an effect.                                            *)
LEMMA RefuseStep ==
  ASSUME Inv, Refuse
  PROVE  Inv' /\ \E c \in Calls : Abstract!Refused(c)
  <1>1. /\ running # NoCall /\ ~InUnit /\ Respond("error")
        /\ UNCHANGED << file, content, txn >>
    BY DEF Refuse, InUnit
  <1>2. Inv' /\ ~InUnit' /\ UNCHANGED requests
        /\ answers' = [answers EXCEPT ![running.call] = "error"]
    BY <1>1, RespondInv DEF Inv, TypeOK, RunningInv
  <1>3. Abstract!Refused(running.call)
    BY <1>1, <1>2, RunningType DEF Abstract!Refused, Abstract!Answer, Abstract!Pending
  <1> QED
    BY <1>1, <1>2, <1>3, RunningType

LEMMA BeginStep ==
  ASSUME Inv, Begin
  PROVE  Inv' /\ UNCHANGED Abstract!vars
  <1>1. /\ running # NoCall /\ IsUnit /\ ~running.begun
        /\ txn = "none" /\ txn' = "open"
        /\ content' = IF Request.truncate_first THEN {} ELSE content
        /\ running' = [running EXCEPT !.begun = TRUE]
        /\ UNCHANGED << file, requests, answers >>
    BY DEF Begin
  <1>2. ~InUnit /\ running \in Running
    BY <1>1, RunningType DEF InUnit
  <1>3. /\ running' \in Running /\ running'.begun
        /\ running'.call = running.call /\ running'.done = running.done
        /\ running'.content = running.content /\ running'.txn = running.txn
    BY <1>1, <1>2 DEF Running
  <1>4. running' # NoCall /\ InUnit'
    BY <1>3, RunningAssumption DEF InUnit
  <1>5. /\ running.done = 0 /\ running.content = content /\ running.txn = "none"
        /\ content = file
    BY <1>1, <1>2 DEF Inv, RunningInv
  <1>6. Request' = Request /\ IsUnit'
    BY <1>1, <1>3 DEF Request, IsUnit
  <1>7. content' = Abstract!Written(file, Request, running.call, 0)
    BY <1>1, <1>5, NoRows DEF Abstract!Written
  <1>8. TypeOK'
    BY <1>1, <1>3 DEF Inv, TypeOK, Abstract!RowSets
  <1>9. RunningInv'
    BY <1>1, <1>3, <1>4, <1>5, <1>6, <1>7 DEF Inv, RunningInv, Abstract!Pending, Abstract!Written
  <1>10. UNCHANGED Abstract!vars
    BY <1>1, <1>2, <1>3, <1>4, <1>5 DEF Abstract!vars
  <1> QED
    BY <1>8, <1>9, <1>10 DEF Inv

LEMMA UnitStatementStep ==
  ASSUME Inv, UnitStatement
  PROVE  Inv' /\ UNCHANGED Abstract!vars
  <1> DEFINE c == running.call
             n == running.done
  <1>1. /\ InUnit /\ n < Request.size
        /\ content' = content \union {<<c, n + 1>>}
        /\ running' = [running EXCEPT !.done = @ + 1]
        /\ UNCHANGED << file, txn, requests, answers >>
    BY DEF UnitStatement
  <1>2. running # NoCall
    BY <1>1 DEF InUnit
  <1>3. /\ running \in Running /\ c \in Calls /\ n + 1 \in 1 .. MaxStatements
        /\ n \in Nat /\ n + 1 <= Request.size
    BY <1>1, <1>2, RunningType, RunningAssumption
  <1>4. /\ running' \in Running /\ running'.begun = running.begun
        /\ running'.call = c /\ running'.done = n + 1
        /\ running'.content = running.content /\ running'.txn = running.txn
    BY <1>1, <1>3, RunningAssumption DEF Running
  <1>5. running' # NoCall /\ InUnit'
    BY <1>1, <1>4, RunningAssumption DEF InUnit
  <1>6. Request' = Request /\ (IsUnit' <=> IsUnit)
    BY <1>1, <1>4 DEF Request, IsUnit
  <1>7. content' = Abstract!Written(file, Request, c, n + 1)
    <2>1. content = Abstract!Written(file, Request, c, n)
      BY <1>1, <1>2 DEF Inv, RunningInv
    <2>2. Abstract!RowsOf(c, n + 1) = Abstract!RowsOf(c, n) \union {<<c, n + 1>>}
      BY <1>3, MoreRows
    <2> QED
      BY <1>1, <2>1, <2>2 DEF Abstract!Written
  <1>8. TypeOK'
    BY <1>1, <1>3, <1>4 DEF Inv, TypeOK, Abstract!RowSets
  <1>9. RunningInv'
    <2>1. Abstract!Written(file', Request', running'.call, running'.done) = content'
      BY <1>1, <1>4, <1>6, <1>7
    <2> QED
      BY <1>1, <1>2, <1>3, <1>4, <1>5, <1>6, <2>1 DEF Inv, RunningInv, Abstract!Pending, Abstract!Written
  <1>10. UNCHANGED Abstract!vars
    BY <1>1, <1>4, <1>5 DEF Abstract!vars
  <1> QED
    BY <1>8, <1>9, <1>10 DEF Inv

(* The ends of a unit.                                                     *)
LEMMA UnitFailsStep ==
  ASSUME Inv, UnitFails
  PROVE  Inv' /\ \E c \in Calls : Abstract!Refused(c)
  <1>1. /\ InUnit /\ running # NoCall /\ Respond("error")
        /\ content' = file /\ txn' = "none" /\ UNCHANGED file
    BY DEF UnitFails, InUnit
  <1>2. Inv' /\ ~InUnit' /\ UNCHANGED requests
        /\ answers' = [answers EXCEPT ![running.call] = "error"]
    BY <1>1, RespondInv DEF Inv, TypeOK
  <1>3. running.content = file /\ running.txn = "none"
    BY <1>1 DEF Inv, RunningInv
  <1>4. Abstract!Refused(running.call)
    BY <1>1, <1>2, <1>3, RunningType DEF Abstract!Refused, Abstract!Answer, Abstract!Pending
  <1> QED
    BY <1>1, <1>2, <1>4, RunningType

LEMMA LeakStep ==
  ASSUME Inv, BatchStatementTooLong \/ BatchCommitFails \/ EmbeddingPanics
  PROVE  Inv' /\ \E c \in Calls : Abstract!LeftOpen(c)
  <1>1. /\ InUnit /\ running # NoCall /\ Respond("error")
        /\ Request.tool \in Abstract!MayLeaveOpen
        /\ UNCHANGED << file, content, txn >>
    BY DEF BatchStatementTooLong, BatchCommitFails, EmbeddingPanics,
           Abstract!MayLeaveOpen, InUnit
  <1>2. /\ txn = "open" /\ running.content = file /\ running.txn = "none"
        /\ content = Abstract!Written(file, Request, running.call, running.done)
    BY <1>1 DEF Inv, RunningInv
  <1>3. Inv' /\ ~InUnit' /\ UNCHANGED requests
        /\ answers' = [answers EXCEPT ![running.call] = "error"]
    BY <1>1, <1>2, RespondInv DEF Inv, TypeOK
  <1>4. Abstract!LeftOpen(running.call)
    BY <1>1, <1>2, <1>3, RunningType
    DEF Abstract!LeftOpen, Abstract!Answer, Abstract!Pending, Request, Abstract!Written
  <1> QED
    BY <1>1, <1>3, <1>4, RunningType

LEMMA CommitsStep ==
  ASSUME Inv, UnitCommits
  PROVE  Inv' /\ \E c \in Calls : Abstract!Applied(c)
  <1>1. PICK status \in {"ok", "lost"} :
          /\ InUnit /\ running # NoCall /\ running.done = Request.size
          /\ Respond(status)
          /\ file' = content /\ txn' = "none" /\ UNCHANGED content
    BY DEF UnitCommits, InUnit
  <1>2. /\ IsUnit /\ running.content = file /\ running.txn = "none"
        /\ content = Abstract!Written(file, Request, running.call, running.done)
    BY <1>1 DEF Inv, RunningInv
  <1>3. Inv' /\ ~InUnit' /\ UNCHANGED requests
        /\ answers' = [answers EXCEPT ![running.call] = status]
    BY <1>1, RespondInv DEF Inv, TypeOK
  <1>4. Abstract!Applied(running.call)
    BY <1>1, <1>2, <1>3, RunningType
    DEF Abstract!Applied, Abstract!Answer, Abstract!Pending, Request, IsUnit, Abstract!Written
  <1> QED
    BY <1>1, <1>3, <1>4, RunningType

(* Statements outside a unit.                                              *)
LEMMA SteppingInv ==
  ASSUME Inv, Stepping
  PROVE  /\ running # NoCall /\ ~InUnit /\ ~running.begun
         /\ Request.tool \notin Abstract!Units
         /\ Abstract!Pending(running.call)
  BY DEF Stepping, IsUnit, InUnit, Inv, RunningInv

LEMMA NextStatementInv ==
  ASSUME Inv, Stepping, running.done < Request.size,
         running' = [running EXCEPT !.done = @ + 1],
         file' \in Abstract!RowSets, content' \in Abstract!RowSets,
         (txn' = "none" /\ content' = file') \/ txn' = "open",
         UNCHANGED << requests, answers >>
  PROVE  Inv' /\ ~InUnit'
  <1>1. /\ running # NoCall /\ ~running.begun /\ running \in Running
        /\ running.done + 1 \in 0 .. MaxStatements /\ running.done + 1 <= Request.size
    BY SteppingInv, RunningType, RunningAssumption
  <1>2. /\ running' \in Running /\ ~running'.begun
        /\ running'.call = running.call /\ running'.done = running.done + 1
    BY <1>1 DEF Running
  <1>3. running' # NoCall /\ ~InUnit'
    BY <1>2, RunningAssumption DEF InUnit
  <1>4. Request' = Request /\ ~IsUnit /\ ~IsUnit'
    BY <1>2 DEF Request, IsUnit, Stepping
  <1>5. TypeOK'
    BY <1>2 DEF Inv, TypeOK
  <1>6. RunningInv'
    BY <1>1, <1>2, <1>3, <1>4 DEF Inv, RunningInv, Abstract!Pending
  <1> QED
    BY <1>3, <1>5, <1>6 DEF Inv

LEMMA StatementStep ==
  ASSUME Inv, Statement
  PROVE  Inv' /\ \E c \in Calls : Abstract!Stepped(c)
  <1> DEFINE c == running.call
             n == running.done + 1
  <1>1. /\ Stepping /\ running.done < Request.size
        /\ content' = content \union {<<c, n>>}
        /\ file' = IF txn = "none" THEN content' ELSE file
        /\ running' = [running EXCEPT !.done = @ + 1]
        /\ UNCHANGED << txn, requests, answers >>
    BY DEF Statement
  <1>2. c \in Calls /\ n \in 1 .. Request.size /\ n \in 1 .. MaxStatements
    BY <1>1, SteppingInv, RunningType, RunningAssumption
  <1>3. content' \in Abstract!RowSets /\ file' \in Abstract!RowSets
    BY <1>1, <1>2 DEF Inv, TypeOK, Abstract!RowSets
  <1>4. Inv' /\ ~InUnit'
    <2>1. (txn' = "none" /\ content' = file') \/ txn' = "open"
      BY <1>1 DEF Inv, TypeOK
    <2> QED
      BY <1>1, <1>3, <2>1, NextStatementInv
  <1>5. Abstract!Stepped(c)
    BY <1>1, <1>2, <1>4, SteppingInv DEF Abstract!Stepped, Request
  <1> QED
    BY <1>2, <1>4, <1>5

LEMMA BeginImmediateStep ==
  ASSUME Inv, BeginImmediate
  PROVE  Inv' /\ Abstract!StartedTransaction
  <1>1. /\ Stepping /\ running.done < Request.size
        /\ txn = "none" /\ txn' = "open"
        /\ running' = [running EXCEPT !.done = @ + 1]
        /\ UNCHANGED << file, content, requests, answers >>
    BY DEF BeginImmediate
  <1>2. file' \in Abstract!RowSets /\ content' \in Abstract!RowSets
    BY <1>1 DEF Inv, TypeOK
  <1>3. Inv' /\ ~InUnit'
    BY <1>1, <1>2, NextStatementInv
  <1> QED
    BY <1>1, <1>3, SteppingInv DEF Abstract!StartedTransaction

LEMMA StatementFailsStep ==
  ASSUME Inv, StatementFails
  PROVE  Inv' /\ \E c \in Calls : Abstract!Refused(c)
  <1>1. Stepping /\ Respond("error") /\ UNCHANGED << file, content, txn >>
    BY DEF StatementFails
  <1>2. running # NoCall /\ ~InUnit
    BY <1>1, SteppingInv
  <1>3. Inv' /\ ~InUnit' /\ UNCHANGED requests
        /\ answers' = [answers EXCEPT ![running.call] = "error"]
    BY <1>1, <1>2, RespondInv DEF Inv, TypeOK, RunningInv
  <1>4. Abstract!Refused(running.call)
    BY <1>1, <1>2, <1>3, SteppingInv DEF Abstract!Refused, Abstract!Answer
  <1> QED
    BY <1>2, <1>3, <1>4, RunningType

LEMMA StatementAbortsStep ==
  ASSUME Inv, StatementAborts
  PROVE  Inv' /\ \E c \in Calls : Abstract!AbortedTransaction(c)
  <1>1. /\ Stepping /\ Respond("error")
        /\ txn = "open" /\ txn' = "none" /\ content' = file /\ UNCHANGED file
    BY DEF StatementAborts
  <1>2. running # NoCall /\ ~InUnit /\ Request.tool \notin Abstract!Units
    BY <1>1, SteppingInv
  <1>3. Inv' /\ ~InUnit' /\ UNCHANGED requests
        /\ answers' = [answers EXCEPT ![running.call] = "error"]
    BY <1>1, <1>2, RespondInv DEF Inv, TypeOK
  <1>4. Abstract!AbortedTransaction(running.call)
    BY <1>1, <1>2, <1>3, SteppingInv
    DEF Abstract!AbortedTransaction, Abstract!Answer, Request
  <1> QED
    BY <1>2, <1>3, <1>4, RunningType

LEMMA FinishStep ==
  ASSUME Inv, Finish
  PROVE  Inv' /\ \E c \in Calls : Abstract!Finished(c)
  <1>1. Stepping /\ Respond("ok") /\ UNCHANGED << file, content, txn >>
    BY DEF Finish
  <1>2. running # NoCall /\ ~InUnit /\ Request.tool \notin Abstract!Units
    BY <1>1, SteppingInv
  <1>3. Inv' /\ ~InUnit' /\ UNCHANGED requests
        /\ answers' = [answers EXCEPT ![running.call] = "ok"]
    BY <1>1, <1>2, RespondInv DEF Inv, TypeOK, RunningInv
  <1>4. Abstract!Finished(running.call)
    BY <1>1, <1>2, <1>3, SteppingInv DEF Abstract!Finished, Abstract!Answer, Request
  <1> QED
    BY <1>2, <1>3, <1>4, RunningType

(* Between calls, and the end of the process.                              *)
LEMMA IdleStep ==
  ASSUME Inv, QueryBegin \/ QueryCommit \/ QueryRollback \/ Close
  PROVE  /\ Inv'
         /\ \/ Abstract!StartedTransaction \/ Abstract!Commit
            \/ Abstract!Rollback \/ Abstract!Disconnect
  <1>1. /\ running = NoCall /\ running' = NoCall /\ ~InUnit /\ ~InUnit'
        /\ UNCHANGED << requests, answers >>
    BY DEF QueryBegin, QueryCommit, QueryRollback, Close, InUnit
  <1>2. Inv'
    BY <1>1 DEF QueryBegin, QueryCommit, QueryRollback, Close, Inv, TypeOK, RunningInv
  <1>3. CASE QueryBegin
    BY <1>1, <1>2, <1>3 DEF QueryBegin, Abstract!StartedTransaction
  <1>4. CASE QueryCommit
    BY <1>1, <1>2, <1>4 DEF QueryCommit, Abstract!Commit
  <1>5. CASE QueryRollback
    BY <1>1, <1>2, <1>5 DEF QueryRollback, Abstract!Rollback
  <1>6. CASE Close
    BY <1>1, <1>2, <1>6 DEF Close, Abstract!Disconnect, Inv, TypeOK
  <1> QED
    BY <1>3, <1>4, <1>5, <1>6

LEMMA CrashStep ==
  ASSUME Inv, Crash
  PROVE  Inv' /\ Abstract!Disconnect
  <1>1. /\ running # NoCall /\ Respond("lost")
        /\ txn' = "none" /\ content' = file /\ UNCHANGED file
    BY DEF Crash
  <1>2. Inv' /\ ~InUnit' /\ UNCHANGED requests
        /\ answers' = [answers EXCEPT ![running.call] = "lost"]
    BY <1>1, RespondInv DEF Inv, TypeOK
  <1>3. Abstract!Pending(running.call) /\ answers \in [Calls -> {"none", "ok", "error", "lost"}]
    BY <1>1 DEF Inv, RunningInv, TypeOK
  <1> QED
    BY <1>1, <1>2, <1>3 DEF Abstract!Disconnect

-----------------------------------------------------------------------------

(* Every step is a step of AtomicCalls, or stutters.                       *)
THEOREM NextInv == Inv /\ [Next]_vars => Inv' /\ [Abstract!Next]_(Abstract!vars)
  <1> SUFFICES ASSUME Inv, [Next]_vars
               PROVE  Inv' /\ [Abstract!Next]_(Abstract!vars)
    OBVIOUS
  <1>1. ASSUME NEW c \in Calls, Submit(c) PROVE Inv' /\ Abstract!Next
    BY <1>1, SubmitStep DEF Abstract!Next
  <1>2. CASE Refuse
    BY <1>2, RefuseStep DEF Abstract!Next
  <1>3. CASE Begin
    BY <1>3, BeginStep
  <1>4. CASE UnitStatement
    BY <1>4, UnitStatementStep
  <1>5. CASE UnitFails
    BY <1>5, UnitFailsStep DEF Abstract!Next
  <1>6. CASE UnitCommits
    BY <1>6, CommitsStep DEF Abstract!Next
  <1>7. CASE BatchStatementTooLong \/ BatchCommitFails \/ EmbeddingPanics
    BY <1>7, LeakStep DEF Abstract!Next
  <1>8. CASE Statement
    BY <1>8, StatementStep DEF Abstract!Next
  <1>9. CASE BeginImmediate
    BY <1>9, BeginImmediateStep DEF Abstract!Next
  <1>10. CASE StatementFails
    BY <1>10, StatementFailsStep DEF Abstract!Next
  <1>11. CASE StatementAborts
    BY <1>11, StatementAbortsStep DEF Abstract!Next
  <1>12. CASE Finish
    BY <1>12, FinishStep DEF Abstract!Next
  <1>13. CASE QueryBegin \/ QueryCommit \/ QueryRollback \/ Close
    BY <1>13, IdleStep DEF Abstract!Next
  <1>14. CASE Crash
    BY <1>14, CrashStep DEF Abstract!Next
  <1>15. CASE UNCHANGED vars
    BY <1>15
    DEF vars, Abstract!vars, Inv, TypeOK, RunningInv, InUnit, Request, IsUnit,
        Abstract!Pending
  <1> QED
    BY <1>1, <1>2, <1>3, <1>4, <1>5, <1>6, <1>7, <1>8, <1>9, <1>10, <1>11, <1>12,
       <1>13, <1>14, <1>15
    DEF Next

(* The connection's variables keep their types, and a running unit owns    *)
(* the transaction it has begun (the inductive invariant of this module).  *)
THEOREM RunningCorrect == Spec => []Inv
  BY InitInv, NextInv, PTL DEF Spec

(* Type correctness, for any number of calls and statements.               *)
THEOREM TypeCorrect == Spec => []TypeOK
  <1>1. Inv => TypeOK
    BY DEF Inv
  <1> QED
    BY <1>1, RunningCorrect, PTL

(* Statement by statement, the writing tools implement AtomicCalls: a unit *)
(* (sql_batch, db_import, vector_upsert, vector_collection_create) takes   *)
(* effect as a whole when it commits and not at all when it fails, except  *)
(* that a required batch (a statement too long, a failing COMMIT) and an   *)
(* upsert (a panicking inference) may leave their transaction open, with   *)
(* the rows written so far, for others to commit or roll back.             *)
THEOREM CallsCorrect == Spec => CallsAreAtomic
  BY InitInv, NextInv, PTL DEF Spec, CallsAreAtomic, Abstract!Spec

(* What is proved of AtomicCalls, for the call-by-call view of this state. *)
Atomic == INSTANCE AtomicCallsProofs WITH
    content <- IF InUnit THEN running.content ELSE content,
    txn <- IF InUnit THEN running.txn ELSE txn

(* Imports are whole or absent, in the file and between calls, whatever    *)
(* fails or crashes (db_import, and vector_collection_create, which is     *)
(* made like it): what AtomicCalls promises, by refinement.                *)
THEOREM ImportsCorrect == Spec => []NoPartialImport
  <1>1. Abstract!Init <=> Atomic!Init
    BY DEF Abstract!Init, Atomic!Init
  <1>2. Abstract!Next <=> Atomic!Next
    <2>1. ASSUME NEW c \in Calls
          PROVE  /\ Abstract!Submit(c) <=> Atomic!Submit(c)
                 /\ Abstract!Refused(c) <=> Atomic!Refused(c)
                 /\ Abstract!Applied(c) <=> Atomic!Applied(c)
                 /\ Abstract!LeftOpen(c) <=> Atomic!LeftOpen(c)
      BY DEF Abstract!Submit, Atomic!Submit, Abstract!Applied, Atomic!Applied,
             Abstract!Refused, Atomic!Refused, Abstract!LeftOpen,
             Atomic!LeftOpen, Abstract!MayLeaveOpen, Atomic!MayLeaveOpen, Abstract!Answer, Atomic!Answer,
             Abstract!Pending, Atomic!Pending, Abstract!Units, Atomic!Units,
             Abstract!Written, Atomic!Written, Abstract!RowsOf, Atomic!RowsOf,
             Abstract!Requests, Atomic!Requests, Abstract!Tools, Atomic!Tools
    <2>2. ASSUME NEW c \in Calls
          PROVE  /\ Abstract!Stepped(c) <=> Atomic!Stepped(c)
                 /\ Abstract!Finished(c) <=> Atomic!Finished(c)
                 /\ Abstract!AbortedTransaction(c) <=> Atomic!AbortedTransaction(c)
      BY DEF Abstract!Stepped, Atomic!Stepped, Abstract!Finished,
             Atomic!Finished, Abstract!AbortedTransaction,
             Atomic!AbortedTransaction, Abstract!Answer, Atomic!Answer,
             Abstract!Pending, Atomic!Pending, Abstract!Units, Atomic!Units,
             Abstract!Written, Atomic!Written, Abstract!RowsOf, Atomic!RowsOf,
             Abstract!Requests, Atomic!Requests, Abstract!Tools, Atomic!Tools
    <2>3. /\ Abstract!StartedTransaction <=> Atomic!StartedTransaction
          /\ Abstract!Commit <=> Atomic!Commit
          /\ Abstract!Rollback <=> Atomic!Rollback
          /\ Abstract!Disconnect <=> Atomic!Disconnect
      BY DEF Abstract!StartedTransaction, Atomic!StartedTransaction,
             Abstract!Commit, Atomic!Commit, Abstract!Rollback,
             Atomic!Rollback, Abstract!Disconnect, Atomic!Disconnect,
             Abstract!Answer, Atomic!Answer, Abstract!Pending, Atomic!Pending,
             Abstract!Units, Atomic!Units, Abstract!Written, Atomic!Written,
             Abstract!RowsOf, Atomic!RowsOf, Abstract!Requests,
             Atomic!Requests, Abstract!Tools, Atomic!Tools
    <2> QED
      BY <2>1, <2>2, <2>3 DEF Abstract!Next, Atomic!Next
  <1>3. Abstract!vars = Atomic!vars
    BY DEF Abstract!vars, Atomic!vars
  <1>4. [Abstract!Next]_(Abstract!vars) => [Atomic!Next]_(Atomic!vars)
    BY <1>2, <1>3 DEF Abstract!vars, Atomic!vars
  <1>5. Atomic!ImportsAreWhole => NoPartialImport
    BY DEF Atomic!ImportsAreWhole, NoPartialImport, Abstract!ImportsAreWhole,
           Abstract!RowsOf, Atomic!RowsOf
  <1>6. Atomic!CallsAssumption
    BY RunningAssumption DEF Atomic!CallsAssumption, Atomic!Requests, Abstract!Requests, Atomic!Tools, Abstract!Tools
  <1>7. Atomic!Spec => []Atomic!ImportsAreWhole
    BY <1>6, Atomic!ImportsWhole
  <1> QED
    BY <1>1, <1>4, <1>5, <1>7, CallsCorrect, PTL
    DEF CallsAreAtomic, Abstract!Spec, Atomic!Spec

(* A unit that meets another client's transaction leaves it as it was      *)
(* (sql_batch refuses, BEGIN IMMEDIATE fails inside a transaction).        *)
THEOREM OthersTransactionCorrect == Spec => OthersTransactionKept
  <1> DEFINE Met == /\ running # NoCall /\ running' = NoCall
                    /\ IsUnit /\ running.txn = "open"
                    /\ answers'[running.call] # "lost"
             Kept == file' = file /\ content' = running.content /\ txn' = "open"
  <1>1. Inv /\ [Next]_vars => [Met => Kept]_vars
    <2> SUFFICES ASSUME Inv, Next, Met PROVE Kept
      OBVIOUS
    <2>1. ~InUnit /\ IsUnit /\ running # NoCall /\ running' = NoCall
      BY DEF Inv, RunningInv
    <2>2. running.content = content /\ txn = "open"
      BY <2>1 DEF Inv, RunningInv
    <2>3. CASE Refuse
      BY <2>2, <2>3 DEF Refuse
    <2>4. CASE Crash
      BY <2>4, RunningType DEF Crash, Respond, Inv, TypeOK
    <2>5. CASE UnitStatement \/ UnitFails \/ UnitCommits
                 \/ BatchStatementTooLong \/ BatchCommitFails \/ EmbeddingPanics
      BY <2>1, <2>5
      DEF UnitStatement, UnitFails, UnitCommits, BatchStatementTooLong, BatchCommitFails,
          EmbeddingPanics
    <2>6. CASE Statement \/ BeginImmediate \/ StatementFails \/ StatementAborts \/ Finish
      BY <2>1, <2>6
      DEF Statement, BeginImmediate, StatementFails, StatementAborts, Finish, Stepping
    <2>7. CASE Begin
      BY <2>2, <2>7 DEF Begin
    <2>8. CASE \/ \E c \in Calls : Submit(c)
               \/ QueryBegin \/ QueryCommit \/ QueryRollback \/ Close
      BY <2>1, <2>8 DEF Submit, QueryBegin, QueryCommit, QueryRollback, Close
    <2> QED
      BY <2>3, <2>4, <2>5, <2>6, <2>7, <2>8 DEF Next
  <1> QED
    BY <1>1, RunningCorrect, PTL DEF Spec, OthersTransactionKept
=============================================================================
