------------------------------ MODULE Dispatch ------------------------------
(***************************************************************************)
(* How the server runs its tools: an async handler hands a closure to the  *)
(* thread pool, the closure locks the registry, then the cursors, works    *)
(* and unlocks them in reverse, and the handler answers; queue_wait does   *)
(* so again and again.  Clients disconnect, the process dies and starts    *)
(* again, and SQLite waits a bounded time for the lock of a file that two  *)
(* db_ids and other programs share.                                        *)
(*                                                                         *)
(* The other modules take the work of a closure as one action; here it is  *)
(* a sequence of steps, and the locks make it one.                         *)
(***************************************************************************)
EXTENDS Runtimes, Naturals, Sequences

CONSTANTS
    Clients,        \* each with at most one call at a time
    Dbs,            \* open databases, all of the same file
    Requests,       \* the requests made: a tool and a database
    MaxPolls,       \* polls of a queue_wait before its timeout
    Versions,       \* versions are counted modulo this
    NoClient,
    NoRequest

VARIABLES
    process,        \* "down", "unpacking" the runtime library, or "up"
    requests,       \* the tool and the database of a client's call
    pc,             \* where the call is
    polls,          \* closures a queue_wait has had
    answers,        \* how its closure has ended
    waiters,        \* threads waiting for the registry (tokio's mutex is fair)
    registry,       \* the call that holds the lock of the registry
    cursors,        \* the call that holds the lock of the cursors
    version,        \* of registry, cursors and databases: one more with every call
    seen,           \* the version a closure has read and works on
    file,           \* who holds the write lock of the file: a db_id or another program
    opener,         \* (history) why a db_id has it: its client, its unit, what ended it
    reported        \* (history) backends a prewarm of this process called ready

lockVars == << waiters, registry, cursors >>
callVars == << requests, pc, polls, answers >>
fileVars == << file, opener >>
dataVars == << version, seen >>
vars == << process, callVars, lockVars, dataVars, fileVars, runtimeVars, reported >>

(* Handlers of a group differ in the work of their closures only.          *)
DbTools == {"db_open", "db_list", "db_close"}
Reads == {"sql_query", "vector_collection_list"}
Writes == {"sql_execute", "sql_batch_none", "queue_push"}
PlainUnits ==       \* BEGIN to COMMIT, without a model
    {"db_import", "vector_collection_create", "sql_batch_required"}
Controls == {"begin", "commit"}     \* statements of sql_query and sql_execute
Units == {"vector_upsert"}
AllTools == DbTools \union Reads \union Writes \union PlainUnits \union Controls \union Units \union
            {"vector_search", "vector_status", "queue_wait"}

ASSUME DispatchAssumption ==
    /\ NoClient \notin Clients
    /\ Versions \in Nat \ {0} /\ MaxPolls \in Nat
    /\ Requests \subseteq [tool : AllTools, db : Dbs]
    /\ NoRequest \notin Requests
    /\ "none" \notin Dbs /\ "other" \notin Dbs

(* Places under the locks, and those of a call that is on its way.         *)
Working == {"running", "file", "unit", "ranking", "unlock cursors"}
Locked == Working \union {"cursors", "unlock registry"}
OnThread == Locked \union {"registry"}
Places == OnThread \union {"idle", "spawned", "sleeping"}

Results == {"ok", "partial", "again", "error", "busy", "internal"}
Effects == {"ok", "partial"}
Openers == {"nobody", "client", "unit", "panic", "batch"}

TypeOK ==
    /\ RuntimesTypeOK
    /\ process \in {"down", "unpacking", "up"}
    /\ requests \in [Clients -> Requests \union {NoRequest}]
    /\ pc \in [Clients -> Places]
    /\ polls \in [Clients -> 0 .. MaxPolls]
    /\ answers \in [Clients -> Results \union {"none"}]
    /\ waiters \in Seq(Clients)
    /\ registry \in Clients \union {NoClient}
    /\ cursors \in Clients \union {NoClient}
    /\ version \in 0 .. Versions - 1
    /\ seen \in [Clients -> 0 .. Versions - 1]
    /\ file \in Dbs \union {"none", "other"}
    /\ opener \in Openers
    /\ reported \subseteq Backends

Init ==
    /\ process = "down"
    /\ library = "absent" /\ dylib = FALSE /\ models = NotLoaded
    /\ requests = [c \in Clients |-> NoRequest]
    /\ pc = [c \in Clients |-> "idle"]
    /\ polls = [c \in Clients |-> 0]
    /\ answers = [c \in Clients |-> "none"]
    /\ waiters = << >>
    /\ registry = NoClient /\ cursors = NoClient
    /\ version = 0 /\ seen = [c \in Clients |-> 0]
    /\ file = "none" /\ opener = "nobody"
    /\ reported = {}

Go(c, place) == pc' = [pc EXCEPT ![c] = place]

-----------------------------------------------------------------------------
(* The process                                                             *)

(* Serving begins with the models prewarm_startup could load.              *)
Serve(found, whole) ==
    /\ process' = "up"
    /\ dylib' = found
    /\ models' \in Startup(whole)

(* A failure to find or download the library is logged and nothing else.   *)
Start ==
    /\ process = "down"
    /\ \/ Present /\ Serve(TRUE, library = "whole")
       \/ ~Present /\ Serve(FALSE, FALSE)
       \/ ~Present /\ process' = "unpacking" /\ UNCHANGED << dylib, models >>
    /\ UNCHANGED << library, callVars, lockVars, dataVars, fileVars, reported >>

Unpack ==
    /\ process = "unpacking"
    /\ \/ UnpackPart /\ UNCHANGED << process, dylib, models >>
       \/ UnpackRest /\ (Serve(TRUE, TRUE) \/ Serve(FALSE, FALSE))
       \/ UNCHANGED library /\ Serve(FALSE, FALSE)
    /\ UNCHANGED << callVars, lockVars, dataVars, fileVars, reported >>

(* The process dies.  SQLite drops the locks of its connections; calls end *)
(* without an answer, and what they have applied to the files stays.       *)
Crash ==
    /\ process # "down"
    /\ process' = "down"
    /\ dylib' = FALSE /\ models' = NotLoaded /\ reported' = {}
    /\ requests' = [c \in Clients |-> NoRequest]
    /\ answers' = [c \in Clients |-> "none"]
    /\ pc' = [c \in Clients |-> "idle"]
    /\ polls' = [c \in Clients |-> 0]
    /\ seen' = [c \in Clients |-> 0]
    /\ waiters' = << >>
    /\ registry' = NoClient /\ cursors' = NoClient
    /\ file' = IF file \in Dbs THEN "none" ELSE file
    /\ opener' = "nobody"
    /\ UNCHANGED << library, version >>

-----------------------------------------------------------------------------
(* The way of a closure                                                    *)

(* A handler spawns its closure; the blocking pool has threads enough.     *)
Submit(c) ==
    /\ process = "up" /\ pc[c] = "idle"
    /\ \E request \in Requests : requests' = [requests EXCEPT ![c] = request]
    /\ Go(c, "spawned")
    /\ UNCHANGED << process, polls, answers, lockVars, dataVars, fileVars, runtimeVars, reported >>

StartThread(c) ==
    /\ pc[c] = "spawned"
    /\ waiters' = Append(waiters, c) /\ Go(c, "registry")
    /\ UNCHANGED << process, requests, polls, answers, registry, cursors,
                    dataVars, fileVars, runtimeVars, reported >>

(* Deliberately wrong: a tool that needs neither lock runs without them.   *)
LockRegistryUnlessStatus(c) ==
    /\ waiters # << >> /\ c = Head(waiters)
    /\ waiters' = Tail(waiters)
    /\ IF requests[c].tool = "vector_status"
       THEN Go(c, "running") /\ seen' = [seen EXCEPT ![c] = version] /\ UNCHANGED registry
       ELSE registry = NoClient /\ registry' = c /\ Go(c, "cursors") /\ UNCHANGED seen
    /\ UNCHANGED << process, requests, polls, answers, cursors, version, fileVars,
                    runtimeVars, reported >>

LockRegistry(c) ==
    /\ waiters # << >> /\ c = Head(waiters) /\ registry = NoClient
    /\ registry' = c /\ waiters' = Tail(waiters) /\ Go(c, "cursors")
    /\ UNCHANGED << process, requests, polls, answers, cursors,
                    dataVars, fileVars, runtimeVars, reported >>

(* The closure begins, and reads what it works on.                         *)
LockCursors(c) ==
    /\ pc[c] = "cursors" /\ cursors = NoClient
    /\ cursors' = c /\ Go(c, "running")
    /\ seen' = [seen EXCEPT ![c] = version]
    /\ UNCHANGED << process, requests, polls, answers, waiters, registry,
                    version, fileVars, runtimeVars, reported >>

(* The closure ends with a result, and a panic that unwinds it with        *)
(* "internal"; the guards are dropped in reverse order.                    *)
Finish(c, result) ==
    /\ answers' = [answers EXCEPT ![c] = result]
    /\ Go(c, "unlock cursors")
    /\ UNCHANGED << process, requests, polls, lockVars >>

Effect(c, result) ==
    /\ Finish(c, result)
    /\ version' = (seen[c] + 1) % Versions
    /\ UNCHANGED seen

Succeed(c) == Effect(c, "ok")

Fail(c, result) ==
    /\ Finish(c, result)
    /\ UNCHANGED dataVars

(* Deliberately wrong: the cursors stay locked, as if their guard outlived *)
(* that of the registry.                                                   *)
UnlockCursorsLast(c) ==
    /\ pc[c] = "unlock cursors"
    /\ Go(c, "unlock registry")
    /\ UNCHANGED << process, requests, polls, answers, waiters, registry, cursors,
                    dataVars, fileVars, runtimeVars, reported >>

UnlockCursors(c) ==
    /\ pc[c] = "unlock cursors"
    /\ cursors' = NoClient /\ Go(c, "unlock registry")
    /\ UNCHANGED << process, requests, polls, answers, waiters, registry,
                    dataVars, fileVars, runtimeVars, reported >>

(* The call is over: answered, or dropped with its client.                 *)
End(c) ==
    /\ Go(c, "idle")
    /\ requests' = [requests EXCEPT ![c] = NoRequest]
    /\ answers' = [answers EXCEPT ![c] = "none"]
    /\ polls' = [polls EXCEPT ![c] = 0]

(* The handler resumes and answers; a queue_wait sleeps instead.           *)
UnlockRegistry(c) ==
    /\ pc[c] = "unlock registry"
    /\ registry' = NoClient
    /\ seen' = [seen EXCEPT ![c] = 0]
    /\ IF answers[c] = "again"
       THEN Go(c, "sleeping") /\ UNCHANGED << requests, polls, answers >>
       ELSE End(c)
    /\ UNCHANGED << process, waiters, cursors, version, fileVars, runtimeVars, reported >>

(* queue_wait polls again; its first poll follows the plan without a sleep, *)
(* and the poll at its timeout is the last.                                *)
Wake(c) ==
    /\ pc[c] = "sleeping"
    /\ Go(c, "spawned")
    /\ UNCHANGED << process, requests, polls, answers, lockVars, dataVars, fileVars, runtimeVars, reported >>

(* The client disconnects, and its handler is dropped.  That ends a wait   *)
(* that sleeps; a closure that has been spawned runs to its end, and its   *)
(* handler may as well have answered.                                      *)
Disconnect(c) ==
    /\ pc[c] = "sleeping" /\ End(c)
    /\ UNCHANGED << process, lockVars, dataVars, fileVars, runtimeVars, reported >>

-----------------------------------------------------------------------------
(* The work of a closure                                                   *)

At(c, place, tools) == pc[c] = place /\ requests[c].tool \in tools

Db(c) == requests[c].db

(* Tools that need no lock of the file: a transaction of another           *)
(* connection that has not begun to commit does not hinder readers.        *)
DbWork(c) ==
    /\ At(c, "running", DbTools \union Reads)
    /\ (requests[c].tool # "db_close" /\ Succeed(c)) \/ Fail(c, "error")
    /\ UNCHANGED << fileVars, runtimeVars, reported >>

(* db_close, and db_open with reset, drop the connection, and SQLite rolls *)
(* its transaction back and unlocks the file.                              *)
DropConnection(c) ==
    /\ At(c, "running", {"db_open", "db_close"})
    /\ Succeed(c)
    /\ IF file = Db(c) THEN file' = "none" /\ opener' = "nobody" ELSE UNCHANGED fileVars
    /\ UNCHANGED << runtimeVars, reported >>

(* Tools that need the write lock of the file: BEGIN IMMEDIATE and writes. *)
Writing == Writes \union PlainUnits \union Units \union {"begin"}

(* Deliberately wrong: the registry is unlocked while SQLite waits.        *)
BlockUnlocked(c) ==
    /\ At(c, "running", Writing) /\ file \notin {"none", Db(c)}
    /\ registry' = NoClient /\ cursors' = NoClient
    /\ Go(c, "file")
    /\ UNCHANGED << process, requests, polls, answers, waiters, dataVars,
                    fileVars, runtimeVars, reported >>

(* Another connection holds it: the busy handler of SQLite waits.          *)
Block(c) ==
    /\ At(c, "running", Writing) /\ file \notin {"none", Db(c)}
    /\ Go(c, "file")
    /\ UNCHANGED << process, requests, polls, answers, lockVars, dataVars,
                    fileVars, runtimeVars, reported >>

(* Deliberately wrong: only the locks of other programs are given up on.   *)
BusyTimeoutForOthers(c) ==
    /\ pc[c] = "file" /\ file = "other"
    /\ Fail(c, "busy")
    /\ UNCHANGED << fileVars, runtimeVars, reported >>

(* rusqlite's busy timeout of five seconds.                                *)
BusyTimeout(c) ==
    /\ pc[c] = "file" /\ file \notin {"none", Db(c)}
    /\ Fail(c, "busy")
    /\ UNCHANGED << fileVars, runtimeVars, reported >>

AtFile(c, tools) == At(c, "running", tools) \/ At(c, "file", tools)

(* Statements of their own, or inside the transaction a client has left    *)
(* open on the connection.  An error may follow an effect: the size limit  *)
(* is checked after the statement, and a batch stops in its middle.        *)
Execute(c) ==
    /\ AtFile(c, Writes) /\ file \in {"none", Db(c)}
    /\ \/ Succeed(c)
       \/ Fail(c, "error")
       \/ requests[c].tool # "queue_push" /\ Effect(c, "partial")
    /\ UNCHANGED << fileVars, runtimeVars, reported >>

(* A unit that begins, and commits or rolls back.                          *)
ExecuteUnit(c) ==
    /\ AtFile(c, PlainUnits) /\ file = "none"
    /\ Succeed(c) \/ Fail(c, "error")
    /\ UNCHANGED << fileVars, runtimeVars, reported >>

(* A required batch with a statement that is too long, or whose COMMIT     *)
(* fails, returns without ROLLBACK.                                        *)
LeaveBatchOpen(c) ==
    /\ AtFile(c, {"sql_batch_required"}) /\ file = "none"
    /\ Effect(c, "partial")
    /\ file' = Db(c) /\ opener' = "batch"
    /\ UNCHANGED << runtimeVars, reported >>

BeginTransaction(c) ==
    /\ AtFile(c, {"begin"} \union Units) /\ file = "none"
    /\ file' = Db(c)
    /\ IF requests[c].tool = "begin" THEN opener' = "client" /\ Succeed(c)
       ELSE opener' = "unit" /\ Go(c, "unit") /\ UNCHANGED << process, requests, polls, answers,
                                          lockVars, dataVars >>
    /\ UNCHANGED << runtimeVars, reported >>

(* BEGIN inside a transaction, which a required batch does not even try,   *)
(* and what is refused before it: bad input, a db_id that is not open.     *)
BeginFails(c) ==
    /\ AtFile(c, {"begin"} \union PlainUnits \union Units) /\ file \in {"none", Db(c)}
    /\ Fail(c, "error")
    /\ UNCHANGED << fileVars, runtimeVars, reported >>

CommitTransaction(c) ==
    /\ At(c, "running", {"commit"})
    /\ IF file = Db(c) THEN file' = "none" /\ opener' = "nobody" /\ Succeed(c)
       ELSE Fail(c, "error") /\ UNCHANGED fileVars
    /\ UNCHANGED << runtimeVars, reported >>

(* Deliberately wrong: an embedding that fails leaves without ROLLBACK.    *)
EmbedUnitLeaving(c) ==
    /\ pc[c] = "unit"
    /\ \E o \in Inferred("embedding") :
         /\ models' = [models EXCEPT !["embedding"] = o.model]
         /\ IF o.result = "ok" THEN Succeed(c) ELSE Fail(c, o.result)
         /\ IF o.result = "internal" THEN opener' = "panic" /\ UNCHANGED file
            ELSE IF o.result = "error" THEN UNCHANGED fileVars
            ELSE file' = "none" /\ opener' = "nobody"
    /\ UNCHANGED << library, dylib, reported >>

(* vector_upsert embeds inside its transaction, and commits or rolls back; *)
(* a panic does neither.                                                   *)
EmbedUnit(c) ==
    /\ pc[c] = "unit"
    /\ \E o \in Inferred("embedding") :
         /\ models' = [models EXCEPT !["embedding"] = o.model]
         /\ IF o.result = "ok" THEN Succeed(c) ELSE Fail(c, o.result)
         /\ IF o.result = "internal" THEN opener' = "panic" /\ UNCHANGED file
            ELSE file' = "none" /\ opener' = "nobody"
    /\ UNCHANGED << library, dylib, reported >>

(* vector_search embeds the query, then may ask the reranker, whose errors *)
(* it answers with the order of distances.                                 *)
EmbedQuery(c) ==
    /\ At(c, "running", {"vector_search"})
    /\ \E o \in Inferred("embedding") :
         /\ models' = [models EXCEPT !["embedding"] = o.model]
         /\ IF o.result # "ok" THEN Fail(c, o.result)
            ELSE Go(c, "ranking") /\ UNCHANGED << process, requests, polls,
                                                  answers, lockVars, dataVars >>
    /\ UNCHANGED << library, dylib, fileVars, reported >>

NotAsked == { [result |-> "ok", model |-> models["reranker"]] }

Rank(c) ==
    /\ pc[c] = "ranking"
    /\ \E o \in Inferred("reranker") \union NotAsked :
         /\ models' = [models EXCEPT !["reranker"] = o.model]
         /\ IF o.result = "internal" THEN Fail(c, o.result) ELSE Succeed(c)
    /\ UNCHANGED << library, dylib, fileVars, reported >>

VectorStatus(c) ==
    /\ At(c, "running", {"vector_status"})
    /\ \E prewarm \in BOOLEAN : \E status \in Statuses(prewarm) :
         /\ models' = status.models
         /\ reported' = IF prewarm THEN status.ready ELSE reported
    /\ Succeed(c)
    /\ UNCHANGED << library, dylib, fileVars >>

(* Deliberately wrong: one poll more after the timeout.                    *)
PollOnceMore(c) ==
    /\ At(c, "running", {"queue_wait"})
    /\ \/ Succeed(c)
       \/ Fail(c, "error")
       \/ /\ polls[c] <= MaxPolls
          /\ polls' = [polls EXCEPT ![c] = @ + 1]
          /\ answers' = [answers EXCEPT ![c] = "again"]
          /\ Go(c, "unlock cursors")
          /\ UNCHANGED << process, requests, lockVars, dataVars >>
    /\ UNCHANGED << fileVars, runtimeVars, reported >>

(* The plan of queue_wait, and its polls: a job, an error, the timeout, or *)
(* another round.                                                          *)
Poll(c) ==
    /\ At(c, "running", {"queue_wait"})
    /\ \/ Succeed(c)
       \/ Fail(c, "error")
       \/ /\ polls[c] < MaxPolls
          /\ polls' = [polls EXCEPT ![c] = @ + 1]
          /\ answers' = [answers EXCEPT ![c] = "again"]
          /\ Go(c, "unlock cursors")
          /\ UNCHANGED << process, requests, lockVars, dataVars >>
    /\ UNCHANGED << fileVars, runtimeVars, reported >>

(* Another program locks and unlocks the file.                             *)
OtherProgram ==
    /\ file \in {"none", "other"}
    /\ file' = IF file = "none" THEN "other" ELSE "none"
    /\ UNCHANGED << process, callVars, lockVars, dataVars, opener, runtimeVars, reported >>

-----------------------------------------------------------------------------
Work(c) ==
    \/ DbWork(c) \/ DropConnection(c) \/ Block(c) \/ BusyTimeout(c)
    \/ Execute(c) \/ ExecuteUnit(c) \/ LeaveBatchOpen(c)
    \/ BeginTransaction(c) \/ BeginFails(c) \/ CommitTransaction(c)
    \/ EmbedUnit(c) \/ EmbedQuery(c) \/ Rank(c) \/ VectorStatus(c) \/ Poll(c)

(* The steps of a call that need nothing but the server.                   *)
CallStep(c) ==
    \/ StartThread(c) \/ LockRegistry(c) \/ LockCursors(c)
    \/ Work(c) \/ UnlockCursors(c) \/ UnlockRegistry(c) \/ Wake(c)

Next ==
    \/ Start \/ Unpack \/ Crash \/ OtherProgram
    \/ \E c \in Clients : Submit(c) \/ CallStep(c) \/ Disconnect(c)

(* Threads run, the locks are fair, sleeps and the busy timeout end.       *)
(* Nothing is assumed of clients, of other programs or of the process.     *)
Fairness == \A c \in Clients : WF_vars(CallStep(c))

Spec == Init /\ [][Next]_vars /\ Fairness

-----------------------------------------------------------------------------
(* Properties                                                              *)

(* The lock of the cursors is never waited for: whoever has the registry   *)
(* finds it free.  It is taken and given back under the other's (mcp.rs),  *)
(* so that two locks cannot be taken in opposite order.                    *)
CursorsAreFree == \A c \in Clients : pc[c] = "cursors" => cursors = NoClient

(* Calls take effect in one step each, on the state earlier ones left:     *)
(* whatever threads, disconnections, panics and sleeps do, no closure works *)
(* on a state another has changed meanwhile.                               *)
Serial == INSTANCE SerialCalls WITH
    calls <- [c \in Clients |-> IF pc[c] = "idle" THEN "none"
                               ELSE IF answers[c] \in Effects THEN "applied" ELSE "made"]

CallsAreSerial == Serial!Spec

(* A call that has been spawned ends, also when another program keeps the  *)
(* file locked for ever, when a transaction stays open on another          *)
(* connection, and when an inference panics under the locks.               *)
EveryCallEnds == \A c \in Clients : pc[c] = "spawned" ~> pc[c] = "idle"

(* A closure that waits for a file locked through another db_id waits in   *)
(* vain: the COMMIT that would unlock it needs the registry.  Nothing but  *)
(* the busy timeout, or the end of the process, ends the wait.             *)
OwnLocksOutlastWaits ==
    [][ \A c \in Clients : pc[c] = "file" /\ file \in Dbs /\ process' = "up" =>
          /\ UNCHANGED file
          /\ pc'[c] # "file" => answers'[c] = "busy" ]_vars

(* While nobody works, a transaction is open only because a client has     *)
(* begun it, because an inference of vector_upsert panicked, or because a  *)
(* required batch took one of its two exits without ROLLBACK: no other end *)
(* of a unit, and no error of an upsert, leaves the connection of all      *)
(* clients in a transaction.                                               *)
UnitsCloseTheirTransaction ==
    file \in Dbs /\ (\A c \in Clients : pc[c] # "unit") =>
        opener \in {"client", "panic", "batch"}

(* A backend a prewarm called ready stays loaded while the process lives,  *)
(* unless an inference panicked: failed inferences, failed loads of the    *)
(* other backend and later prewarms do not unload it.                      *)
ReadyStaysLoaded == \A b \in reported : models[b] \in {"loaded", "poisoned"}
=============================================================================
