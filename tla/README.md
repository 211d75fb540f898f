# sqlite-mcp-rs in TLA+

`sqlite-mcp-rs` is an MCP server that lets clients (agents) open SQLite
databases, query them page by page, write to them, import rows, use a small job
queue and search vectors. This directory models its stateful core, checks the
models with TLC and proves their main invariants with TLAPS.

## 1. The system

### Components

| Component (source) | State | Operations |
|---|---|---|
| Database registry (`db/registry.rs`) | `handles`: db_id → connection, mode, path; `active_db_id` | `open_db`, `close_db`, `list`, `get_connection`, `persisted_path` |
| Database tools (`tools/db.rs`) | none of their own | `db_open`, `db_close`, `db_list`; they invalidate cursors |
| Cursor store (`pagination/cursor_store.rs`) | `entries`: cursor id → saved query, expiry; TTL and capacity | `create`, `get`, `delete`, `invalidate_db`, eviction |
| `sql_query` (`tools/sql.rs`) | per call: rows, bytes, `truncated`, cursor in and out | row loop, measuring loop, continuation |
| `sql_execute`, `sql_batch` (`tools/sql.rs`) | the connection's transaction | one statement; several, with or without a transaction |
| `db_import` (`tools/import.rs`) | the connection's transaction | parse, BEGIN, create, truncate, insert, size limit, COMMIT |
| Queue tools (`tools/queue.rs`, `server/mcp.rs`) | table `_queue_jobs`; per wait: baseline, deadline | `queue_push`, `build_wait_plan`, `poll_visible_job`, the wait loop |
| Vector tools (`tools/vector.rs`) | `_vector_collections`, two tables per collection; lazily loaded runtime | status, create, list, upsert, search |
| Server (`server/mcp.rs`) | the two mutexes around registry and cursor store | `run_blocking`, one handler per tool, bootstrap |
| SQL policy (`policy.rs`) | none | splitting and scanning SQL text |
| Persistence root (`db/persistence.rs`) | the file system | path resolution, listing, size limit |
| Configuration (`config.rs`) | read once | bounds of limits and intervals |
| Adapters (`adapters/`) | model runtimes, initialised once | embed, rerank |
| Errors, envelopes, contracts, `main.rs` | none | conversions, data types, transports |

### How they interact

Every handler passes one closure to `run_blocking`, which locks the registry,
then the cursor store, and runs the closure to its end on the blocking pool. So
handlers do not interleave, with one exception: `queue_wait` is a plan and a
sequence of polls, each a closure of its own. What interleaves is *calls*: of
different clients, and of one client that pages through a result or waits on a
queue while others open, reset, close, write, begin and end transactions. All
clients of a db_id share its connection, and with it its transaction. A client
may give up on a call (its future is dropped); the closure runs to its end all
the same and the answer is lost. The process may die between two statements of
a closure.

### What is hard, and what has to hold

* **Cursors and connections** (registry, database tools, cursor store). A
  cursor is a db_id and an offset. When its db_id is reset, closed or reopened
  it must be gone, or its query would be continued in another database; a reset
  that fails must cost nothing. → `CursorsMatchHandle`, `CursorsLostForCause`,
  `ActiveIsOpen`.
* **Paging** (`sql_query`). Two loops with different measures decide what a page
  holds; the cursor store is changed before the response is known to fit; the
  store may be full; answers get lost. Probe and response carry time stamps of
  their own, whose lengths differ from try to try. → `PageIsAllowed`, `NoOrphanCursor`,
  `Terminates`, `PagesAreContiguous`, `WithinCapacity`, `OneCursorPerCall`.
* **Transactions** (writing tools). Failures at every statement, SQLite's own
  rollbacks, failing COMMITs, inferences that panic, crashes, transactions of other
  clients. →
  `CallsAreAtomic`, `NoPartialImport`, `OthersTransactionKept`.
* **Queue**. Between two polls everything else happens: rollbacks hand ids out
  again, delayed jobs become visible after later ones, time stamps are compared
  as text, the deadline passes. → `OnlyLateJobsArePassed`, `PollsArePunctual`,
  `WaitsEnd`.
* **Vectors**. Documents and embeddings are two tables joined by rowid alone;
  clients delete documents by SQL; filters, joins and reranking come after the
  nearest embeddings were fetched. → `EmbeddingsMatchDocuments`,
  `MissesAreExplained`, `BestMatchesFirst`, `FallbackLosesNothing`.
* **Locks** (server). Both locks are held while a model loads and while SQLite
  waits for the lock of a file, which another db_id of this very server may
  have; closures run on after their client has gone; inferences panic under the
  locks. → `CallsAreSerial`, `EveryCallEnds`, `OwnLocksOutlastWaits`,
  `CursorsAreFree`, `UnitsCloseTheirTransaction`.
* **Models** (adapters). Loaded in the background, at first use or on request,
  after failures again, from a library that may be broken. → `ReadyStaysLoaded`.
* **Import** (`db_import`). Columns by name, from two formats; types inferred from
  mixtures; conflicts counted; a size limit checked before COMMIT. →
  `ImportIsExact`, `ValuesKeepTheirKinds`, `ImportsStayWithinLimit`.
* **Scanning SQL** (`policy.rs`). Bytes, literals, comments, doubled quotes. →
  `StatementsAreSplit`, `StatementsAreRecognised`, `UnquotedNamesAreFound`,
  `ScansAnswer`.
* **Listing** (`persistence.rs`). A limit met in the middle of a tree. →
  `ListingIsHonest`.

`PROJECT.json` lists every hazard with its line and the properties that cover it.

## 2. Modules

| Module | Models | State ↔ code |
|---|---|---|
| `Paging` | how many rows a page may carry, as operators | — |
| `PagingLoop` | the two loops of `sql_query`, step by step, for one call | `returned_rows`, `used_bytes`, `truncated` and `initial` are the local variables; `reserved` counts cursors put into the store and not taken back; `consumed` says that the used cursor was deleted |
| `DbRegistry` | `open_db` and `close_db` | `handles`, `active_db_id`; a connection is an identity (db_id, generation) |
| `CursorStore` | the cursor store | `entries`; an entry carries the time left to it (`expires_at - now`) |
| `SqliteServer` | registry + cursor store + `sql_query` + writes, with their clients | adds `tables` (contents per file or memory connection) and `chains` (what a client that follows hints knows) |
| `AtomicCalls` | abstract: what the writing tools promise; a call is one step | `file` (committed), `content` (seen by the connection), `txn`, `requests`, `answers` |
| `Transactions` | the writing tools statement by statement | adds `running`, the call that holds the registry |
| `Queue` | `queue_push` and `queue_wait` | `jobs`, `seq` (`sqlite_sequence`), `saved` (what ROLLBACK restores), `waits` (plan and loop of each wait) |
| `VectorCollections` | `vector_collection_create`, `vector_upsert` item by item | `collections` (`_vector_collections`), `docs` and `vecs` (the tables `c_docs`, `c_vec`), `runtime` (model and dimension of the running server), `upsert` (the call under way, with what ROLLBACK restores) |
| `VectorSearch` | `vector_search` over those (EXTENDS) | adds `answer`, the answer to the last search |
| `Runtimes` | the adapters: library, loading, inference, prewarm | `library` (the file in the cache), `dylib` (`ORT_DYLIB_PATH` is set), `models` (`Mutex<Option<Model>>`) |
| `SerialCalls` | abstract: a call is made, takes effect in one step, ends | `version`, of all the state behind the locks; `calls` |
| `Dispatch` | `main`, `run_blocking` and the handlers around the closures (EXTENDS `Runtimes`) | `process`; `pc` and `answers` of each client's call; `waiters`, `registry`, `cursors` (the two mutexes); `seen`, what a closure works on; `file` (SQLite's write lock) |
| `Import` | `db_import` for one payload, row by row | `table` and `pages` as the transaction sees them, `disk` (the file), `index`, `inserted`, `skipped` |
| `SqlText` | `policy.rs` and `statement_is_insert`, as operators on texts, and the reference they are compared with: `Lexemes`, which jumps from one literal, comment, word or sign to the next | `text`, grown byte by byte over the alphabet of a `family` |
| `PersistRoot` | `list_persisted_entries` | `stack`, `entries`, `truncated`, `limit`; `directory` is what `read_dir` has still to give |
| `Orders` | — (sets of numbers in rising order, what a sequence has at them) | — |
| `Algorithms` | one import, one text or one listing (EXTENDS the three) | `part` says which |
| `MC…` | values for TLC | — |
| `…Proofs` | theorems | — |

`SqliteServer` composes `DbRegistry`, `CursorStore` and `Paging` (EXTENDS): a
handler is one action, built from their operators. `PagingLoop` justifies taking
a call of `sql_query` as one step: it shows that the loops compute exactly what
`Paging` says, including which tries may touch the cursor store: probe and response
are each up to `Jitter` bytes longer than the shortest ones, so a size may fail its
probe and leave the store alone, or pass it and fail as a response. `Transactions`
implements `AtomicCalls` under a refinement mapping: while a unit (a call with a
transaction of its own) is between BEGIN and its end, the abstract content and
transaction are those the unit met.

`Dispatch` is below all of these. In them a closure is one action, or a sequence of
steps nobody interrupts; `Dispatch` has the steps by which a call gets there and
back, and implements `SerialCalls`: a closure applies its effect to the version it
has read when it began, and that version is still the current one. The tools differ
there only in what they need: no file lock, the file lock for a statement, for a
transaction of their own, or for one the client leaves open, and the models.
`Import` refines one call of `Transactions` in another direction: what the rows
are.

### Abstractions

* A row is an opaque value with a size, SQL text is one statement that reads one
  table; errors before any effect are one alternative that changes nothing.
* A fingerprint is a function of the saved query, which cannot change, so its
  comparison always succeeds.
* Time is discrete. In `CursorStore` ticks only matter relative to an entry's
  expiry; in `Queue` a tick is half a second, the coarsest grid on which the
  textual and the temporal order of time stamps differ.
* A client that continues a query always uses the cursor of its last page. A
  lost answer is a page that changes the store and not the client.
* `SqliteServer` does not look inside transactions; a write replaces a table.
  `Transactions` does not look at cursors. Each statement of a call writes one
  row; savepoints, schema changes and conflict modes that skip rows are left
  out; the database is a file. `vector_collection_create` runs the same BEGIN
  IMMEDIATE … COMMIT / ROLLBACK as `db_import` and is covered by it.
  `vector_upsert` does so too, except that a panic of the inference leaves with
  neither (`EmbeddingPanics`). `CallsAreAtomic` therefore has two exceptions
  (`MayLeaveOpen`): a required batch, at its two exits without ROLLBACK, and an
  upsert that panics leave the rows written so far in an open transaction.
* `VectorCollections` has one database; its clients delete documents, they do
  not edit them. SQL and embedding errors are one alternative of an upsert, a
  vec0 table that refuses `insert or replace` of a rowid it holds among them.
  `VectorSearch` takes distances and scores as functions (never NaN: a sort that meets
  one may give any order), a metadata object as
  one tag, and "fits `max_bytes`" as any number of matches from one up.
* `Dispatch` counts versions modulo two: a version read and one overwritten by
  another call differ by one, and more than one call between two steps of a
  closure has to go through one. All its databases are of one file, the worst
  case. A required batch is a unit with an exit that leaves its transaction open
  (`LeaveBatchOpen`); closing or resetting a database ends the transaction of its
  connection and frees the file (`DropConnection`). The result of a call says whether it had an effect ("partial" is an error
  after an effect: the size limit of `sql_execute`, a batch that stops). The
  downloads of models and of the library are outcomes of the actions that ask for
  them.
* `Import` has one import at a time and a payload whose columns are distinct. A
  value is a kind and what it is a value of, so that text of a number can be told
  from other text. Pages grow with rows; SQLite may have written any part of the
  new ones to the file before COMMIT. It is a file: for a memory database only the
  ceiling on pages counts.
* `SqlText` cuts keywords and names down to one or two letters, and leaves out the
  case of letters and digits in names. In its reference a literal ends at the first
  quote of its kind that no other follows and that makes them even in number, so a
  doubled quote does not close it; the code goes from quote to quote instead.
* `PersistRoot` numbers paths in the order of their names; the tree does not change
  while it is listed, but reading any part of it may fail.
* `visible_at` is text the client chooses. `Queue` keeps what the text compares
  like (one of `Stamps`, or the time of the push) and whether it is in the form the
  server writes (`in_form`). A text in another form, with an offset or no time at
  all, stands for the first stamp it does not sort behind.
* `Queue` has one queue and one database. `WaitFails` stands for every reason a
  plan or a poll may fail, a closed database among them.

## 3. Model checking

Run `tlc -config X.cfg M` here. Every property of a passing run has a mutant in
`PROJECT.json` (the operators commented *Deliberately wrong*) that breaks it.

| Run (cfg) | Shows | Bounds, and why they are enough |
|---|---|---|
| `paging_loop` (`PagingLoop`) | `PageIsAllowed`, `NoOrphanCursor`, `Terminates` | results of up to 3 rows of three sizes (one larger than any page but the last limit), offsets beyond the result, every `max_bytes` around the envelope with 0–3 rows, jitter 1: each branch of both loops, with several tries |
| `server_handles` (`ServerHandles`) | `CursorsMatchHandle`, `ActiveIsOpen`, `CursorsLostForCause` | two db_ids, a file with two spellings, memory databases, two generations per db_id; one client, two cursors: reset, close, reopen and failing reset under a live cursor |
| `server_paging` (`ServerPaging`) | `PagesAreContiguous`, `WithinCapacity`, `OneCursorPerCall` | two clients, a memory database, three rows of which the last never shares a page, capacity 2, TTL 2 (so that two live cursors differ in age), jitter 2; clients are interchangeable; one generation, for resets are what `server_handles` is for: full store, expiry, eviction of the older cursor, rows given up before and after a fitting probe, lost answers |
| `txn_calls` (`TxnCalls`) | `CallsAreAtomic`, `NoPartialImport`, `OthersTransactionKept` | three calls of up to two statements: one that leaves a transaction open (a client's BEGIN, a required batch, an upsert that panics), one that meets it, one that ends it |
| `queue_waits` (`QueueWaits`) | `OnlyLateJobsArePassed`, `PollsArePunctual`, `WaitsEnd` | two ids (the least with an order and with reuse), three half seconds, `visible_at` the time of the push or the end of the run, in the server's form or not; one waiter: waits never write the table, so they cannot disturb each other |
| `vector_search` (`VectorSearch`) | `EmbeddingsMatchDocuments`, `MissesAreExplained`, `BestMatchesFirst`, `FallbackLosesNothing` | one collection, two ids, two texts, three rowids, upserts of two items, a model of either dimension or none; `top_k` and `fetch_k` from 0 to one above their maximum 2; the filter's factor and floor are 2: orphaned embeddings and rejected documents fill a search, rowids are reused, a restart meets a collection of another dimension |
| `dispatch` (`Dispatch`) | `CallsAreSerial`, `EveryCallEnds`, `OwnLocksOutlastWaits`, `CursorsAreFree`, `UnitsCloseTheirTransaction`, `ReadyStaysLoaded` | two clients, two db_ids of one file, nine requests, one for each way a closure works, a required batch and an upsert on the db_id that transactions are begun on, a plain write on the other; one poll after the plan of a wait: one client holds the locks or a transaction, the other waits for either, another program has the file. The locks are proved for any number of clients |
| `algorithms` (`Algorithms`) | `ImportIsExact`, `ValuesKeepTheirKinds`, `ImportsStayWithinLimit`; `StatementsAreSplit`, `StatementsAreRecognised`, `UnquotedNamesAreFound`, `ScansAnswer`; `ListingIsHonest` | payloads of up to three rows over two named columns and all mixtures of seven kinds of values in one; a limit of four pages that old and new rows reach and files below and above it; all texts of up to six bytes (up to eleven behind a pragma's first bytes) over nine alphabets, each with what one kind of confusion takes: doubled quotes around a pragma's words, a comment left open behind one, quotes within a schema's name; trees of up to three directories, limits 0 to 5 around the number of their files |
| `paging_progress`, `txn_batch`, `vector_names`, `queue_due` | disagreements, section 5 | those of the passing run of the same module |

Bounds in the models: `MaxOffset` (PagingLoop), the finite `CursorIds` and
`Generations` (SqliteServer), of which one that nobody holds any more is handed
out again, `MaxStatements` and `MaxItems` (which the configuration has, too), `MaxRow`
(VectorCollections), `MaxId` and `MaxTime` (Queue), `MaxPolls` and `Versions`
(Dispatch), `MaxText` (SqlText). `Algorithms` ends, so its run does not look for
deadlocks.

*Fairness.* `PagingLoop` has weak fairness of its step relation: the closure
runs on a thread of its own. `Queue` has weak fairness of each wait's plan, poll
and timeout check (the blocking pool takes closures from a queue, every closure
ends and frees the locks, tokio wakes sleepers) and of the clock; none of
clients, pushes or transactions. That every closure ends is an assumption there,
and what `Dispatch` shows: it has weak fairness of the steps of each call (threads
run, tokio's mutex is fair, sleeps end, statements end, the busy timeout of five
seconds ends a wait for a file), and none of clients, of other programs or of the
process. The other modules state safety only.

`PollsArePunctual` gives the code's real guarantee for jobs whose `visible_at` is in
the form the server writes (UTC, as the default is): one second either way. For any
other text there is none: it is compared as text, so such a job is seen hours off,
at once or never.
`OneCursorPerCall` says which cursor a call may cost: the one its holder follows, also
when the call fails after a response was given up, or, for a new query that finds
`Capacity` live cursors, the one used longest ago. `CursorsLostForCause` says the same
of runs in which databases are opened and closed: what goes beyond has lost its
connection.
`OnlyLateJobsArePassed` says exactly which jobs a client that follows `after_id`
can miss: delayed ones, those whose id had been handed out before, and those
deleted and restored by ROLLBACK.

## 4. Proofs

Checked by `tlapm` for every value of the constants, from the modules' named
ASSUMEs only.

* **`SqliteServerProofs`**: `Spec => []Registered`, where `Registered` is
  `TypeOK ∧ ActiveIsOpen ∧ CursorsMatchHandle`. The three are inductive together:
  the owner of a cursor is an open database (so `sql_query` finds its handle, and
  types are kept), which needs that whatever replaces or removes a handle also
  invalidates its cursors; a plain open cannot replace a handle, because it
  conflicts or reuses. `TypeCorrect`, `ActiveCorrect` and `CursorsCorrect`
  follow.
  `CapacityCorrect`: making room leaves at most `Capacity - 1` entries, an
  insertion adds one (`CursorAssumption`). `PagingCorrect`: `PagesAreContiguous` is
  not inductive: one also needs that a live cursor which a clean chain waits for has
  the offset of the rows the chain has received, on the same store, and that no two
  chains wait for the same cursor (`ChainsFollow`). That a fresh id is held by nobody,
  chains included, carries the proof.
  `OneLostCorrect` and `CausesCorrect` are the two action properties. Both rest on one
  description of what a step takes from the live cursors (`StepLoses`): a page loses
  nothing, the cursor it continues, or, for a new query, the least recently used one of
  a store full of live cursors; only
  steps that change `handles` lose more, and then a cursor's connection is gone, for
  a connection that replaces another is a fresh one.
* **`AtomicCallsProofs`**: in the abstract specification, a call's rows in file
  and content are none or all of them, and none before it is answered.
* **`TransactionsProofs`**: every statement-level step is a step of
  `AtomicCalls` or a stutter (`NextInv`, one lemma per action), from the
  invariant that a unit which has begun owns the transaction, met none, and has
  written exactly the first `done` rows on top of the file. `CallsCorrect` is the
  refinement `Spec => CallsAreAtomic`, panics of an upsert and the exits of a required
  batch included, which are the abstract `LeftOpen`; `ImportsCorrect` carries the abstract
  theorem over; `OthersTransactionCorrect` is an action property from the same
  invariant.

* **`DispatchProofs`**: `LocksCorrect` is the inductive invariant: types, and who is
  where. A call is at a place under a lock exactly if it holds it; those that wait
  for the registry are in `waiters`, each once; a closure at work has seen the
  current version. The last part needs the first: only the holder of the registry
  changes the version, so nobody else's reading goes stale. `CursorsCorrect` (the
  second lock is never waited for) and `SerialCorrect` (the refinement of
  `SerialCalls`, one lemma per group of actions) follow, for any number of clients
  and databases. `WorkInv` adds what a call holds besides the locks: it has a
  request, it waits only while another owner has the file, a transaction was begun by
  a client, by the unit now at work, by one that panicked or by a required batch that
  left it open, and models have a state.
  `UnitsCorrect` and `ModelsCorrect` are parts of it. `WaitsCorrect` is an action
  property that needs both invariants: the waiting call holds both locks, so
  every other call is short of them and can touch neither the file nor the waiting
  call, and the waiting call itself has no step but the timeout.
  `TypeCorrect` is what is left of `TypeOK`.
* **`PagingLoopProofs`**: the two loops, for results, sizes and limits of any length.
  `PageIsAllowed` says of the result what `Paging` says of a page; the invariant
  `PageInv` says how far both loops are: the rows kept so far are a prefix that the
  limits admit (`ScanInv`), the first loop ends with the longest one (`ScannedInv`),
  every page larger than the present one was tried, may overrun the limit, and has
  left no cursor, and the sizes that touched the store are among those whose probe may
  fit and include those whose probe must (`TriedInv`). `OrphanCorrect` follows from the last part. Facts about sums of sizes are inductions over
  data; they are proved by a least counterexample (well-foundedness of `Nat`,
  cited from the library), which is first order.
* **`QueueProofs`**: `TypeCorrect` and `PassedCorrect` from `QueueInv`.
  `OnlyLateJobsArePassed` speaks of waits at work; it is inductive together with the
  same fact about clients between two calls, who keep their `after_id` (`Passed`), and
  with two facts about the table and every table a ROLLBACK would restore
  (`TableInv`): no id is in it that was never handed out, and a job that is not late
  stays visible from now on, also while text and time disagree within a second.
  `PunctualCorrect` is an action property from the same types: compared as text, times
  in the server's form are right to the second (`TextToTheSecond`).
* **`VectorProofs`**: `EmbeddingsCorrect` and `VectorTypeCorrect`. That every
  document has its own embedding is inductive together with two facts: a
  collection's tables exist, and the tables an upsert would restore match each
  other, too, for every failure and every restart returns to them.
  `MissesCorrect`, `BestCorrect` and `FallbackCorrect` are about the answers of
  searches, for any numbers of documents, distances and scores. The invariant
  `SearchInv` says that an answer is made from candidates of its search (`MadeBy`) and
  that the tables have not changed since. The rest is algebra of the operators: a
  row that is stored and not among the k nearest has k others as near
  (`MissedIsFar`), the join keeps order (`JoinsKeep`), a stable sort exists
  (`SortExists`, by insertion) and is one (`ByScoreProperties`), and the answer without
  reranking is a prefix of the one whose reranking failed, because a smaller k
  gives a prefix of the nearest (`NearestPrefix`).

* **`AlgorithmsProofs`**: imports, listings and texts, for any payloads, tables, limits,
  trees and texts. Imports and listings need that a finite set of numbers has one rising order and only one
  (`RisesExists`, `RisingIs`); like every induction over data here it is replaced by a
  least counterexample.
  `ExactCorrect`: after `n` rows the table holds, in order, those of the first `n` rows
  (old ones, then rows of the payload) that stay among each other (`Winners(n)`).
  `ImportIsExact` defines the same for all rows at once, without a table that changes;
  the step (`WinnersNext`) says that a row which clashes and is ignored changes nothing
  and that one which replaces takes exactly those of its key away. That one winner at
  most has each key, and that a row clashes with any earlier row only if it clashes
  with a winner, is what makes looking at the table enough. `KindsCorrect` follows from
  the same invariant (a table just created has no unique key, so every row stays) and
  from what `Stored` does to each kind. `LimitCorrect`: pages above those of the file
  are within the limit throughout, so COMMIT cannot take the file beyond it.
  `HonestCorrect`: the invariant (`Walk`) names the set of directories read so far.
  Their files are the entries, their directories were read or are on the stack, once
  each; with nothing left to read the set is closed under subdirectories, and
  in a tree only the whole tree is.
  `SplitCorrect`, `NamesCorrect` and `ScansCorrect` say what the scanner makes of a text
  of any length. The scanner and the reference are two recursive functions that run
  in opposite directions: the scanner carries a state from byte to byte (`Scans`), the
  reference asks where the lexeme ends that begins here and goes on behind it
  (`Reads`). They meet in `BeginsAt`, the states the scanner may be in where a lexeme begins:
  the normal one, or, for the newline behind `--`, still that of the comment. For each
  kind of lexeme one lemma says what it looks like (`LiteralShape`, …) and one that
  the scanner crosses it (`Lexed`): it ends where the next lexeme begins, and its bytes
  are left by the normalisation (`Shown`) exactly if it is a word or a sign. Within a literal
  the scanner is between the halves of a doubled quote exactly if the quotes so far
  are even in number; elsewhere nothing changes over a stretch of bytes (`Stretch`).
  `EndsOfText` is the induction from the end of the text that carries a claim
  about one lexeme to all. What is searched is the normalised text, in which a byte that is
  not ASCII takes two places; `FlattenIs` and `Laid` say where each byte comes to lie,
  `TokenIsFound` that a word is found there exactly where the scanner leaves one, and
  `CallIsFound` that with no such byte left nothing is sliced within a character.
  `RecognisedCorrect` is about the functions that read a statement a second time, without
  the scanner: `SkippedIs` says that what `SkipTrivia` skips is up to the next lexeme that
  is no comment, unless one is left open; `NamedIs` that the name read there is that of the
  lexeme, for a quote that closes is the first with which the quotes are even in number
  (`ClosingFinds`); `FollowsIs` makes both a step of a reader, which `RestIs` and
  `SizePragmaIs` walk through a pragma word by word. An earlier form of the property, which
  TLC accepted for shorter texts, took no account of names in quotes that double a quote,
  nor of comments that are left open; the proof found both.
  `TypeCorrect` is about all three parts.

The assumptions are those the source or its environment makes good: tables as SQLite
keeps them (rows over the columns, a unique key that is one), requests of the shapes
their schema allows (`ImportAssumption`), directories that form a finite tree without
cycles, for links are not followed (`ListingAssumption`).

Only model-checked: liveness (`Terminates`, `WaitsEnd`, `EveryCallEnds`), which is
out of the prover's reach.

## 5. Where code and documentation disagree

* `sql_query` answers a row that can never fit with an empty truncated page and
  a cursor that has not moved; its own message announces an error
  (`TruncatedPageHasRows`).
* A required batch does not roll back when a statement is too long, nor when
  COMMIT fails; the open transaction stays on the shared connection
  (`RequiredBatchRollsBack`).
* Collections whose names differ in case only are two rows of
  `_vector_collections` and one pair of tables: the second is `created` with the
  documents of the first (`CollectionsAreSeparate`).
* A job due on a whole second is not visible during that second
  (`DueJobsAreVisible`).

Seen while modelling, without a run of their own:

* The `db_open` that opened a file conflicts when repeated, unless the path was
  given in canonical absolute form: `Conflicts` in `DbRegistry` compares the stored
  path with the requested one.
* Operations that do not name a database use `"default"`, not the active one as the
  comment of the registry says; only `db_close` uses it (`DbOf`, `DbToClose`).
* `ScansAnswer` holds for texts that keep characters that are not ASCII to literals
  and comments. Elsewhere, as in a column `größe` without quotes, the scan for a
  call slices the normalised text within a character and panics
  (`ContainsLoadExtensionCall` is `"panic"`); the client is answered with
  `INTERNAL_ERROR`. Both locks are tokio's and survive it.
* Writes to `_vector_collections` are said to be rejected
  (`docs/tool-contract.md:220`), and so says the comment at `policy.rs:140`. The scan looks at
  normalised text, in which whatever stands in quotes or brackets is blanked, and
  SQLite takes the name of a table in double quotes or brackets, and where a table has to
  stand in single quotes, too (`References`).
  `UnquotedNamesAreFound` states what the code does: of the references to the table
  it finds those written without quotes, and no others. Backticks are no quotes to the
  scanner, so a name in backticks is found as a word.
* In the same way the name of a function in quotes is blanked before the scan for
  its call (`ScansAnswer` is about names that are words), and the name of a pragma in
  backticks is read neither by `read_pragma_identifier` nor by the reference of
  `StatementsAreRecognised`.
* `visible_at` is not looked at beyond being non-empty: a job whose text has another
  form than the server's is visible when its text compares so (`in_form`).
* An inference that panics within `vector_upsert` leaves its transaction open on
  the connection all clients share, and the model's mutex poisoned until the
  process ends (`opener = "panic"`, `models[b] = "poisoned"`).
* CSV values are strings, so a table created from CSV has columns of type TEXT,
  whatever `infer_column_types` says.
* A listing with limit 0 is never truncated, and a truncated one holds the files
  the file system gave first, not the first by name.
* `vector_status` without `prewarm` calls a configured backend ready that has not
  been loaded (`Statuses(FALSE)`). A prewarm cannot help a process that started
  without the library: `ORT_DYLIB_PATH` is set at the start only (`EnsureDylib`).
* The search for pragmas that would lift the size limit reads the last byte of a
  comment that is left open as the sign behind the name, so `PRAGMA max_page_count/*=`
  is refused although its comment says that comments are not interpreted
  (`StaysOpen` in `StatementsAreRecognised`).
* The splitter does not know names in backticks; a semicolon in one splits.
* The tool contract says that `rerank_fetch_k` is clamped to at least `top_k`, the
  code rejects a smaller one; `map_error` returns `INTERNAL_ERROR` for SQL and
  dependency errors where the tool contract says `INVALID_PARAMS`; the hints of
  `queue_wait` carry no db_id.

## 6. Not modelled

Worth adding, in this order: `Queue` on the databases of `SqliteServer` (hints
without db_id, close and reopen); a collection whose tables were dropped; savepoints
in `Transactions`.

Left out for good: inference inside the adapters and the downloads of models, the
transports of `rmcp`, the libraries that parse CSV and JSON, JSON schemas and data
types, the configuration (read once; its bounds are the ASSUMEs of the modules),
formatting and logging, release scripts and packaging.
