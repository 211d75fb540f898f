---------------------------- MODULE SqliteServer ----------------------------
(***************************************************************************)
(* The server as its clients see it when they open and close databases,    *)
(* write, and page through query results: the registry of databases, the   *)
(* cursor store and the tools db_open, db_close, sql_query and the writing *)
(* tools, composed.                                                        *)
(*                                                                         *)
(* A handler runs as one closure under the locks of the registry and of    *)
(* the cursor store (run_blocking), so it is one action.  What interleaves *)
(* is the calls of the clients; a client may also give up on a call, which *)
(* the server executes all the same, and never see its answer.             *)
(*                                                                         *)
(* There is one table and one statement that reads it.  A client that      *)
(* follows a continuation hint is `reading': it remembers the cursor it    *)
(* was given and the rows it has received.  Once a write has changed the   *)
(* table since its first page the chain is not `clean', and its rows are   *)
(* followed no further.                                                    *)
(***************************************************************************)
EXTENDS DbRegistry, CursorStore, Paging

CONSTANTS
    Clients,
    Tables,      \* contents the table may have: sequences of Rows
    NoTable,     \* the table does not exist
    RowLimits,   \* effective max_rows of a call
    MaxBytes,    \* effective max_bytes of every call
    NoCursor,
    NoDb,        \* a request without db_id
    Requests     \* the db_ids of requests other than db_close

ASSUME ServerAssumption ==
    /\ Tables \subseteq Seq(Rows)
    /\ NoTable \notin Tables
    /\ RowLimits \subseteq Nat \ {0}
    /\ MaxBytes \in Nat \ {0}
    /\ CursorIds \subseteq Nat
    /\ NoCursor \notin CursorIds
    /\ Conns \cap ResolvedPaths = {}
    /\ NoPath \notin Conns
    /\ NoDb \notin DbIds
    /\ Requests \subseteq DbIds \union {NoDb}

VARIABLES
    tables,   \* contents of the table, per connection (memory) or file
    chains    \* what every client knows of the result it is paging through

vars == << active_db_id, handles, entries, tables, chains >>

-----------------------------------------------------------------------------
(* Data                                                                    *)

Stores == Conns \union ResolvedPaths

StoreOf(handle) == IF handle.mode = "memory" THEN handle.conn ELSE handle.path

(* A saved query context.  SQL, parameters and fingerprint are those of    *)
(* the one statement; conn is history: the connection of its first page.   *)
CursorStates == [ db : DbIds, conn : Conns, offset : Nat, max_rows : RowLimits ]

Entries == [ state : CursorStates, left : 0 .. Ttl ]

EntryMap(map) ==
    /\ DOMAIN map \subseteq CursorIds
    /\ map \in [DOMAIN map -> Entries]

Chains == [ phase : {"idle", "reading", "done"},
            cursor : CursorIds \union {NoCursor},
            store : Stores \union {NoPath},
            got : Seq(Rows),
            clean : BOOLEAN ]

Idle == [ phase |-> "idle", cursor |-> NoCursor, store |-> NoPath,
          got |-> << >>, clean |-> TRUE ]

TypeOK ==
    /\ RegistryTypeOK
    /\ EntryMap(entries)
    /\ tables \in [Stores -> Tables \union {NoTable}]
    /\ chains \in [Clients -> Chains]

(* Identities that nobody holds any more may be handed out again.          *)
HeldCursors == DOMAIN entries \union {chains[cl].cursor : cl \in Clients}

HeldConns == LiveConns \union {entries[c].state.conn : c \in DOMAIN entries}

FreshCursors == Least(CursorIds \ HeldCursors)
FreshConns(db) == {<<db, gen>> : gen \in Least({g \in Generations : <<db, g>> \notin HeldConns})}

(* New tables make the chains that read a changed one unclean.             *)
Disturbed(chain) ==
    [chain EXCEPT !.clean = FALSE, !.store = NoPath, !.got = << >>]

WriteTables(new) ==
    /\ tables' = new
    /\ chains' = [cl \in Clients |->
         IF /\ chains[cl].phase # "idle" /\ chains[cl].clean
            /\ new[chains[cl].store] # tables[chains[cl].store]
         THEN Disturbed(chains[cl])
         ELSE chains[cl]]

(* An in-memory database is gone with its connection.                      *)
DropMemory(db) ==
    IF db \in OpenDbs /\ handles[db].mode = "memory"
    THEN WriteTables([tables EXCEPT ![handles[db].conn] = NoTable])
    ELSE UNCHANGED << tables, chains >>

-----------------------------------------------------------------------------
(* Start-up: SQLITE_INSPECTOR_DB_PATH opens the default database on a file *)
(* and falls back to memory; without it the default is in memory.  When    *)
(* nothing can be opened the server starts all the same.                   *)

Bootstrapped(mode, raw, conn) ==
    /\ active_db_id = DEFAULT_DB_ID
    /\ handles = [db \in {DEFAULT_DB_ID} |-> NewHandle(mode, raw, conn)]

Init ==
    /\ \/ RegistryDefault
       \/ \E conn \in {DEFAULT_DB_ID} \X Least(Generations) :
            \/ Bootstrapped("memory", NoPath, conn)
            \/ \E raw \in RawPaths :
                 /\ HasPersistRoot /\ Resolve[raw] # NoPath
                 /\ Bootstrapped("persist", raw, conn)
    /\ entries = [c \in {} |-> NoCursor]
    /\ tables = [s \in Stores |-> NoTable]
    /\ chains = [cl \in Clients |-> Idle]

-----------------------------------------------------------------------------
(* The database a request is about: every tool falls back to the default   *)
(* db_id, db_close to the active one.                                      *)
DbOf(request) == IF request = NoDb THEN DEFAULT_DB_ID ELSE request
DbToClose(request) == IF request = NoDb THEN active_db_id ELSE request

-----------------------------------------------------------------------------
(* db_open and db_close                                                    *)

DbOpenReuse(db, mode, raw) ==
    /\ OpenReuse(db, mode, raw, FALSE)
    /\ UNCHANGED << entries, tables, chains >>

(* Deliberately wrong: a reset leaves the cursors of the db_id alone.      *)
DbOpenConnectKeepingCursors(db, mode, raw, reset) ==
    \E conn \in FreshConns(db) :
        /\ OpenConnect(db, mode, raw, reset, conn)
        /\ DropMemory(db)
        /\ UNCHANGED entries

DbOpenConnect(db, mode, raw, reset) ==
    \E conn \in FreshConns(db) :
        /\ OpenConnect(db, mode, raw, reset, conn)
        /\ DropMemory(db)
        /\ entries' = IF reset THEN InvalidateDb(entries, db) ELSE entries

(* Deliberately wrong: a reset invalidates before the connection is open.  *)
DbOpenFailInvalidating(db, mode, raw, reset) ==
    /\ OpenFail(db, mode, raw, reset)
    /\ entries' = IF reset THEN InvalidateDb(entries, db) ELSE entries
    /\ UNCHANGED << tables, chains >>

DbOpenFail(db, mode, raw, reset) ==
    /\ OpenFail(db, mode, raw, reset)
    /\ UNCHANGED << entries, tables, chains >>

DbOpen ==
    \E request \in Requests, mode \in Modes, raw \in RawPaths \union {NoPath} :
      LET db == DbOf(request)
      IN
        \/ DbOpenReuse(db, mode, raw)
        \/ \E reset \in BOOLEAN :
             \/ DbOpenConnect(db, mode, raw, reset)
             \/ DbOpenFail(db, mode, raw, reset)

DbClose ==
    \E request \in DbIds \union {NoDb} :
      LET db == DbToClose(request)
      IN
        /\ CloseDb(db)
        /\ DropMemory(db)
        /\ entries' = InvalidateDb(entries, db)

-----------------------------------------------------------------------------
(* Writes, by sql_execute, sql_batch or db_import: the table is created,   *)
(* changed or dropped.                                                     *)

Write ==
    \E request \in Requests, content \in Tables \union {NoTable} :
      LET db == DbOf(request)
      IN
        /\ db \in OpenDbs
        /\ WriteTables([tables EXCEPT ![StoreOf(handles[db])] = content])
        /\ UNCHANGED << active_db_id, handles, entries >>

-----------------------------------------------------------------------------
(* sql_query                                                               *)

(* Deliberately wrong: the offset is that of the rows first collected.     *)
NextStateCollected(state, n) == [state EXCEPT !.offset = @ + state.max_rows]

(* The offset stored for the next page.                                    *)
NextState(state, n) == [state EXCEPT !.offset = @ + n]

RestOf(state) == Drop(tables[StoreOf(handles[state.db])], state.offset)

(* What a call leaves in the store when it fails: nothing has happened     *)
(* unless a response was given up, and then the cursor it continued from   *)
(* is gone, and room was made for the one it did not keep.                 *)
MapsAfterFailure(map, existing, state, given_up) ==
    LET rest == RestOf(state)
        kept == Delete(map, existing)
    IN CASE given_up = {} -> {map}
         [] given_up # {} /\ \E k \in given_up : Truncated(rest, k) -> MakeRoom(kept)
         [] OTHER -> {kept}

(* The used cursor is deleted first; then the next one is created.  With   *)
(* responses given up before, no more room is made than for this one.      *)
MapsAfterPage(map, existing, state, n, id) ==
    IF Truncated(RestOf(state), n)
    THEN {Insert(made, id, NextState(state, n)) : made \in MakeRoom(Delete(map, existing))}
    ELSE {Delete(map, existing)}

(* The client receives a page.                                             *)
Received(chain, state, n, id) ==
    LET rest == RestOf(state)
        more == Truncated(rest, n)
        page == [ phase |-> IF more THEN "reading" ELSE "done",
                  cursor |-> IF more THEN id ELSE NoCursor,
                  store |-> StoreOf(handles[state.db]),
                  got |-> chain.got \o Take(rest, n),
                  clean |-> TRUE ]
    IN IF chain.clean THEN page ELSE Disturbed(page)

(* A call answers with a page of n rows.  The answer may be lost.          *)
Page(cl, chain, map, existing, state) ==
    \E n \in PageSizes(RestOf(state), state.max_rows, MaxBytes), id \in FreshCursors :
        /\ entries' \in MapsAfterPage(map, existing, state, n, id)
        /\ \/ chains' = [chains EXCEPT ![cl] = Received(chain, state, n, id)]
           \/ UNCHANGED chains

(* No response fits the budget.                                            *)
PageTooLarge(map, existing, state) ==
    /\ MayExceedLimit(RestOf(state), state.max_rows, MaxBytes)
    /\ \E given_up \in GivenUp(RestOf(state), state.max_rows, MaxBytes, -1) :
         entries' \in MapsAfterFailure(map, existing, state, given_up)
    /\ UNCHANGED chains

TableReadable(db) ==
    db \in OpenDbs /\ tables[StoreOf(handles[db])] # NoTable

(* A new query.  Errors before the rows are read leave no trace.           *)
SqlQuery(cl) ==
    \E request \in Requests, max_rows \in RowLimits :
        LET db == DbOf(request)
            state == [ db |-> db, conn |-> handles[db].conn, offset |-> 0,
                       max_rows |-> max_rows ]
        IN /\ TableReadable(db)
           /\ \/ Page(cl, Idle, entries, NoCursor, state)
              \/ PageTooLarge(entries, NoCursor, state)
           /\ UNCHANGED << active_db_id, handles, tables >>

(* The client follows its continuation hint; the entry is found and its    *)
(* time to live refreshed.                                                 *)
ContinueQuery(cl) ==
    LET id == chains[cl].cursor
        map == Refreshed(EvictExpired(entries), id)
        state == entries[id].state
    IN /\ chains[cl].phase = "reading"
       /\ id \in Live(entries)
       /\ TableReadable(state.db)
       /\ \/ Page(cl, chains[cl], map, id, state)
          \/ PageTooLarge(map, id, state)
       /\ UNCHANGED << active_db_id, handles, tables >>

(* The entry is found, but the statement fails: the database or the table  *)
(* is gone, or SQLite reports an error while preparing or stepping.  The   *)
(* cursor stays usable.                                                    *)
ContinueFails(cl) ==
    LET id == chains[cl].cursor
    IN /\ chains[cl].phase = "reading"
       /\ id \in Live(entries)
       /\ entries' = Refreshed(EvictExpired(entries), id)
       /\ UNCHANGED << active_db_id, handles, tables, chains >>

(* NOT_FOUND: the entry expired, was evicted, used up or invalidated; the  *)
(* client has to start over.                                               *)
ContinueNotFound(cl) ==
    /\ chains[cl].phase = "reading"
    /\ chains[cl].cursor \notin Live(entries)
    /\ entries' = EvictExpired(entries)
    /\ chains' = [chains EXCEPT ![cl] = Idle]
    /\ UNCHANGED << active_db_id, handles, tables >>

(* A client loses interest in its result.                                  *)
Abandon(cl) ==
    /\ chains[cl].phase # "idle"
    /\ chains' = [chains EXCEPT ![cl] = Idle]
    /\ UNCHANGED << active_db_id, handles, entries, tables >>

Tick ==
    /\ Live(entries) # {}
    /\ entries' = Age(entries)
    /\ UNCHANGED << active_db_id, handles, tables, chains >>

Next ==
    \/ DbOpen
    \/ DbClose
    \/ Write
    \/ \E cl \in Clients :
         \/ SqlQuery(cl)
         \/ ContinueQuery(cl)
         \/ ContinueFails(cl)
         \/ ContinueNotFound(cl)
         \/ Abandon(cl)
    \/ Tick

Spec == Init /\ [][Next]_vars

-----------------------------------------------------------------------------
(* Properties                                                              *)

(* A cursor belongs to the connection its first page was read from: no     *)
(* reset, close or reopening of its db_id leaves it behind, to be resumed  *)
(* at its offset in another database (invalidate_db).                      *)
CursorsMatchHandle ==
    \A c \in DOMAIN entries :
        LET state == entries[c].state
        IN state.db \in OpenDbs /\ handles[state.db].conn = state.conn

(* The active database is an open one; when none is open it is the default *)
(* (open_db, close_db).                                                    *)
ActiveIsOpen ==
    IF OpenDbs = {} THEN active_db_id = DEFAULT_DB_ID ELSE active_db_id \in OpenDbs

(* The store never holds more cursors than its capacity.                   *)
WithinCapacity == Cardinality(DOMAIN entries) <= Capacity

(* Whatever the other clients do, and whichever answers are lost, a client *)
(* that follows its hints over an unchanging table receives its rows in    *)
(* order, none twice and none skipped, and all of them by the page that    *)
(* carries no cursor.                                                      *)
PagesAreContiguous ==
    \A cl \in Clients :
        LET chain == chains[cl]
        IN chain.phase # "idle" /\ chain.clean =>
             /\ tables[chain.store] # NoTable
             /\ Len(chain.got) <= Len(tables[chain.store])
             /\ chain.got = Take(tables[chain.store], Len(chain.got))
             /\ chain.phase = "done" => chain.got = tables[chain.store]

(* The live cursors that a step removes from the store.                    *)
Lost == Live(entries) \ DOMAIN entries'

(* Why c may go while its connection stays.  A call of its holder follows  *)
(* it; or a new query needs room, every place is taken by a live cursor,   *)
(* and none has been used longer ago than c.                               *)
Followed(c) == \E cl \in Clients : chains[cl].cursor = c /\ ContinueQuery(cl)

MadeRoom(c) ==
    /\ Cardinality(Live(entries)) = Capacity
    /\ \A d \in Live(entries) : entries[c].left <= entries[d].left
    /\ \E cl \in Clients : SqlQuery(cl)

(* While the databases stay open, a call costs at most one live cursor.    *)
(* Following a hint, which frees the place that its next cursor takes,     *)
(* costs the cursor followed and no other client's; a new query, even one  *)
(* that fails in the end, costs the least recently used one, and only when *)
(* the store is full of live ones.                                         *)
OneCursorPerCall ==
    [][handles' = handles /\ Lost # {} =>
          \E c \in Lost : Lost = {c} /\ (Followed(c) \/ MadeRoom(c))]_vars

(* Opening and closing databases costs the cursors of the connections that *)
(* are gone and no others, whether or not somebody is reading them; a      *)
(* failed reset, a write, and a continuation whose statement fails cost    *)
(* nobody a cursor.                                                        *)
CursorsLostForCause ==
    [][\A c \in Lost :
          LET state == entries[c].state
          IN \/ state.db \notin DOMAIN handles'
             \/ handles'[state.db].conn # state.conn
             \/ Followed(c)
             \/ MadeRoom(c)]_vars
=============================================================================
