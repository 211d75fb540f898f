----------------------------- MODULE DbRegistry -----------------------------
(***************************************************************************)
(* The registry of open databases (db/registry.rs): a map from db_id to an *)
(* open SQLite connection, and the active db_id.                           *)
(*                                                                         *)
(* A connection has an identity, which the code does not need: a db_id and *)
(* a generation, that tell the connection a handle holds now from the one  *)
(* it held before.                                                         *)
(***************************************************************************)
EXTENDS Integers

CONSTANTS
    DbIds,           \* database identifiers, as naturals in the order of their names
    DEFAULT_DB_ID,
    RawPaths,        \* paths as requests spell them
    ResolvedPaths,   \* canonical paths under the persistence root
    Resolve,         \* resolve_persist_path, a function on RawPaths
    NoPath,          \* an absent path; also what a rejected path resolves to
    HasPersistRoot,  \* whether SQLITE_PERSIST_ROOT is set
    Generations      \* tell the connections of one db_id apart

ASSUME RegistryAssumption ==
    /\ DbIds \subseteq Nat
    /\ DEFAULT_DB_ID \in DbIds
    /\ Resolve \in [RawPaths -> ResolvedPaths \union {NoPath}]
    /\ NoPath \notin RawPaths \union ResolvedPaths
    /\ HasPersistRoot \in BOOLEAN
    /\ Generations \subseteq Nat

VARIABLES active_db_id, handles

registry_vars == << active_db_id, handles >>

Modes == {"memory", "persist"}

Conns == DbIds \X Generations

Handles ==
    [mode : {"memory"}, path : {NoPath}, conn : Conns]
      \union [mode : {"persist"}, path : ResolvedPaths, conn : Conns]

OpenDbs == DOMAIN handles

RegistryTypeOK ==
    /\ active_db_id \in DbIds
    /\ OpenDbs \subseteq DbIds
    /\ handles \in [OpenDbs -> Handles]

LiveConns == {handles[db].conn : db \in OpenDbs}

(* The registry is created empty, with the default db_id active.           *)
RegistryDefault ==
    /\ active_db_id = DEFAULT_DB_ID
    /\ handles = [db \in {} |-> NoPath]

-----------------------------------------------------------------------------
(* open_db                                                                 *)

(* The stored path is the resolved one; it is compared with the path of    *)
(* the request as it stands.                                               *)
Conflicts(db, mode, raw) ==
    /\ db \in OpenDbs
    /\ \/ handles[db].mode # mode
       \/ handles[db].path # raw

(* The early returns for a db_id that is open and need not be reset.       *)
Reuses(db, mode, raw, reset) ==
    db \in OpenDbs /\ ~reset /\ ~Conflicts(db, mode, raw)

(* What a new connection needs before SQLite is asked.  SQLite and the     *)
(* file system may still refuse, and so may the size limits.               *)
MayConnect(db, mode, raw, reset) ==
    /\ db \in OpenDbs => reset
    /\ mode = "persist" =>
         HasPersistRoot /\ raw # NoPath /\ Resolve[raw] # NoPath

(* Deliberately wrong: the handle keeps the path as it was requested.      *)
NewHandleUnresolved(mode, raw, conn) ==
    [ mode |-> mode,
      path |-> IF mode = "memory" THEN NoPath ELSE raw,
      conn |-> conn ]

NewHandle(mode, raw, conn) ==
    [ mode |-> mode,
      path |-> IF mode = "memory" THEN NoPath ELSE Resolve[raw],
      conn |-> conn ]

(* Inserting a handle replaces the one the db_id had.                      *)
InsertHandle(db, handle) ==
    [d \in OpenDbs \union {db} |-> IF d = db THEN handle ELSE handles[d]]

OpenReuse(db, mode, raw, reset) ==
    /\ Reuses(db, mode, raw, reset)
    /\ active_db_id' = db
    /\ UNCHANGED handles

OpenConnect(db, mode, raw, reset, conn) ==
    /\ MayConnect(db, mode, raw, reset)
    /\ handles' = InsertHandle(db, NewHandle(mode, raw, conn))
    /\ active_db_id' = db

(* Every error of open_db precedes the insertion.                          *)
OpenFail(db, mode, raw, reset) ==
    /\ ~Reuses(db, mode, raw, reset)
    /\ UNCHANGED registry_vars

-----------------------------------------------------------------------------
(* close_db                                                                *)

RemoveHandle(db) == [d \in OpenDbs \ {db} |-> handles[d]]

Least(set) == {x \in set : \A y \in set : x <= y}

(* Deliberately wrong: the active database is only reset when none is left. *)
ActiveAfterCloseStale(db) ==
    IF OpenDbs \ {db} = {} THEN {DEFAULT_DB_ID} ELSE {active_db_id}

(* The active database once db is gone, the only element of this set.      *)
ActiveAfterClose(db) ==
    LET left == OpenDbs \ {db}
    IN CASE left = {} -> {DEFAULT_DB_ID}
         [] left # {} /\ active_db_id # db -> {active_db_id}
         [] left # {} /\ active_db_id = db ->
              IF DEFAULT_DB_ID \in left THEN {DEFAULT_DB_ID} ELSE Least(left)

CloseDb(db) ==
    /\ db \in OpenDbs
    /\ active_db_id' \in ActiveAfterClose(db)
    /\ handles' = RemoveHandle(db)
=============================================================================
