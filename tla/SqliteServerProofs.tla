------------------------ MODULE SqliteServerProofs --------------------------
(***************************************************************************)
(* Invariants of SqliteServer and what its steps may do to the cursors,    *)
(* for every number of databases, clients, cursors, files and tables.      *)
(***************************************************************************)
EXTENDS SqliteServer, FiniteSetTheorems, SequenceTheorems, TLAPS

-----------------------------------------------------------------------------
(* What the operations of the cursor store return.                         *)

LEMMA KeepMap ==
  ASSUME NEW map, EntryMap(map), NEW ids, ids \subseteq DOMAIN map
  PROVE  /\ EntryMap(Keep(map, ids))
         /\ DOMAIN Keep(map, ids) = ids
         /\ \A c \in ids : Keep(map, ids)[c] = map[c]
  BY DEF EntryMap, Keep

LEMMA EvictExpiredMap ==
  ASSUME NEW map, EntryMap(map)
  PROVE  /\ EntryMap(EvictExpired(map))
         /\ DOMAIN EvictExpired(map) = Live(map)
         /\ \A c \in Live(map) : EvictExpired(map)[c] = map[c]
  <1>1. Live(map) \subseteq DOMAIN map
    BY DEF Live
  <1> QED
    BY <1>1, KeepMap DEF EvictExpired

LEMMA MakeRoomMap ==
  ASSUME NEW map, EntryMap(map), NEW made \in MakeRoom(map)
  PROVE  /\ EntryMap(made)
         /\ DOMAIN made \subseteq DOMAIN map
         /\ \A c \in DOMAIN made : made[c] = map[c]
  <1> DEFINE live == EvictExpired(map)
  <1>1. /\ EntryMap(live)
        /\ DOMAIN live \subseteq DOMAIN map
        /\ \A c \in DOMAIN live : live[c] = map[c]
    BY EvictExpiredMap DEF Live
  <1>2. made = live \/ \E ids \in SUBSET DOMAIN live : made = Keep(live, ids)
    BY DEF MakeRoom, EvictToCapacity
  <1> HIDE DEF live
  <1> QED
    BY <1>1, <1>2, KeepMap

LEMMA DeleteMap ==
  ASSUME NEW map, EntryMap(map), NEW id
  PROVE  /\ EntryMap(Delete(map, id))
         /\ DOMAIN Delete(map, id) = DOMAIN map \ {id}
         /\ \A c \in DOMAIN map \ {id} : Delete(map, id)[c] = map[c]
  BY KeepMap DEF Delete

LEMMA InvalidateMap ==
  ASSUME NEW map, EntryMap(map), NEW db
  PROVE  /\ EntryMap(InvalidateDb(map, db))
         /\ DOMAIN InvalidateDb(map, db) = {c \in DOMAIN map : map[c].state.db # db}
         /\ \A c \in DOMAIN InvalidateDb(map, db) : InvalidateDb(map, db)[c] = map[c]
  BY KeepMap DEF InvalidateDb

LEMMA InsertMap ==
  ASSUME NEW map, EntryMap(map), NEW id \in CursorIds, NEW state \in CursorStates
  PROVE  /\ EntryMap(Insert(map, id, state))
         /\ DOMAIN Insert(map, id, state) = DOMAIN map \union {id}
         /\ Insert(map, id, state)[id].state = state
         /\ \A c \in DOMAIN map \ {id} : Insert(map, id, state)[c] = map[c]
  BY CursorAssumption DEF EntryMap, Insert, Entries

LEMMA RefreshedMap ==
  ASSUME NEW map, EntryMap(map), NEW id \in DOMAIN map
  PROVE  /\ EntryMap(Refreshed(map, id))
         /\ DOMAIN Refreshed(map, id) = DOMAIN map
         /\ \A c \in DOMAIN map : Refreshed(map, id)[c].state = map[c].state
  BY CursorAssumption DEF EntryMap, Refreshed, Entries

LEMMA AgeMap ==
  ASSUME NEW map, EntryMap(map)
  PROVE  /\ EntryMap(Age(map))
         /\ DOMAIN Age(map) = DOMAIN map
         /\ \A c \in DOMAIN map : Age(map)[c].state = map[c].state
  BY CursorAssumption DEF EntryMap, Age, Entries
-----------------------------------------------------------------------------
(* What a query leaves in the store: entries it found there, or the cursor *)
(* of its next page.                                                       *)

LEMMA NextStateType ==
  ASSUME NEW state \in CursorStates, NEW n \in Nat
  PROVE  /\ NextState(state, n) \in CursorStates
         /\ NextState(state, n).db = state.db
         /\ NextState(state, n).conn = state.conn
         /\ NextState(state, n).offset = state.offset + n
  BY DEF NextState, CursorStates

LEMMA AfterPage ==
  ASSUME NEW map, EntryMap(map), NEW existing, NEW state \in CursorStates,
         NEW n \in Nat, NEW id \in CursorIds,
         NEW new \in MapsAfterPage(map, existing, state, n, id)
  PROVE  /\ EntryMap(new)
         /\ DOMAIN new \subseteq DOMAIN map \union {id}
         /\ \A c \in DOMAIN new \ {id} : new[c] = map[c]
         /\ id \notin DOMAIN map =>
              (id \in DOMAIN new => new[id].state = NextState(state, n))
         /\ existing # id => existing \notin DOMAIN new
  <1> DEFINE kept == Delete(map, existing)
             next == NextState(state, n)
  <1>1. /\ EntryMap(kept)
        /\ DOMAIN kept = DOMAIN map \ {existing}
        /\ \A c \in DOMAIN kept : kept[c] = map[c]
    BY DeleteMap
  <1>2. next \in CursorStates
    BY NextStateType
  <1> HIDE DEF next
  <1>3. CASE \E made \in MakeRoom(kept) : new = Insert(made, id, next)
    <2>1. PICK made \in MakeRoom(kept) : new = Insert(made, id, next)
      BY <1>3
    <2> HIDE DEF kept
    <2>2. /\ EntryMap(made)
          /\ DOMAIN made \subseteq DOMAIN kept
          /\ \A c \in DOMAIN made : made[c] = kept[c]
      BY <1>1, MakeRoomMap
    <2>3. /\ EntryMap(new)
          /\ DOMAIN new = DOMAIN made \union {id}
          /\ new[id].state = next
          /\ \A c \in DOMAIN made \ {id} : new[c] = made[c]
      BY <2>1, <2>2, <1>2, InsertMap
    <2> QED
      BY <1>1, <2>2, <2>3 DEF next
  <1>4. CASE new = kept
    BY <1>1, <1>4
  <1>5. new = kept \/ \E made \in MakeRoom(kept) : new = Insert(made, id, next)
    BY DEF MapsAfterPage, next
  <1> QED
    BY <1>3, <1>4, <1>5

LEMMA AfterFailure ==
  ASSUME NEW map, EntryMap(map), NEW existing, NEW state, NEW given_up,
         NEW new \in MapsAfterFailure(map, existing, state, given_up)
  PROVE  /\ EntryMap(new)
         /\ DOMAIN new \subseteq DOMAIN map
         /\ \A c \in DOMAIN new : new[c] = map[c]
  <1> DEFINE kept == Delete(map, existing)
  <1>1. /\ EntryMap(kept)
        /\ DOMAIN kept \subseteq DOMAIN map
        /\ \A c \in DOMAIN kept : kept[c] = map[c]
    BY DeleteMap
  <1>2. new = map \/ new = kept \/ new \in MakeRoom(kept)
    BY DEF MapsAfterFailure
  <1> HIDE DEF kept
  <1> QED
    BY <1>1, <1>2, MakeRoomMap

LEMMA PageSizesNat ==
  ASSUME NEW rest, NEW max_rows, NEW max_bytes,
         NEW n \in PageSizes(rest, max_rows, max_bytes)
  PROVE  n \in 0 .. Len(rest)
  BY DEF PageSizes, Collected

LEMMA RestRows ==
  ASSUME TypeOK, NEW state \in CursorStates, TableReadable(state.db)
  PROVE  /\ StoreOf(handles[state.db]) \in Stores
         /\ tables[StoreOf(handles[state.db])] \in Seq(Rows)
         /\ RestOf(state) \in Seq(Rows)
  <1> DEFINE store == StoreOf(handles[state.db])
             table == tables[store]
  <1>1. handles[state.db] \in Handles
    BY DEF TypeOK, RegistryTypeOK, TableReadable, OpenDbs
  <1>2. store \in Stores
    BY <1>1 DEF StoreOf, Handles, Stores
  <1>3. table \in Seq(Rows)
    BY <1>2, ServerAssumption DEF TypeOK, TableReadable
  <1>4. state.offset \in Nat /\ Len(table) \in Nat
    BY <1>3 DEF CursorStates
  <1> HIDE DEF store, table
  <1>5. \A i \in (state.offset + 1) .. Len(table) : table[i] \in Rows
    BY <1>3, <1>4
  <1>6. SubSeq(table, state.offset + 1, Len(table)) \in Seq(Rows)
    BY <1>4, <1>5, SubSeqProperties
  <1> QED
    BY <1>2, <1>3, <1>6 DEF RestOf, Drop, store, table

LEMMA TakeRows ==
  ASSUME NEW rows \in Seq(Rows), NEW n \in 0 .. Len(rows)
  PROVE  /\ Take(rows, n) \in Seq(Rows)
         /\ Len(Take(rows, n)) = n
  <1>1. \A i \in 1 .. n : rows[i] \in Rows
    OBVIOUS
  <1> QED
    BY <1>1, SubSeqProperties DEF Take

(* A page: the new map, and the chain its client may hold afterwards.      *)
LEMMA PageStep ==
  ASSUME TypeOK, NEW cl \in Clients, NEW chain \in Chains, NEW map, EntryMap(map),
         NEW existing, NEW state \in CursorStates, TableReadable(state.db),
         Page(cl, chain, map, existing, state)
  PROVE  \E n \in Nat, id \in CursorIds \ HeldCursors :
           /\ n <= Len(RestOf(state))
           /\ entries' \in MapsAfterPage(map, existing, state, n, id)
           /\ \/ chains' = [chains EXCEPT ![cl] = Received(chain, state, n, id)]
              \/ UNCHANGED chains
           /\ Received(chain, state, n, id) \in Chains
  <1>1. PICK n \in PageSizes(RestOf(state), state.max_rows, MaxBytes), id \in FreshCursors :
           /\ entries' \in MapsAfterPage(map, existing, state, n, id)
           /\ \/ chains' = [chains EXCEPT ![cl] = Received(chain, state, n, id)]
              \/ UNCHANGED chains
    BY DEF Page
  <1>2. /\ RestOf(state) \in Seq(Rows)
        /\ StoreOf(handles[state.db]) \in Stores
    BY RestRows
  <1>3. n \in 0 .. Len(RestOf(state))
    BY PageSizesNat
  <1>4. id \in CursorIds \ HeldCursors
    BY DEF FreshCursors, Least
  <1>5. chain.got \o Take(RestOf(state), n) \in Seq(Rows)
    BY <1>2, <1>3, TakeRows, ConcatProperties DEF Chains
  <1>6. Received(chain, state, n, id) \in Chains
    <2> DEFINE rest == RestOf(state)
               store == StoreOf(handles[state.db])
               got == chain.got \o Take(rest, n)
               page == [ phase |-> IF Truncated(rest, n) THEN "reading" ELSE "done",
                         cursor |-> IF Truncated(rest, n) THEN id ELSE NoCursor,
                         store |-> store, got |-> got, clean |-> TRUE ]
    <2>1. Received(chain, state, n, id) = IF chain.clean THEN page ELSE Disturbed(page)
      BY DEF Received
    <2>2. store \in Stores /\ got \in Seq(Rows) /\ id \in CursorIds
      BY <1>2, <1>4, <1>5
    <2> HIDE DEF store, got
    <2>3. page \in Chains
      BY <2>2 DEF Chains
    <2>4. Disturbed(page) \in Chains
      BY <2>3, EmptySeq DEF Chains, Disturbed
    <2> QED
      BY <2>1, <2>3, <2>4
  <1> QED
    BY <1>1, <1>2, <1>3, <1>4, <1>6

LEMMA WriteType ==
  ASSUME TypeOK, NEW new \in [Stores -> Tables \union {NoTable}], WriteTables(new)
  PROVE  /\ tables' \in [Stores -> Tables \union {NoTable}]
         /\ chains' \in [Clients -> Chains]
  <1>1. \A cl \in Clients : chains[cl] \in Chains
    BY DEF TypeOK
  <1>2. \A chain \in Chains : Disturbed(chain) \in Chains
    BY EmptySeq DEF Chains, Disturbed
  <1> QED
    BY <1>1, <1>2 DEF WriteTables

LEMMA DropType ==
  ASSUME TypeOK, NEW db \in DbIds, DropMemory(db)
  PROVE  /\ tables' \in [Stores -> Tables \union {NoTable}]
         /\ chains' \in [Clients -> Chains]
  <1>1. CASE db \in OpenDbs /\ handles[db].mode = "memory"
    <2> DEFINE new == [tables EXCEPT ![handles[db].conn] = NoTable]
    <2>1. new \in [Stores -> Tables \union {NoTable}]
      BY DEF TypeOK
    <2>2. WriteTables(new)
      BY <1>1 DEF DropMemory
    <2> QED
      BY <2>1, <2>2, WriteType
  <1>2. CASE ~(db \in OpenDbs /\ handles[db].mode = "memory")
    BY <1>2 DEF DropMemory, TypeOK
  <1> QED
    BY <1>1, <1>2

-----------------------------------------------------------------------------
(* Type correctness.                                                       *)

LEMMA InitType == Init => TypeOK
  <1> SUFFICES ASSUME Init PROVE TypeOK
    OBVIOUS
  <1>1. Idle \in Chains
    BY EmptySeq DEF Idle, Chains
  <1>2. EntryMap(entries) /\ tables \in [Stores -> Tables \union {NoTable}]
        /\ chains \in [Clients -> Chains]
    BY <1>1 DEF Init, EntryMap
  <1>3. RegistryTypeOK
    <2>1. CASE RegistryDefault
      BY <2>1, RegistryAssumption DEF RegistryDefault, RegistryTypeOK, OpenDbs
    <2>2. ASSUME NEW conn \in {DEFAULT_DB_ID} \X Least(Generations), NEW mode \in Modes,
                 NEW raw \in RawPaths \union {NoPath},
                 mode = "persist" => raw \in RawPaths /\ Resolve[raw] # NoPath,
                 Bootstrapped(mode, raw, conn)
          PROVE  RegistryTypeOK
      <3>1. conn \in Conns
        BY RegistryAssumption DEF Conns, Least
      <3>2. NewHandle(mode, raw, conn) \in Handles
        BY <2>2, <3>1, RegistryAssumption DEF NewHandle, Handles, Modes
      <3> QED
        BY <2>2, <3>2, RegistryAssumption DEF Bootstrapped, RegistryTypeOK, OpenDbs
    <2>3. CASE \E conn \in {DEFAULT_DB_ID} \X Least(Generations) :
                  Bootstrapped("memory", NoPath, conn)
      BY <2>2, <2>3 DEF Modes
    <2>4. CASE \E conn \in {DEFAULT_DB_ID} \X Least(Generations), raw \in RawPaths :
                  /\ HasPersistRoot /\ Resolve[raw] # NoPath
                  /\ Bootstrapped("persist", raw, conn)
      BY <2>2, <2>4 DEF Modes
    <2> QED
      BY <2>1, <2>3, <2>4 DEF Init
  <1> QED
    BY <1>2, <1>3 DEF TypeOK

LEMMA ConnectType ==
  ASSUME TypeOK, NEW db \in DbIds, NEW mode \in Modes, NEW raw \in RawPaths \union {NoPath},
         NEW reset \in BOOLEAN, NEW conn \in Conns, OpenConnect(db, mode, raw, reset, conn)
  PROVE  RegistryTypeOK'
  <1>1. NewHandle(mode, raw, conn) \in Handles
    BY RegistryAssumption DEF OpenConnect, MayConnect, NewHandle, Handles, Modes
  <1>2. handles' = [d \in OpenDbs \union {db} |->
                      IF d = db THEN NewHandle(mode, raw, conn) ELSE handles[d]]
    BY DEF OpenConnect, InsertHandle
  <1>3. active_db_id' = db
    BY DEF OpenConnect
  <1> QED
    BY <1>1, <1>2, <1>3 DEF TypeOK, RegistryTypeOK, OpenDbs

LEMMA CloseRegistry ==
  ASSUME TypeOK, NEW db \in DbIds, CloseDb(db)
  PROVE  RegistryTypeOK' /\ (ActiveIsOpen => ActiveIsOpen')
  <1> DEFINE left == OpenDbs \ {db}
  <1>1. handles' = [d \in left |-> handles[d]] /\ OpenDbs' = left
    BY DEF CloseDb, RemoveHandle, OpenDbs
  <1>2. OpenDbs \subseteq DbIds /\ left \subseteq Nat
    BY RegistryAssumption DEF TypeOK, RegistryTypeOK
  <1>3. CASE left = {}
    <2>1. active_db_id' = DEFAULT_DB_ID
      BY <1>3 DEF CloseDb, ActiveAfterClose
    <2> QED
      BY <1>1, <1>2, <1>3, <2>1, RegistryAssumption
      DEF TypeOK, RegistryTypeOK, OpenDbs, ActiveIsOpen
  <1>4. CASE left # {} /\ active_db_id # db
    <2>1. active_db_id' = active_db_id
      BY <1>4 DEF CloseDb, ActiveAfterClose
    <2> QED
      BY <1>1, <1>2, <1>4, <2>1 DEF TypeOK, RegistryTypeOK, OpenDbs, ActiveIsOpen
  <1>5. CASE left # {} /\ active_db_id = db
    <2>1. active_db_id' \in IF DEFAULT_DB_ID \in left THEN {DEFAULT_DB_ID} ELSE Least(left)
      BY <1>5 DEF CloseDb, ActiveAfterClose
    <2>2. active_db_id' \in left
      BY <1>5, <2>1 DEF Least
    <2> QED
      BY <1>1, <1>2, <1>5, <2>2 DEF TypeOK, RegistryTypeOK, OpenDbs, ActiveIsOpen
  <1> QED
    BY <1>3, <1>4, <1>5

-----------------------------------------------------------------------------
(* The steps, each preserving the types, the active database and the       *)
(* connection of every cursor.                                             *)

Registered == TypeOK /\ ActiveIsOpen /\ CursorsMatchHandle

(* Every entry of new was there before, unchanged but for its age.         *)
Inherits(new, map) ==
    /\ DOMAIN new \subseteq DOMAIN map
    /\ \A c \in DOMAIN new : new[c].state = map[c].state

LEMMA InheritedMatch ==
  ASSUME CursorsMatchHandle, Inherits(entries', entries),
         \A c \in DOMAIN entries' :
            LET state == entries[c].state
            IN state.db \in OpenDbs' /\ handles'[state.db] = handles[state.db]
  PROVE  CursorsMatchHandle'
  BY DEF CursorsMatchHandle, Inherits

LEMMA InvalidateInherits ==
  ASSUME NEW map, EntryMap(map), NEW db
  PROVE  /\ EntryMap(InvalidateDb(map, db))
         /\ Inherits(InvalidateDb(map, db), map)
         /\ \A c \in DOMAIN InvalidateDb(map, db) : map[c].state.db # db
  <1> DEFINE new == InvalidateDb(map, db)
  <1>1. /\ EntryMap(new)
        /\ DOMAIN new = {c \in DOMAIN map : map[c].state.db # db}
        /\ \A c \in DOMAIN new : new[c] = map[c]
    BY InvalidateMap
  <1> HIDE DEF new
  <1>2. EntryMap(new) /\ Inherits(new, map) /\ \A c \in DOMAIN new : map[c].state.db # db
    BY <1>1 DEF Inherits
  <1> QED
    BY <1>2 DEF new

LEMMA DbOfRequest ==
  ASSUME NEW request \in Requests
  PROVE  DbOf(request) \in DbIds
  BY RegistryAssumption, ServerAssumption DEF DbOf

LEMMA OpenStep ==
  ASSUME Registered, DbOpen
  PROVE  Registered'
  <1>1. PICK request \in Requests, mode \in Modes, raw \in RawPaths \union {NoPath},
             reset \in BOOLEAN :
               \/ DbOpenReuse(DbOf(request), mode, raw)
               \/ DbOpenConnect(DbOf(request), mode, raw, reset)
               \/ DbOpenFail(DbOf(request), mode, raw, reset)
    BY DEF DbOpen
  <1> DEFINE db == DbOf(request)
  <1>2. db \in DbIds
    BY DbOfRequest
  <1> HIDE DEF db
  <1>3. CASE DbOpenReuse(db, mode, raw)
    <2>1. UNCHANGED << handles, entries, tables, chains >> /\ active_db_id' = db
      BY <1>3 DEF DbOpenReuse, OpenReuse
    <2>2. db \in OpenDbs
      BY <1>3 DEF DbOpenReuse, OpenReuse, Reuses
    <2> QED
      BY <1>2, <2>1, <2>2 DEF Registered, TypeOK, RegistryTypeOK, EntryMap, OpenDbs,
                              ActiveIsOpen, CursorsMatchHandle
  <1>4. CASE DbOpenConnect(db, mode, raw, reset)
    <2>1. PICK conn \in FreshConns(db) :
              /\ OpenConnect(db, mode, raw, reset, conn)
              /\ DropMemory(db)
              /\ entries' = IF reset THEN InvalidateDb(entries, db) ELSE entries
      BY <1>4 DEF DbOpenConnect
    <2>2. conn \in Conns
      <3>1. PICK gen \in Generations : conn = <<db, gen>>
        BY <2>1 DEF FreshConns, Least
      <3> QED
        BY <1>2, <3>1 DEF Conns
    <2>3. RegistryTypeOK'
      BY <1>2, <2>1, <2>2, ConnectType DEF Registered
    <2>4. /\ tables' \in [Stores -> Tables \union {NoTable}]
          /\ chains' \in [Clients -> Chains]
      BY <1>2, <2>1, DropType DEF Registered
    <2>5. EntryMap(entries)
      BY DEF Registered, TypeOK
    <2>6. /\ EntryMap(entries')
          /\ Inherits(entries', entries)
          /\ \A c \in DOMAIN entries' : reset => entries[c].state.db # db
      <3>1. CASE reset
        BY <2>1, <2>5, <3>1, InvalidateInherits
      <3>2. CASE ~reset
        BY <2>1, <2>5, <3>2 DEF Inherits, EntryMap
      <3> QED
        BY <3>1, <3>2
    <2>7. active_db_id' = db
      BY <2>1 DEF OpenConnect
    <2>8. /\ OpenDbs' = OpenDbs \union {db}
          /\ \A d \in OpenDbs \ {db} : handles'[d] = handles[d]
          /\ db \in OpenDbs => reset
      BY <2>1 DEF OpenConnect, InsertHandle, MayConnect, OpenDbs
    <2>9. CursorsMatchHandle'
      <3>1. \A c \in DOMAIN entries' :
              entries[c].state.db \in OpenDbs \ {db}
        BY <2>6, <2>8 DEF Registered, CursorsMatchHandle, Inherits
      <3> QED
        BY <2>6, <2>8, <3>1, InheritedMatch DEF Registered
    <2>10. ActiveIsOpen'
      BY <2>7, <2>8 DEF ActiveIsOpen
    <2> QED
      BY <2>3, <2>4, <2>6, <2>9, <2>10 DEF Registered, TypeOK
  <1>5. CASE DbOpenFail(db, mode, raw, reset)
    BY <1>5 DEF DbOpenFail, OpenFail, registry_vars, Registered, TypeOK, RegistryTypeOK,
                EntryMap, OpenDbs, ActiveIsOpen, CursorsMatchHandle
  <1> QED
    BY <1>1, <1>3, <1>4, <1>5 DEF db

LEMMA CloseStep ==
  ASSUME Registered, DbClose
  PROVE  Registered'
  <1>1. PICK request \in DbIds \union {NoDb} :
              /\ CloseDb(DbToClose(request))
              /\ DropMemory(DbToClose(request))
              /\ entries' = InvalidateDb(entries, DbToClose(request))
    BY DEF DbClose
  <1> DEFINE db == DbToClose(request)
  <1>2. db \in DbIds
    BY DEF DbToClose, Registered, TypeOK, RegistryTypeOK
  <1> HIDE DEF db
  <1>3. CloseDb(db) /\ DropMemory(db) /\ entries' = InvalidateDb(entries, db)
    BY <1>1 DEF db
  <1>4. RegistryTypeOK' /\ ActiveIsOpen'
    BY <1>2, <1>3, CloseRegistry DEF Registered
  <1>5. /\ tables' \in [Stores -> Tables \union {NoTable}]
        /\ chains' \in [Clients -> Chains]
    BY <1>2, <1>3, DropType DEF Registered
  <1>6. EntryMap(entries)
    BY DEF Registered, TypeOK
  <1>7. /\ EntryMap(entries')
        /\ Inherits(entries', entries)
        /\ \A c \in DOMAIN entries' : entries[c].state.db # db
    BY <1>3, <1>6, InvalidateInherits
  <1>8. /\ OpenDbs' = OpenDbs \ {db}
        /\ \A d \in OpenDbs \ {db} : handles'[d] = handles[d]
    BY <1>3 DEF CloseDb, RemoveHandle, OpenDbs
  <1>9. CursorsMatchHandle'
    <2>1. \A c \in DOMAIN entries' : entries[c].state.db \in OpenDbs \ {db}
      BY <1>7 DEF Registered, CursorsMatchHandle, Inherits
    <2> QED
      BY <1>7, <1>8, <2>1, InheritedMatch DEF Registered
  <1> QED
    BY <1>4, <1>5, <1>7, <1>9 DEF Registered, TypeOK

LEMMA WriteStep ==
  ASSUME Registered, Write
  PROVE  Registered'
  <1>1. PICK request \in Requests, content \in Tables \union {NoTable} :
          /\ WriteTables([tables EXCEPT ![StoreOf(handles[DbOf(request)])] = content])
          /\ UNCHANGED << active_db_id, handles, entries >>
    BY DEF Write
  <1>2. [tables EXCEPT ![StoreOf(handles[DbOf(request)])] = content]
          \in [Stores -> Tables \union {NoTable}]
    BY DEF Registered, TypeOK
  <1>3. /\ tables' \in [Stores -> Tables \union {NoTable}]
        /\ chains' \in [Clients -> Chains]
    BY <1>1, <1>2, WriteType DEF Registered
  <1> QED
    BY <1>1, <1>3 DEF Registered, TypeOK, RegistryTypeOK, EntryMap, OpenDbs,
                      ActiveIsOpen, CursorsMatchHandle

(* A step that leaves the registry and the tables alone.                   *)
LEMMA CursorStep ==
  ASSUME Registered, UNCHANGED << active_db_id, handles, tables >>,
         EntryMap(entries'), Inherits(entries', entries),
         chains' \in [Clients -> Chains]
  PROVE  Registered'
  <1>1. CursorsMatchHandle'
    BY InheritedMatch DEF Registered, CursorsMatchHandle, OpenDbs, Inherits
  <1> QED
    BY <1>1 DEF Registered, TypeOK, RegistryTypeOK, OpenDbs, ActiveIsOpen

(* A query that reads from the connection of state.                        *)
LEMMA ReadStep ==
  ASSUME Registered, UNCHANGED << active_db_id, handles, tables >>,
         NEW cl \in Clients, NEW chain \in Chains,
         NEW map, EntryMap(map), Inherits(map, entries), NEW existing,
         NEW state \in CursorStates, TableReadable(state.db),
         handles[state.db].conn = state.conn,
         \/ Page(cl, chain, map, existing, state)
         \/ PageTooLarge(map, existing, state)
  PROVE  Registered'
  <1>1. TypeOK
    BY DEF Registered
  <1>2. CASE Page(cl, chain, map, existing, state)
    <2>1. PICK n \in Nat, id \in CursorIds \ HeldCursors :
            /\ entries' \in MapsAfterPage(map, existing, state, n, id)
            /\ \/ chains' = [chains EXCEPT ![cl] = Received(chain, state, n, id)]
               \/ UNCHANGED chains
            /\ Received(chain, state, n, id) \in Chains
      BY <1>1, <1>2, PageStep
    <2>2. id \notin DOMAIN map
      BY <2>1 DEF HeldCursors, Inherits
    <2>3. /\ EntryMap(entries')
          /\ DOMAIN entries' \subseteq DOMAIN map \union {id}
          /\ \A c \in DOMAIN entries' \ {id} : entries'[c] = map[c]
          /\ id \in DOMAIN entries' => entries'[id].state = NextState(state, n)
      <3>1. ASSUME NEW new \in MapsAfterPage(map, existing, state, n, id)
            PROVE  /\ EntryMap(new)
                   /\ DOMAIN new \subseteq DOMAIN map \union {id}
                   /\ \A c \in DOMAIN new \ {id} : new[c] = map[c]
                   /\ id \in DOMAIN new => new[id].state = NextState(state, n)
        <4>1. id \in CursorIds
          OBVIOUS
        <4>2. id \notin DOMAIN map =>
                (id \in DOMAIN new => new[id].state = NextState(state, n))
          BY <4>1, AfterPage
        <4>3. EntryMap(new) /\ DOMAIN new \subseteq DOMAIN map \union {id}
          BY <4>1, AfterPage
        <4>4. \A c \in DOMAIN new \ {id} : new[c] = map[c]
          BY <4>1, AfterPage
        <4> QED
          BY <2>2, <4>2, <4>3, <4>4
      <3> QED
        BY <2>1, <3>1
    <2>4. chains' \in [Clients -> Chains]
      BY <1>1, <2>1 DEF TypeOK
    <2>5. ASSUME NEW c \in DOMAIN entries'
          PROVE  LET new == entries'[c].state
                 IN new.db \in OpenDbs /\ handles[new.db].conn = new.conn
      <3>1. CASE c = id
        BY <2>3, <3>1, NextStateType DEF TableReadable
      <3>2. CASE c # id
        BY <2>3, <3>2 DEF Registered, CursorsMatchHandle, Inherits
      <3> QED
        BY <3>1, <3>2
    <2>6. CursorsMatchHandle'
      BY <2>5 DEF CursorsMatchHandle, OpenDbs
    <2> QED
      BY <2>3, <2>4, <2>6 DEF Registered, TypeOK, RegistryTypeOK, OpenDbs, ActiveIsOpen
  <1>3. CASE PageTooLarge(map, existing, state)
    <2>1. UNCHANGED chains /\ EntryMap(entries') /\ Inherits(entries', map)
      BY <1>3, AfterFailure DEF PageTooLarge, Inherits
    <2>2. Inherits(entries', entries)
      BY <2>1 DEF Inherits
    <2> QED
      BY <1>1, <2>1, <2>2, CursorStep DEF TypeOK
  <1> QED
    BY <1>2, <1>3

LEMMA QueryStep ==
  ASSUME Registered, NEW cl \in Clients, SqlQuery(cl)
  PROVE  Registered'
  <1>1. PICK request \in Requests, max_rows \in RowLimits :
          LET db == DbOf(request)
              state == [ db |-> db, conn |-> handles[db].conn, offset |-> 0,
                         max_rows |-> max_rows ]
          IN /\ TableReadable(db)
             /\ \/ Page(cl, Idle, entries, NoCursor, state)
                \/ PageTooLarge(entries, NoCursor, state)
             /\ UNCHANGED << active_db_id, handles, tables >>
    BY DEF SqlQuery
  <1> DEFINE db == DbOf(request)
             state == [ db |-> db, conn |-> handles[db].conn, offset |-> 0,
                        max_rows |-> max_rows ]
  <1>2. db \in OpenDbs /\ handles[db] \in Handles
    BY <1>1 DEF TableReadable, Registered, TypeOK, RegistryTypeOK, OpenDbs
  <1>3. state \in CursorStates
    BY <1>2, DbOfRequest DEF CursorStates, Handles
  <1>4. Idle \in Chains
    BY EmptySeq DEF Idle, Chains
  <1>5. EntryMap(entries) /\ Inherits(entries, entries)
    BY DEF Registered, TypeOK, Inherits
  <1>6. /\ state.db = db /\ handles[state.db].conn = state.conn
        /\ TableReadable(state.db)
        /\ \/ Page(cl, Idle, entries, NoCursor, state)
           \/ PageTooLarge(entries, NoCursor, state)
        /\ UNCHANGED << active_db_id, handles, tables >>
    BY <1>1
  <1> HIDE DEF state
  <1> QED
    BY <1>3, <1>4, <1>5, <1>6, ReadStep

(* The map a continued query works on.                                     *)
LEMMA RefreshedEntries ==
  ASSUME EntryMap(entries), NEW id \in Live(entries)
  PROVE  LET map == Refreshed(EvictExpired(entries), id)
         IN EntryMap(map) /\ DOMAIN map = Live(entries) /\ Inherits(map, entries)
  <1>1. /\ EntryMap(EvictExpired(entries))
        /\ DOMAIN EvictExpired(entries) = Live(entries)
        /\ \A c \in Live(entries) : EvictExpired(entries)[c] = entries[c]
    BY EvictExpiredMap
  <1>2. Live(entries) \subseteq DOMAIN entries
    BY DEF Live
  <1> QED
    BY <1>1, <1>2, RefreshedMap DEF Inherits

LEMMA ContinueStep ==
  ASSUME Registered, NEW cl \in Clients, ContinueQuery(cl)
  PROVE  Registered'
  <1> DEFINE id == chains[cl].cursor
             map == Refreshed(EvictExpired(entries), id)
             state == entries[id].state
  <1>1. /\ id \in Live(entries)
        /\ TableReadable(state.db)
        /\ \/ Page(cl, chains[cl], map, id, state)
           \/ PageTooLarge(map, id, state)
        /\ UNCHANGED << active_db_id, handles, tables >>
    BY DEF ContinueQuery
  <1>2. EntryMap(entries) /\ chains[cl] \in Chains
    BY DEF Registered, TypeOK
  <1>3. EntryMap(map) /\ Inherits(map, entries)
    BY <1>1, <1>2, RefreshedEntries
  <1>4. id \in DOMAIN entries
    BY <1>1 DEF Live
  <1>5. state \in CursorStates
    BY <1>2, <1>4 DEF EntryMap, Entries
  <1>6. handles[state.db].conn = state.conn
    BY <1>4 DEF Registered, CursorsMatchHandle
  <1> HIDE DEF map, state, id
  <1> QED
    BY <1>1, <1>2, <1>3, <1>5, <1>6, ReadStep

LEMMA ClientStep ==
  ASSUME Registered, NEW cl \in Clients,
         ContinueFails(cl) \/ ContinueNotFound(cl) \/ Abandon(cl)
  PROVE  Registered'
  <1>1. /\ EntryMap(entries) /\ chains \in [Clients -> Chains]
        /\ Inherits(entries, entries)
        /\ UNCHANGED << active_db_id, handles, tables >>
    BY DEF Registered, TypeOK, Inherits, ContinueFails, ContinueNotFound, Abandon
  <1>2. [chains EXCEPT ![cl] = Idle] \in [Clients -> Chains]
    BY <1>1, EmptySeq DEF Idle, Chains
  <1>3. CASE ContinueFails(cl)
    BY <1>1, <1>3, RefreshedEntries, CursorStep DEF ContinueFails
  <1>4. CASE ContinueNotFound(cl)
    <2>1. EntryMap(EvictExpired(entries)) /\ Inherits(EvictExpired(entries), entries)
      BY <1>1, EvictExpiredMap DEF Inherits, Live
    <2> QED
      BY <1>1, <1>2, <1>4, <2>1, CursorStep DEF ContinueNotFound
  <1>5. CASE Abandon(cl)
    BY <1>1, <1>2, <1>5, CursorStep DEF Abandon
  <1> QED
    BY <1>3, <1>4, <1>5

LEMMA TickStep ==
  ASSUME Registered, Tick
  PROVE  Registered'
  <1>1. EntryMap(entries) /\ chains \in [Clients -> Chains]
    BY DEF Registered, TypeOK
  <1>2. EntryMap(Age(entries)) /\ Inherits(Age(entries), entries)
    BY <1>1, AgeMap DEF Inherits
  <1> QED
    BY <1>1, <1>2, CursorStep DEF Tick

THEOREM RegisteredCorrect == Spec => []Registered
  <1>1. Init => Registered
    <2> SUFFICES ASSUME Init PROVE Registered
      OBVIOUS
    <2>1. TypeOK
      BY InitType
    <2>2. ActiveIsOpen /\ CursorsMatchHandle
      BY DEF Init, RegistryDefault, Bootstrapped, ActiveIsOpen, CursorsMatchHandle, OpenDbs
    <2> QED
      BY <2>1, <2>2 DEF Registered
  <1>2. Registered /\ [Next]_vars => Registered'
    <2> SUFFICES ASSUME Registered, [Next]_vars PROVE Registered'
      OBVIOUS
    <2>1. CASE DbOpen
      BY <2>1, OpenStep
    <2>2. CASE DbClose
      BY <2>2, CloseStep
    <2>3. CASE Write
      BY <2>3, WriteStep
    <2>4. ASSUME NEW cl \in Clients, SqlQuery(cl) PROVE Registered'
      BY <2>4, QueryStep
    <2>5. ASSUME NEW cl \in Clients, ContinueQuery(cl) PROVE Registered'
      BY <2>5, ContinueStep
    <2>6. ASSUME NEW cl \in Clients,
                 ContinueFails(cl) \/ ContinueNotFound(cl) \/ Abandon(cl)
          PROVE  Registered'
      BY <2>6, ClientStep
    <2>7. CASE Tick
      BY <2>7, TickStep
    <2>8. CASE UNCHANGED vars
      BY <2>8 DEF vars, Registered, TypeOK, RegistryTypeOK, EntryMap, OpenDbs,
                  ActiveIsOpen, CursorsMatchHandle
    <2> QED
      BY <2>1, <2>2, <2>3, <2>4, <2>5, <2>6, <2>7, <2>8 DEF Next
  <1> QED
    BY <1>1, <1>2, PTL DEF Spec

(* Every variable keeps its type: handles hold resolved paths, saved query *)
(* contexts name databases and offsets, chains hold rows.                  *)
THEOREM TypeCorrect == Spec => []TypeOK
  BY RegisteredCorrect, PTL DEF Registered

(* open_db and close_db keep the active db_id open, or default when        *)
(* nothing is.                                                             *)
THEOREM ActiveCorrect == Spec => []ActiveIsOpen
  BY RegisteredCorrect, PTL DEF Registered

(* No cursor outlives the connection its result was read from, whatever    *)
(* sequence of opens, resets and closes (failing ones included) it sees.   *)
THEOREM CursorsCorrect == Spec => []CursorsMatchHandle
  BY RegisteredCorrect, PTL DEF Registered

-----------------------------------------------------------------------------
(* The shapes of the steps.                                                *)

(* Connections of the cursors that are left have not changed, and tables   *)
(* change, if at all, together with the chains that read them.             *)
RegistryShape ==
    /\ Inherits(entries', entries)
    /\ \A c \in DOMAIN entries' :
          handles'[entries[c].state.db] = handles[entries[c].state.db]
    /\ (\E new : WriteTables(new)) \/ UNCHANGED << tables, chains >>

(* Cursors are lost at most, and chains end.                               *)
CursorShape(cl) ==
    /\ Inherits(entries', entries)
    /\ UNCHANGED << handles, tables >>
    /\ chains' = [chains EXCEPT ![cl] = Idle] \/ UNCHANGED chains

(* A page of n rows is answered from state, which the query starts with or *)
(* finds at the client's cursor.                                           *)
PageShape(cl, chain, map, existing, state) ==
    /\ EntryMap(map) /\ Inherits(map, entries)
    /\ state \in CursorStates /\ TableReadable(state.db)
    /\ UNCHANGED << handles, tables >>
    /\ \/ chain = Idle /\ state.offset = 0
       \/ /\ chain = chains[cl] /\ chain.phase = "reading"
          /\ chain.cursor \in DOMAIN entries
          /\ state = entries[chain.cursor].state
    /\ Page(cl, chain, map, existing, state)

LEMMA DropShape ==
  ASSUME NEW db, DropMemory(db)
  PROVE  (\E new : WriteTables(new)) \/ UNCHANGED << tables, chains >>
  BY DEF DropMemory

LEMMA OpenShape ==
  ASSUME Registered, DbOpen
  PROVE  RegistryShape
  <1>1. PICK request \in Requests, mode \in Modes, raw \in RawPaths \union {NoPath},
             reset \in BOOLEAN :
               \/ DbOpenReuse(DbOf(request), mode, raw)
               \/ DbOpenConnect(DbOf(request), mode, raw, reset)
               \/ DbOpenFail(DbOf(request), mode, raw, reset)
    BY DEF DbOpen
  <1> DEFINE db == DbOf(request)
  <1>2. EntryMap(entries)
    BY DEF Registered, TypeOK
  <1>3. CASE DbOpenReuse(db, mode, raw)
    BY <1>3 DEF DbOpenReuse, OpenReuse, RegistryShape, Inherits
  <1>4. CASE DbOpenConnect(db, mode, raw, reset)
    <2> HIDE DEF db
    <2>1. PICK conn : /\ OpenConnect(db, mode, raw, reset, conn)
                      /\ DropMemory(db)
                      /\ entries' = IF reset THEN InvalidateDb(entries, db) ELSE entries
      BY <1>4 DEF DbOpenConnect
    <2>2. /\ \A d \in OpenDbs \ {db} : handles'[d] = handles[d]
          /\ db \in OpenDbs => reset
      BY <2>1 DEF OpenConnect, InsertHandle, MayConnect
    <2>3. Inherits(entries', entries) /\ \A c \in DOMAIN entries' : reset => entries[c].state.db # db
      <3>1. CASE reset
        BY <1>2, <2>1, <3>1, InvalidateInherits
      <3>2. CASE ~reset
        BY <2>1, <3>2 DEF Inherits
      <3> QED
        BY <3>1, <3>2
    <2>4. \A c \in DOMAIN entries' : entries[c].state.db \in OpenDbs \ {db}
      BY <2>2, <2>3 DEF Registered, CursorsMatchHandle, Inherits
    <2> QED
      BY <2>1, <2>2, <2>3, <2>4, DropShape DEF RegistryShape
  <1>5. CASE DbOpenFail(db, mode, raw, reset)
    BY <1>5 DEF DbOpenFail, OpenFail, registry_vars, RegistryShape, Inherits
  <1> QED
    BY <1>1, <1>3, <1>4, <1>5

LEMMA CloseShape ==
  ASSUME Registered, DbClose
  PROVE  RegistryShape
  <1>1. PICK db : CloseDb(db) /\ DropMemory(db) /\ entries' = InvalidateDb(entries, db)
    BY DEF DbClose
  <1>2. EntryMap(entries)
    BY DEF Registered, TypeOK
  <1>3. Inherits(entries', entries) /\ \A c \in DOMAIN entries' : entries[c].state.db # db
    BY <1>1, <1>2, InvalidateInherits
  <1>4. \A d \in OpenDbs \ {db} : handles'[d] = handles[d]
    BY <1>1 DEF CloseDb, RemoveHandle
  <1>5. \A c \in DOMAIN entries' : entries[c].state.db \in OpenDbs \ {db}
    BY <1>3 DEF Registered, CursorsMatchHandle, Inherits
  <1> QED
    BY <1>1, <1>3, <1>4, <1>5, DropShape DEF RegistryShape

LEMMA WriteShape ==
  ASSUME Write
  PROVE  RegistryShape
  BY DEF Write, RegistryShape, Inherits

LEMMA TooLargeShape ==
  ASSUME NEW cl, NEW map, EntryMap(map), Inherits(map, entries), NEW existing, NEW state,
         PageTooLarge(map, existing, state), UNCHANGED << handles, tables >>
  PROVE  CursorShape(cl)
  <1>1. UNCHANGED chains /\ Inherits(entries', map)
    BY AfterFailure DEF PageTooLarge, Inherits
  <1>2. Inherits(entries', entries)
    BY <1>1 DEF Inherits
  <1> QED
    BY <1>1, <1>2 DEF CursorShape

LEMMA QueryShape ==
  ASSUME Registered, NEW cl \in Clients, SqlQuery(cl) \/ ContinueQuery(cl)
  PROVE  \/ CursorShape(cl)
         \/ \E chain \in Chains : \E map, existing, state :
               PageShape(cl, chain, map, existing, state)
  <1>1. EntryMap(entries) /\ Inherits(entries, entries) /\ chains[cl] \in Chains
    BY DEF Registered, TypeOK, Inherits
  <1>2. CASE SqlQuery(cl)
    <2>1. PICK request \in Requests, max_rows \in RowLimits :
            LET db == DbOf(request)
                state == [ db |-> db, conn |-> handles[db].conn, offset |-> 0,
                           max_rows |-> max_rows ]
            IN /\ TableReadable(db)
               /\ \/ Page(cl, Idle, entries, NoCursor, state)
                  \/ PageTooLarge(entries, NoCursor, state)
               /\ UNCHANGED << active_db_id, handles, tables >>
      BY <1>2 DEF SqlQuery
    <2> DEFINE db == DbOf(request)
               state == [ db |-> db, conn |-> handles[db].conn, offset |-> 0,
                          max_rows |-> max_rows ]
    <2>2. db \in OpenDbs /\ handles[db] \in Handles
      BY <2>1 DEF TableReadable, Registered, TypeOK, RegistryTypeOK, OpenDbs
    <2>3. state \in CursorStates
      BY <2>2, DbOfRequest DEF CursorStates, Handles
    <2>4. Idle \in Chains
      BY EmptySeq DEF Idle, Chains
    <2>5. /\ state.offset = 0 /\ TableReadable(state.db)
          /\ UNCHANGED << handles, tables >>
          /\ \/ Page(cl, Idle, entries, NoCursor, state)
             \/ PageTooLarge(entries, NoCursor, state)
      BY <2>1
    <2> HIDE DEF state
    <2>6. CASE Page(cl, Idle, entries, NoCursor, state)
      BY <1>1, <2>3, <2>4, <2>5, <2>6 DEF PageShape
    <2>7. CASE PageTooLarge(entries, NoCursor, state)
      BY <1>1, <2>5, <2>7, TooLargeShape
    <2> QED
      BY <2>5, <2>6, <2>7
  <1>3. CASE ContinueQuery(cl)
    <2> DEFINE id == chains[cl].cursor
               map == Refreshed(EvictExpired(entries), id)
               state == entries[id].state
    <2>1. /\ chains[cl].phase = "reading"
          /\ id \in Live(entries)
          /\ TableReadable(state.db)
          /\ \/ Page(cl, chains[cl], map, id, state)
             \/ PageTooLarge(map, id, state)
          /\ UNCHANGED << handles, tables >>
      BY <1>3 DEF ContinueQuery
    <2>2. EntryMap(map) /\ Inherits(map, entries)
      BY <1>1, <2>1, RefreshedEntries
    <2>3. id \in DOMAIN entries
      BY <2>1 DEF Live
    <2>4. state \in CursorStates
      BY <1>1, <2>3 DEF EntryMap, Entries
    <2> HIDE DEF map
    <2>5. CASE Page(cl, chains[cl], map, id, state)
      <3>1. PageShape(cl, chains[cl], map, id, state)
        BY <2>1, <2>2, <2>3, <2>4, <2>5 DEF PageShape
      <3> QED
        BY <1>1, <3>1
    <2>6. CASE PageTooLarge(map, id, state)
      BY <2>1, <2>2, <2>6, TooLargeShape
    <2> QED
      BY <2>1, <2>5, <2>6
  <1> QED
    BY <1>2, <1>3

LEMMA ClientShape ==
  ASSUME Registered, NEW cl \in Clients,
         ContinueFails(cl) \/ ContinueNotFound(cl) \/ Abandon(cl)
  PROVE  CursorShape(cl)
  <1>1. EntryMap(entries)
    BY DEF Registered, TypeOK
  <1>2. CASE ContinueFails(cl)
    BY <1>1, <1>2, RefreshedEntries DEF ContinueFails, CursorShape
  <1>3. CASE ContinueNotFound(cl)
    <2>1. Inherits(EvictExpired(entries), entries)
      BY <1>1, EvictExpiredMap DEF Inherits, Live
    <2> QED
      BY <1>3, <2>1 DEF ContinueNotFound, CursorShape
  <1>4. CASE Abandon(cl)
    BY <1>4 DEF Abandon, CursorShape, Inherits
  <1> QED
    BY <1>2, <1>3, <1>4

LEMMA TickShape ==
  ASSUME Registered, Tick
  PROVE  RegistryShape
  <1>1. EntryMap(entries)
    BY DEF Registered, TypeOK
  <1>2. Inherits(Age(entries), entries)
    BY <1>1, AgeMap DEF Inherits
  <1> QED
    BY <1>2 DEF Tick, RegistryShape

LEMMA Shapes ==
  ASSUME Registered, Next
  PROVE  \/ RegistryShape
         \/ \E cl \in Clients :
              \/ CursorShape(cl)
              \/ \E chain \in Chains : \E map, existing, state :
                    PageShape(cl, chain, map, existing, state)
  BY OpenShape, CloseShape, WriteShape, QueryShape, ClientShape, TickShape DEF Next

-----------------------------------------------------------------------------
(* The capacity.                                                           *)

Bounded(map) ==
    IsFiniteSet(DOMAIN map) /\ Cardinality(DOMAIN map) <= Capacity

StoreBounded == Bounded(entries)

LEMMA SmallerBounded ==
  ASSUME NEW map, Bounded(map), NEW new, DOMAIN new \subseteq DOMAIN map
  PROVE  Bounded(new)
  <1>1. /\ IsFiniteSet(DOMAIN new)
        /\ Cardinality(DOMAIN new) <= Cardinality(DOMAIN map)
    BY FS_Subset DEF Bounded
  <1>2. Cardinality(DOMAIN new) \in Nat /\ Cardinality(DOMAIN map) \in Nat
    BY <1>1, FS_CardinalityType DEF Bounded
  <1> QED
    BY <1>1, <1>2, CursorAssumption DEF Bounded

LEMMA RoomMade ==
  ASSUME NEW map, EntryMap(map), IsFiniteSet(DOMAIN map), NEW made \in MakeRoom(map)
  PROVE  /\ IsFiniteSet(DOMAIN made)
         /\ Cardinality(DOMAIN made) < Capacity
  <1> DEFINE live == EvictExpired(map)
  <1>1. EntryMap(live) /\ DOMAIN live \subseteq DOMAIN map
    BY EvictExpiredMap DEF Live
  <1>2. IsFiniteSet(DOMAIN live)
    BY <1>1, FS_Subset
  <1> HIDE DEF live
  <1>3. CASE made = live /\ Cardinality(DOMAIN live) < Capacity
    BY <1>2, <1>3
  <1>4. CASE \E ids \in SUBSET DOMAIN live :
                made = Keep(live, ids) /\ Cardinality(ids) = Capacity - 1
    <2>1. PICK ids \in SUBSET DOMAIN live :
             made = Keep(live, ids) /\ Cardinality(ids) = Capacity - 1
      BY <1>4
    <2>2. DOMAIN made = ids
      BY <2>1 DEF Keep
    <2> QED
      BY <1>2, <2>1, <2>2, FS_Subset, CursorAssumption
  <1>5. \/ made = live /\ Cardinality(DOMAIN live) < Capacity
        \/ \E ids \in SUBSET DOMAIN live :
              made = Keep(live, ids) /\ Cardinality(ids) = Capacity - 1
    <2>1. made \in EvictToCapacity(live)
      BY DEF MakeRoom, live
    <2>2. CASE Cardinality(DOMAIN live) < Capacity
      BY <2>1, <2>2 DEF EvictToCapacity
    <2>3. CASE ~(Cardinality(DOMAIN live) < Capacity)
      BY <2>1, <2>3 DEF EvictToCapacity
    <2> QED
      BY <2>2, <2>3
  <1> QED
    BY <1>3, <1>4, <1>5

LEMMA PageBounded ==
  ASSUME NEW map, EntryMap(map), Bounded(map), NEW existing, NEW state, NEW n, NEW id,
         NEW new \in MapsAfterPage(map, existing, state, n, id)
  PROVE  Bounded(new)
  <1> DEFINE kept == Delete(map, existing)
  <1>1. EntryMap(kept) /\ DOMAIN kept \subseteq DOMAIN map
    BY DeleteMap
  <1>2. Bounded(kept)
    BY <1>1, SmallerBounded
  <1>3. new = kept \/ \E made \in MakeRoom(kept) : new = Insert(made, id, NextState(state, n))
    BY DEF MapsAfterPage
  <1> HIDE DEF kept
  <1>4. CASE \E made \in MakeRoom(kept) : new = Insert(made, id, NextState(state, n))
    <2>1. PICK made \in MakeRoom(kept) : new = Insert(made, id, NextState(state, n))
      BY <1>4
    <2>2. IsFiniteSet(DOMAIN made) /\ Cardinality(DOMAIN made) < Capacity
      BY <1>1, <1>2, RoomMade DEF Bounded
    <2>3. DOMAIN new = DOMAIN made \union {id}
      BY <2>1 DEF Insert
    <2>4. Cardinality(DOMAIN made) \in Nat
      BY <2>2, FS_CardinalityType
    <2>5. /\ IsFiniteSet(DOMAIN new)
          /\ Cardinality(DOMAIN new) =
                IF id \in DOMAIN made THEN Cardinality(DOMAIN made)
                ELSE Cardinality(DOMAIN made) + 1
      BY <2>2, <2>3, FS_AddElement
    <2> QED
      BY <2>2, <2>4, <2>5, CursorAssumption DEF Bounded
  <1> QED
    BY <1>2, <1>3, <1>4

LEMMA BoundedCorrect == Spec => []StoreBounded
  <1>1. Init => StoreBounded
    BY FS_EmptySet, CursorAssumption DEF Init, StoreBounded, Bounded
  <1>2. Registered /\ StoreBounded /\ [Next]_vars => StoreBounded'
    <2> SUFFICES ASSUME Registered, Bounded(entries), [Next]_vars
                 PROVE  Bounded(entries')
      BY DEF StoreBounded
    <2>1. CASE Inherits(entries', entries)
      BY <2>1, SmallerBounded DEF Inherits
    <2>2. ASSUME NEW cl \in Clients, NEW chain \in Chains, NEW map, NEW existing, NEW state,
                 PageShape(cl, chain, map, existing, state)
          PROVE  Bounded(entries')
      <3>1. EntryMap(map) /\ Inherits(map, entries) /\ Page(cl, chain, map, existing, state)
        BY <2>2 DEF PageShape
      <3>2. Bounded(map)
        BY <3>1, SmallerBounded DEF Inherits
      <3>3. PICK n, id : entries' \in MapsAfterPage(map, existing, state, n, id)
        BY <3>1 DEF Page
      <3> QED
        BY <3>1, <3>2, <3>3, PageBounded
    <2>3. CASE UNCHANGED vars
      BY <2>3, SmallerBounded DEF vars
    <2> QED
      BY <2>1, <2>2, <2>3, Shapes DEF RegistryShape, CursorShape
  <1> QED
    BY <1>1, <1>2, RegisteredCorrect, PTL DEF Spec

(* Every query makes room before it stores its cursor, so the store holds  *)
(* cursor_capacity cursors at most, however long the server runs.          *)
THEOREM CapacityCorrect == Spec => []WithinCapacity
  <1>1. StoreBounded => WithinCapacity
    BY DEF StoreBounded, Bounded, WithinCapacity
  <1> QED
    BY <1>1, BoundedCorrect, PTL

-----------------------------------------------------------------------------
(* The pages.                                                              *)

(* A chain still being read, whose cursor is still stored, will be resumed *)
(* where its rows end.                                                     *)
Resumable(chain) ==
    chain.phase = "reading" /\ chain.cursor \in DOMAIN entries =>
        LET state == entries[chain.cursor].state
        IN /\ state.offset = Len(chain.got)
           /\ StoreOf(handles[state.db]) = chain.store

Contiguous(chain) ==
    /\ chain.store \in Stores
    /\ tables[chain.store] # NoTable
    /\ Len(chain.got) <= Len(tables[chain.store])
    /\ chain.got = Take(tables[chain.store], Len(chain.got))
    /\ chain.phase = "done" => chain.got = tables[chain.store]

ChainsFollow ==
    \A cl \in Clients :
        chains[cl].phase # "idle" /\ chains[cl].clean =>
            Contiguous(chains[cl]) /\ Resumable(chains[cl])

LEMMA DropLength ==
  ASSUME NEW rows \in Seq(Rows), NEW k \in 0 .. Len(rows)
  PROVE  Len(Drop(rows, k)) = Len(rows) - k /\ Len(rows) - k \in Nat
  <1>1. \A i \in k + 1 .. Len(rows) : rows[i] \in Rows
    OBVIOUS
  <1> QED
    BY <1>1, SubSeqProperties DEF Drop

LEMMA TakeMore ==
  ASSUME NEW rows \in Seq(Rows), NEW k \in 0 .. Len(rows), NEW n \in 0 .. Len(Drop(rows, k))
  PROVE  /\ Len(Drop(rows, k)) = Len(rows) - k
         /\ Take(rows, k) \o Take(Drop(rows, k), n) = Take(rows, k + n)
  <1> DEFINE rest == SubSeq(rows, k + 1, Len(rows))
  <1>1. \A i \in k + 1 .. Len(rows) : rows[i] \in Rows
    OBVIOUS
  <1>2. rest \in Seq(Rows) /\ Len(rest) = Len(rows) - k
    BY <1>1, SubSeqProperties
  <1>3. n \in 0 .. Len(rows) - k
    BY <1>2 DEF Drop
  <1>4. SubSeq(rest, 1, n) = SubSeq(rows, k + 1, k + n)
    <2>1. CASE n = 0
      BY <2>1, SubSeqEmpty
    <2>2. CASE n > 0
      <3>1. /\ k + 1 \in 1 .. Len(rows) /\ Len(rows) \in 1 .. Len(rows)
            /\ 1 \in 1 .. Len(rows) - (k + 1) + 1
            /\ n \in 1 .. Len(rows) - (k + 1) + 1
        BY <1>3, <2>2
      <3>2. SubSeq(rest, 1, n) = SubSeq(rows, (k + 1) + 1 - 1, (k + 1) + n - 1)
        BY <3>1, SubSeqOfSubSeq
      <3>3. (k + 1) + 1 - 1 = k + 1 /\ (k + 1) + n - 1 = k + n
        BY <1>3
      <3> QED
        BY <3>2, <3>3
    <2> QED
      BY <1>3, <2>1, <2>2
  <1>5. SubSeq(rows, 1, k) \o SubSeq(rows, k + 1, k + n) = SubSeq(rows, 1, k + n)
    BY <1>3, ConcatAdjacentSubSeq
  <1>6. Drop(rows, k) = rest
    BY DEF Drop
  <1> HIDE DEF rest
  <1>7. Take(rows, k) \o Take(rest, n) = Take(rows, k + n)
    BY <1>4, <1>5 DEF Take
  <1> QED
    BY <1>2, <1>6, <1>7

LEMMA RegistryFollows ==
  ASSUME Registered, ChainsFollow, RegistryShape
  PROVE  ChainsFollow'
  <1> SUFFICES ASSUME NEW cl \in Clients,
                      chains'[cl].phase # "idle" /\ chains'[cl].clean
               PROVE  Contiguous(chains[cl])' /\ Resumable(chains[cl])'
    BY DEF ChainsFollow
  <1>1. chains \in [Clients -> Chains]
    BY DEF Registered, TypeOK
  <1>2. /\ chains'[cl] = chains[cl]
        /\ tables'[chains[cl].store] = tables[chains[cl].store]
    <2>1. CASE UNCHANGED << tables, chains >>
      BY <2>1
    <2>2. CASE \E new : WriteTables(new)
      <3>1. PICK new : WriteTables(new)
        BY <2>2
      <3>2. tables' = new /\ chains[cl] \in Chains
        BY <1>1, <3>1 DEF WriteTables
      <3>3. chains'[cl] =
              IF /\ chains[cl].phase # "idle" /\ chains[cl].clean
                 /\ new[chains[cl].store] # tables[chains[cl].store]
              THEN Disturbed(chains[cl])
              ELSE chains[cl]
        BY <3>1 DEF WriteTables
      <3>4. Disturbed(chains[cl]).clean = FALSE
        BY <3>2 DEF Disturbed, Chains
      <3> QED
        BY <3>2, <3>3, <3>4
    <2> QED
      BY <2>1, <2>2 DEF RegistryShape
  <1>3. Contiguous(chains[cl]) /\ Resumable(chains[cl])
    BY <1>2 DEF ChainsFollow
  <1>4. Contiguous(chains[cl])'
    BY <1>2, <1>3 DEF Contiguous
  <1>5. Resumable(chains[cl])'
    BY <1>2, <1>3 DEF Resumable, RegistryShape, Inherits, StoreOf
  <1> QED
    BY <1>4, <1>5

(* A chain that a step leaves alone, with a cursor the step does not store. *)
LEMMA SameChain ==
  ASSUME NEW cl \in Clients, UNCHANGED << handles, tables >>, chains'[cl] = chains[cl],
         chains[cl].cursor \in DOMAIN entries' =>
            /\ chains[cl].cursor \in DOMAIN entries
            /\ entries'[chains[cl].cursor].state = entries[chains[cl].cursor].state,
         Contiguous(chains[cl]) /\ Resumable(chains[cl])
  PROVE  Contiguous(chains[cl])' /\ Resumable(chains[cl])'
  BY DEF Contiguous, Resumable, StoreOf

LEMMA CursorFollows ==
  ASSUME Registered, ChainsFollow, NEW cl \in Clients, CursorShape(cl)
  PROVE  ChainsFollow'
  <1> SUFFICES ASSUME NEW d \in Clients,
                      chains'[d].phase # "idle" /\ chains'[d].clean
               PROVE  Contiguous(chains[d])' /\ Resumable(chains[d])'
    BY DEF ChainsFollow
  <1>1. chains \in [Clients -> Chains]
    BY DEF Registered, TypeOK
  <1>2. chains'[d] = chains[d]
    BY <1>1 DEF CursorShape, Idle
  <1>3. Contiguous(chains[d]) /\ Resumable(chains[d])
    BY <1>2 DEF ChainsFollow
  <1> QED
    BY <1>2, <1>3, SameChain DEF CursorShape, Inherits

(* What the client of a page has received before it.                       *)
LEMMA ReadSoFar ==
  ASSUME Registered, ChainsFollow, NEW cl \in Clients, NEW chain \in Chains, chain.clean,
         NEW map, NEW existing, NEW state, PageShape(cl, chain, map, existing, state)
  PROVE  LET table == tables[StoreOf(handles[state.db])]
         IN /\ state.offset \in 0 .. Len(table)
            /\ chain.got = Take(table, state.offset)
  <1> DEFINE table == tables[StoreOf(handles[state.db])]
  <1>1. state \in CursorStates /\ TableReadable(state.db)
    BY DEF PageShape
  <1>2. table \in Seq(Rows)
    BY <1>1, RestRows DEF Registered
  <1>3. CASE chain = Idle /\ state.offset = 0
    <2>1. Take(table, 0) = << >>
      BY SubSeqEmpty DEF Take
    <2> QED
      BY <1>2, <1>3, <2>1 DEF Idle
  <1>4. CASE /\ chain = chains[cl] /\ chain.phase = "reading"
             /\ chain.cursor \in DOMAIN entries
             /\ state = entries[chain.cursor].state
    <2>1. Contiguous(chain) /\ Resumable(chain)
      BY <1>4 DEF ChainsFollow
    <2>2. state.offset = Len(chain.got) /\ StoreOf(handles[state.db]) = chain.store
      BY <1>4, <2>1 DEF Resumable
    <2>3. Len(chain.got) \in Nat
      BY DEF Chains
    <2> QED
      BY <1>2, <2>1, <2>2, <2>3 DEF Contiguous
  <1> QED
    BY <1>3, <1>4 DEF PageShape

LEMMA PageFollows ==
  ASSUME Registered, ChainsFollow, NEW cl \in Clients, NEW chain \in Chains,
         NEW map, NEW existing, NEW state, PageShape(cl, chain, map, existing, state)
  PROVE  ChainsFollow'
  <1> SUFFICES ASSUME NEW d \in Clients,
                      chains'[d].phase # "idle" /\ chains'[d].clean
               PROVE  Contiguous(chains[d])' /\ Resumable(chains[d])'
    BY DEF ChainsFollow
  <1>1. /\ EntryMap(map) /\ Inherits(map, entries)
        /\ state \in CursorStates /\ TableReadable(state.db)
        /\ UNCHANGED << handles, tables >>
        /\ Page(cl, chain, map, existing, state)
    BY DEF PageShape
  <1>2. chains \in [Clients -> Chains] /\ TypeOK
    BY DEF Registered, TypeOK
  <1>3. PICK n \in Nat, id \in CursorIds \ HeldCursors :
          /\ n <= Len(RestOf(state))
          /\ entries' \in MapsAfterPage(map, existing, state, n, id)
          /\ \/ chains' = [chains EXCEPT ![cl] = Received(chain, state, n, id)]
             \/ UNCHANGED chains
    BY <1>1, <1>2, PageStep
  <1>4. id \notin DOMAIN map /\ \A e \in Clients : chains[e].cursor # id
    BY <1>1, <1>3 DEF HeldCursors, Inherits
  <1>5. /\ DOMAIN entries' \subseteq DOMAIN map \union {id}
        /\ \A c \in DOMAIN entries' \ {id} : entries'[c] = map[c]
        /\ id \in DOMAIN entries' => entries'[id].state = NextState(state, n)
    <2>1. ASSUME NEW new \in MapsAfterPage(map, existing, state, n, id)
          PROVE  /\ DOMAIN new \subseteq DOMAIN map \union {id}
                 /\ \A c \in DOMAIN new \ {id} : new[c] = map[c]
                 /\ id \in DOMAIN new => new[id].state = NextState(state, n)
      <3>1. id \in CursorIds
        OBVIOUS
      <3>2. DOMAIN new \subseteq DOMAIN map \union {id}
        BY <1>1, <3>1, AfterPage
      <3>3. \A c \in DOMAIN new \ {id} : new[c] = map[c]
        BY <1>1, <3>1, AfterPage
      <3>4. id \notin DOMAIN map =>
              (id \in DOMAIN new => new[id].state = NextState(state, n))
        BY <1>1, <3>1, AfterPage
      <3> QED
        BY <1>4, <3>2, <3>3, <3>4
    <2> QED
      BY <1>3, <2>1
  <1>6. CASE chains'[d] = chains[d]
    <2>1. Contiguous(chains[d]) /\ Resumable(chains[d])
      BY <1>6 DEF ChainsFollow
    <2>2. chains[d].cursor \in DOMAIN entries' =>
            /\ chains[d].cursor \in DOMAIN entries
            /\ entries'[chains[d].cursor].state = entries[chains[d].cursor].state
      BY <1>1, <1>4, <1>5 DEF Inherits
    <2> QED
      BY <1>1, <1>6, <2>1, <2>2, SameChain
  <1>7. CASE d = cl /\ chains'[d] = Received(chain, state, n, id)
    <2> DEFINE store == StoreOf(handles[state.db])
               table == tables[store]
               rest == RestOf(state)
               got == chain.got \o Take(rest, n)
               page == [ phase |-> IF Truncated(rest, n) THEN "reading" ELSE "done",
                         cursor |-> IF Truncated(rest, n) THEN id ELSE NoCursor,
                         store |-> store, got |-> got, clean |-> TRUE ]
    <2>1. chains'[d] = IF chain.clean THEN page ELSE Disturbed(page)
      BY <1>7 DEF Received
    <2>2. chain.clean
      BY <2>1 DEF Disturbed
    <2>3. store \in Stores /\ table \in Seq(Rows) /\ table # NoTable
      BY <1>1, <1>2, RestRows DEF TableReadable
    <2>4. state.offset \in 0 .. Len(table) /\ chain.got = Take(table, state.offset)
      BY <2>2, ReadSoFar
    <2>5. rest = Drop(table, state.offset)
      BY DEF RestOf
    <2> HIDE DEF store, table, rest
    <2>6. /\ Len(rest) = Len(table) - state.offset
          /\ n \in 0 .. Len(rest)
          /\ got = Take(table, state.offset + n)
      <3>1. 0 \in 0 .. Len(rest) /\ Len(rest) = Len(table) - state.offset
        BY <2>3, <2>4, <2>5, DropLength
      <3>2. n \in 0 .. Len(rest)
        BY <1>3, <3>1 DEF rest
      <3>3. Take(table, state.offset) \o Take(rest, n) = Take(table, state.offset + n)
        BY <2>3, <2>4, <2>5, <3>2, TakeMore
      <3> QED
        BY <2>4, <3>1, <3>2, <3>3
    <2>7. state.offset + n \in 0 .. Len(table) /\ Len(got) = state.offset + n
      <3>1. state.offset + n \in 0 .. Len(table)
        BY <2>3, <2>4, <2>6
      <3> QED
        BY <2>3, <2>6, <3>1, TakeRows
    <2> HIDE DEF got
    <2>8. tables'[store] = table /\ store = StoreOf(handles'[state.db])
      BY <1>1 DEF table, store
    <2>9. chains'[d] = page
      BY <2>1, <2>2
    <2>10. Contiguous(chains[d])'
      <3>1. ~Truncated(rest, n) => got = table
        BY <2>3, <2>4, <2>6, SubSeqFull DEF Truncated, Take
      <3> QED
        BY <2>3, <2>6, <2>7, <2>8, <2>9, <3>1 DEF Contiguous
    <2>11. Resumable(chains[d])'
      <3> SUFFICES ASSUME id \in DOMAIN entries'
                   PROVE  /\ entries'[id].state.offset = Len(got)
                          /\ StoreOf(handles'[entries'[id].state.db]) = store
        BY <2>9 DEF Resumable, StoreOf
      <3>1. /\ entries'[id].state.offset = state.offset + n
            /\ entries'[id].state.db = state.db
        BY <1>1, <1>3, <1>5, NextStateType
      <3> QED
        BY <2>7, <2>8, <3>1
    <2> QED
      BY <2>10, <2>11
  <1> QED
    BY <1>2, <1>3, <1>6, <1>7

(* Continuation hints lead a client through an unchanging result: rows in  *)
(* order, none skipped or repeated, whatever happens to other cursors,     *)
(* other databases and lost answers (sql_query, create, delete).           *)
THEOREM PagingCorrect == Spec => []PagesAreContiguous
  <1>1. Init => ChainsFollow
    BY DEF Init, ChainsFollow, Idle
  <1>2. Registered /\ ChainsFollow /\ [Next]_vars => ChainsFollow'
    <2> SUFFICES ASSUME Registered, ChainsFollow, [Next]_vars
                 PROVE  ChainsFollow'
      OBVIOUS
    <2>1. CASE RegistryShape
      BY <2>1, RegistryFollows
    <2>2. ASSUME NEW cl \in Clients, CursorShape(cl)
          PROVE  ChainsFollow'
      BY <2>2, CursorFollows
    <2>3. ASSUME NEW cl \in Clients, NEW chain \in Chains, NEW map, NEW existing, NEW state,
                 PageShape(cl, chain, map, existing, state)
          PROVE  ChainsFollow'
      BY <2>3, PageFollows
    <2>4. CASE UNCHANGED vars
      BY <2>4 DEF vars, ChainsFollow, Contiguous, Resumable, StoreOf
    <2> QED
      BY <2>1, <2>2, <2>3, <2>4, Shapes
  <1>3. ChainsFollow => PagesAreContiguous
    BY DEF ChainsFollow, Contiguous, PagesAreContiguous
  <1> QED
    BY <1>1, <1>2, <1>3, RegisteredCorrect, PTL DEF Spec

-----------------------------------------------------------------------------
(* The cursors a step loses.                                               *)

(* c is live, and none of the live entries has less of its life left.      *)
Oldest(map, c) == c \in Live(map) /\ \A d \in Live(map) : map[c].left <= map[d].left

LEMMA RoomLoses ==
  ASSUME NEW map, EntryMap(map), Bounded(map), NEW made \in MakeRoom(map)
  PROVE  /\ Cardinality(DOMAIN map) < Capacity => Live(map) \subseteq DOMAIN made
         /\ \/ Live(map) \subseteq DOMAIN made
            \/ /\ Cardinality(Live(map)) = Capacity
               /\ \E c : Live(map) \ DOMAIN made = {c} /\ Oldest(map, c)
  <1> DEFINE live == EvictExpired(map)
  <1>1. /\ EntryMap(live) /\ DOMAIN live = Live(map)
        /\ \A c \in Live(map) : live[c] = map[c]
    BY EvictExpiredMap
  <1>2. /\ IsFiniteSet(DOMAIN live) /\ Cardinality(DOMAIN live) \in Nat
        /\ Cardinality(DOMAIN live) <= Cardinality(DOMAIN map)
        /\ Cardinality(DOMAIN map) \in Nat /\ Cardinality(DOMAIN map) <= Capacity
    <2>1. DOMAIN live \subseteq DOMAIN map
      BY <1>1 DEF Live
    <2>. QED  BY <2>1, FS_Subset, FS_CardinalityType DEF Bounded
  <1>3. made \in EvictToCapacity(live)
    BY DEF MakeRoom
  <1>4. \A c \in Live(map) : map[c].left \in Nat
    BY CursorAssumption DEF Live, EntryMap, Entries
  <1> HIDE DEF live
  <1>5. CASE Cardinality(DOMAIN live) < Capacity
    <2>1. made = live
      BY <1>3, <1>5 DEF EvictToCapacity
    <2>. QED  BY <1>1, <2>1
  <1>6. CASE ~(Cardinality(DOMAIN live) < Capacity)
    <2>1. Cardinality(DOMAIN live) = Capacity /\ ~(Cardinality(DOMAIN map) < Capacity)
      BY <1>2, <1>6, CursorAssumption
    <2>2. PICK ids \in SUBSET DOMAIN live :
             /\ made = Keep(live, ids) /\ Cardinality(ids) = Capacity - 1
             /\ \A gone \in (DOMAIN live) \ ids, kept \in ids : live[gone].left <= live[kept].left
      BY <1>3, <1>6 DEF EvictToCapacity
    <2>3. DOMAIN made = ids
      BY <2>2 DEF Keep
    <2>4. Cardinality(DOMAIN live \ ids) = Cardinality(DOMAIN live) - Cardinality(DOMAIN live \cap ids)
      BY <1>2, FS_Difference
    <2>5. DOMAIN live \cap ids = ids
      OBVIOUS
    <2>6. Cardinality(DOMAIN live \ ids) = 1
      BY <2>1, <2>2, <2>4, <2>5, CursorAssumption
    <2>7. PICK c : Live(map) \ DOMAIN made = {c}
      <3>1. IsFiniteSet(DOMAIN live \ ids)
        BY <1>2, FS_Subset
      <3>. QED  BY <1>1, <2>3, <2>6, <3>1, FS_Singleton
    <2>8. Oldest(map, c)
      <3>1. c \in Live(map) /\ c \notin ids
        BY <2>3, <2>7
      <3>2. ASSUME NEW d \in Live(map) PROVE map[c].left <= map[d].left
        <4>1. CASE d \in ids
          BY <1>1, <2>2, <3>1, <4>1
        <4>2. CASE d \notin ids
          BY <1>4, <2>3, <2>7, <3>1, <4>2
        <4>. QED  BY <4>1, <4>2
      <3>. QED  BY <3>1, <3>2 DEF Oldest
    <2>. QED  BY <1>1, <2>1, <2>7, <2>8
  <1>. QED  BY <1>5, <1>6

(* What is left once existing was deleted and, perhaps, room was made.     *)
LEMMA PlaceLoses ==
  ASSUME NEW map, EntryMap(map), Bounded(map), NEW existing, NEW new,
         \/ DOMAIN Delete(map, existing) \subseteq DOMAIN new
         \/ \E made \in MakeRoom(Delete(map, existing)) : DOMAIN made \subseteq DOMAIN new
  PROVE  /\ existing \in DOMAIN map => Live(map) \ DOMAIN new \subseteq {existing}
         /\ existing \notin DOMAIN map =>
              \/ Live(map) \subseteq DOMAIN new
              \/ /\ Cardinality(Live(map)) = Capacity
                 /\ \E c : Live(map) \ DOMAIN new \subseteq {c} /\ Oldest(map, c)
  <1> DEFINE kept == Delete(map, existing)
  <1>1. /\ EntryMap(kept) /\ DOMAIN kept = DOMAIN map \ {existing}
        /\ \A c \in DOMAIN map \ {existing} : kept[c] = map[c]
    BY DeleteMap
  <1>2. Bounded(kept)
    BY <1>1, SmallerBounded
  <1>3. Live(map) \subseteq DOMAIN map /\ Live(kept) = Live(map) \ {existing}
    BY <1>1 DEF Live
  <1>4. DOMAIN kept \subseteq DOMAIN new \/ \E made \in MakeRoom(kept) : DOMAIN made \subseteq DOMAIN new
    OBVIOUS
  <1> HIDE DEF kept
  <1>5. CASE DOMAIN kept \subseteq DOMAIN new
    BY <1>1, <1>3, <1>5
  <1>6. ASSUME NEW made \in MakeRoom(kept), DOMAIN made \subseteq DOMAIN new
        PROVE  /\ existing \in DOMAIN map => Live(map) \ DOMAIN new \subseteq {existing}
               /\ existing \notin DOMAIN map =>
                    \/ Live(map) \subseteq DOMAIN new
                    \/ /\ Cardinality(Live(map)) = Capacity
                       /\ \E c : Live(map) \ DOMAIN new \subseteq {c} /\ Oldest(map, c)
    <2>1. /\ Cardinality(DOMAIN kept) < Capacity => Live(kept) \subseteq DOMAIN made
          /\ \/ Live(kept) \subseteq DOMAIN made
             \/ /\ Cardinality(Live(kept)) = Capacity
                /\ \E c : Live(kept) \ DOMAIN made = {c} /\ Oldest(kept, c)
      BY <1>1, <1>2, <1>6, RoomLoses
    <2>2. CASE existing \in DOMAIN map
      <3>1. IsFiniteSet(DOMAIN map) /\ Cardinality(DOMAIN map) <= Capacity
        BY DEF Bounded
      <3>2. Cardinality(DOMAIN map \ {existing}) = Cardinality(DOMAIN map) - 1
            /\ Cardinality(DOMAIN map) \in Nat
        BY <2>2, <3>1, FS_RemoveElement, FS_CardinalityType
      <3>3. Live(kept) \subseteq DOMAIN made
        BY <1>1, <2>1, <3>1, <3>2, CursorAssumption
      <3>. QED  BY <1>3, <1>6, <2>2, <3>3
    <2>3. CASE existing \notin DOMAIN map
      <3>1. Live(kept) = Live(map) /\ \A c \in Live(map) : kept[c] = map[c]
        BY <1>1, <1>3, <2>3
      <3>2. CASE Live(kept) \subseteq DOMAIN made
        BY <1>6, <2>3, <3>1, <3>2
      <3>3. CASE /\ Cardinality(Live(kept)) = Capacity
                 /\ \E c : Live(kept) \ DOMAIN made = {c} /\ Oldest(kept, c)
        <4>1. PICK c : Live(kept) \ DOMAIN made = {c} /\ Oldest(kept, c)
          BY <3>3
        <4>2. Oldest(map, c)
          BY <3>1, <4>1 DEF Oldest
        <4>. QED  BY <1>6, <2>3, <3>1, <3>3, <4>1, <4>2
      <3>. QED  BY <2>1, <3>2, <3>3
    <2>. QED  BY <2>2, <2>3
  <1>. QED  BY <1>4, <1>5, <1>6

(* A step loses nothing, or one cursor for one of the reasons that cursors *)
(* go while their connection stays.                                        *)
LosesOne ==
    \/ Lost = {}
    \/ \E c \in Lost : Lost = {c} /\ (Followed(c) \/ MadeRoom(c))

LEMMA AnswerPlaces ==
  ASSUME NEW map, NEW existing, NEW state, NEW n, NEW id,
         NEW new \in MapsAfterPage(map, existing, state, n, id)
  PROVE  \/ DOMAIN Delete(map, existing) \subseteq DOMAIN new
         \/ \E made \in MakeRoom(Delete(map, existing)) : DOMAIN made \subseteq DOMAIN new
  BY DEF MapsAfterPage, Insert

LEMMA FailurePlaces ==
  ASSUME NEW map, NEW existing, EntryMap(map), NEW state, NEW given_up,
         NEW new \in MapsAfterFailure(map, existing, state, given_up)
  PROVE  \/ DOMAIN Delete(map, existing) \subseteq DOMAIN new
         \/ \E made \in MakeRoom(Delete(map, existing)) : DOMAIN made \subseteq DOMAIN new
  <1>1. DOMAIN Delete(map, existing) \subseteq DOMAIN map
    BY DeleteMap
  <1>. QED  BY <1>1 DEF MapsAfterFailure

LEMMA QueryLoses ==
  ASSUME Registered, StoreBounded, NEW cl \in Clients, SqlQuery(cl) \/ ContinueQuery(cl)
  PROVE  LosesOne
  <1>1. EntryMap(entries) /\ Bounded(entries)
    BY DEF Registered, TypeOK, StoreBounded
  <1>2. CASE SqlQuery(cl)
    <2>1. PICK state : \/ Page(cl, Idle, entries, NoCursor, state)
                       \/ PageTooLarge(entries, NoCursor, state)
      BY <1>2 DEF SqlQuery
    <2>2. \/ DOMAIN Delete(entries, NoCursor) \subseteq DOMAIN entries'
          \/ \E made \in MakeRoom(Delete(entries, NoCursor)) : DOMAIN made \subseteq DOMAIN entries'
      BY <1>1, <2>1, AnswerPlaces, FailurePlaces DEF Page, PageTooLarge
    <2>3. NoCursor \notin DOMAIN entries
      BY <1>1, ServerAssumption DEF EntryMap
    <2>4. \/ Lost = {}
          \/ /\ Cardinality(Live(entries)) = Capacity
             /\ \E c : Lost \subseteq {c} /\ Oldest(entries, c)
      BY <1>1, <2>2, <2>3, PlaceLoses DEF Lost
    <2>5. CASE Lost # {}
      <3>1. PICK c : Lost = {c} /\ Oldest(entries, c)
        BY <2>4, <2>5
      <3>2. MadeRoom(c)
        BY <1>2, <2>4, <2>5, <3>1 DEF MadeRoom, Oldest
      <3>. QED  BY <3>1, <3>2 DEF LosesOne
    <2>. QED  BY <2>5 DEF LosesOne
  <1>3. CASE ContinueQuery(cl)
    <2> DEFINE id == chains[cl].cursor
               map == Refreshed(EvictExpired(entries), id)
    <2>1. PICK state : /\ chains[cl].phase = "reading" /\ id \in Live(entries)
                       /\ \/ Page(cl, chains[cl], map, id, state)
                          \/ PageTooLarge(map, id, state)
      BY <1>3 DEF ContinueQuery
    <2>2. /\ EntryMap(map) /\ DOMAIN map = Live(entries)
          /\ Live(map) = Live(entries)
      <3> DEFINE live == EvictExpired(entries)
      <3>1. /\ EntryMap(live) /\ DOMAIN live = Live(entries)
            /\ \A c \in Live(entries) : live[c] = entries[c] /\ live[c].left > 0
        BY <1>1, EvictExpiredMap DEF Live
      <3> HIDE DEF live
      <3>2. EntryMap(Refreshed(live, id)) /\ DOMAIN Refreshed(live, id) = Live(entries)
        BY <2>1, <3>1, RefreshedMap
      <3>3. \A c \in Live(entries) : Refreshed(live, id)[c].left > 0
        BY <2>1, <3>1, CursorAssumption DEF Refreshed, EntryMap, Entries
      <3>. QED  BY <3>2, <3>3 DEF Live, live
    <2> HIDE DEF map
    <2>3. Bounded(map)
      BY <1>1, <2>2, SmallerBounded DEF Live
    <2>4. \/ DOMAIN Delete(map, id) \subseteq DOMAIN entries'
          \/ \E made \in MakeRoom(Delete(map, id)) : DOMAIN made \subseteq DOMAIN entries'
      BY <2>1, <2>2, AnswerPlaces, FailurePlaces DEF Page, PageTooLarge
    <2>5. Live(map) \ DOMAIN entries' \subseteq {id}
      BY <2>1, <2>2, <2>3, <2>4, PlaceLoses
    <2>6. Lost \subseteq {id}
      BY <2>2, <2>5 DEF Lost
    <2>7. Followed(id)
      BY <1>3 DEF Followed
    <2>. QED  BY <2>6, <2>7 DEF LosesOne
  <1>. QED  BY <1>2, <1>3

LEMMA ClientLoses ==
  ASSUME Registered, NEW cl,
         \/ ContinueFails(cl) \/ ContinueNotFound(cl) \/ Abandon(cl) \/ Tick
  PROVE  Lost = {}
  <1>1. EntryMap(entries) /\ Live(entries) \subseteq DOMAIN entries
    BY DEF Registered, TypeOK, Live
  <1>2. DOMAIN EvictExpired(entries) = Live(entries) /\ EntryMap(EvictExpired(entries))
    BY <1>1, EvictExpiredMap
  <1>3. CASE ContinueFails(cl)
    <2>1. DOMAIN entries' = Live(entries)
      BY <1>2, <1>3, RefreshedMap DEF ContinueFails
    <2>. QED  BY <2>1 DEF Lost
  <1>4. CASE ContinueNotFound(cl)
    BY <1>2, <1>4 DEF ContinueNotFound, Lost
  <1>5. CASE Abandon(cl)
    BY <1>1, <1>5 DEF Abandon, Lost
  <1>6. CASE Tick
    BY <1>1, <1>6 DEF Tick, Age, Lost
  <1>. QED  BY <1>3, <1>4, <1>5, <1>6

(* Opening and closing take the cursors of replaced connections with them. *)
LEMMA RegistryLoses ==
  ASSUME Registered, DbOpen \/ DbClose \/ Write
  PROVE  /\ handles' = handles => Lost = {}
         /\ \A c \in Lost :
              \/ entries[c].state.db \notin DOMAIN handles'
              \/ handles'[entries[c].state.db].conn # entries[c].state.conn
  <1>1. EntryMap(entries) /\ Live(entries) \subseteq DOMAIN entries
    BY DEF Registered, TypeOK, Live
  <1>2. CASE DbOpen
    <2>1. PICK request \in Requests, mode \in Modes, raw \in RawPaths \union {NoPath},
               reset \in BOOLEAN :
                 \/ DbOpenReuse(DbOf(request), mode, raw)
                 \/ DbOpenConnect(DbOf(request), mode, raw, reset)
                 \/ DbOpenFail(DbOf(request), mode, raw, reset)
      BY <1>2 DEF DbOpen
    <2> DEFINE db == DbOf(request)
    <2>2. CASE entries' = entries
      BY <1>1, <2>2 DEF Lost
    <2>3. CASE DbOpenConnect(db, mode, raw, reset)
      <3> HIDE DEF db
      <3>1. PICK conn \in FreshConns(db) :
                /\ OpenConnect(db, mode, raw, reset, conn)
                /\ entries' = IF reset THEN InvalidateDb(entries, db) ELSE entries
        BY <2>3 DEF DbOpenConnect
      <3>2. conn \notin HeldConns
        BY <3>1 DEF FreshConns, Least
      <3>3. db \in DOMAIN handles' /\ handles'[db].conn = conn
        BY <3>1 DEF OpenConnect, InsertHandle, NewHandle
      <3>4. handles' # handles
        BY <3>2, <3>3 DEF HeldConns, LiveConns, OpenDbs
      <3>5. ASSUME NEW c \in Lost PROVE handles'[entries[c].state.db].conn # entries[c].state.conn
        <4>1. c \in DOMAIN entries /\ c \notin DOMAIN entries'
          BY <1>1, <3>5 DEF Lost
        <4>2. entries[c].state.db = db
          <5>1. DOMAIN InvalidateDb(entries, db) = {d \in DOMAIN entries : entries[d].state.db # db}
            BY DEF InvalidateDb, Keep
          <5>. QED  BY <3>1, <4>1, <5>1
        <4>3. entries[c].state.conn \in HeldConns
          BY <4>1 DEF HeldConns
        <4>. QED  BY <3>2, <3>3, <4>2, <4>3
      <3>. QED  BY <3>4, <3>5
    <2>. QED  BY <2>1, <2>2, <2>3 DEF DbOpenReuse, DbOpenFail
  <1>3. CASE DbClose
    <2>1. PICK db : CloseDb(db) /\ entries' = InvalidateDb(entries, db)
      BY <1>3 DEF DbClose
    <2>2. DOMAIN handles' = OpenDbs \ {db} /\ db \in OpenDbs
      BY <2>1 DEF CloseDb, RemoveHandle
    <2>3. handles' # handles
      BY <2>2 DEF OpenDbs
    <2>4. \A c \in Lost : entries[c].state.db = db
      <3>1. DOMAIN InvalidateDb(entries, db) = {c \in DOMAIN entries : entries[c].state.db # db}
        BY DEF InvalidateDb, Keep
      <3>. QED  BY <1>1, <2>1, <3>1 DEF Lost
    <2>. QED  BY <2>2, <2>3, <2>4
  <1>4. CASE Write
    BY <1>1, <1>4 DEF Write, Lost
  <1>. QED  BY <1>2, <1>3, <1>4

LEMMA StepLoses ==
  ASSUME Registered, StoreBounded, [Next]_vars
  PROVE  /\ handles' = handles => LosesOne
         /\ \A c \in Lost :
              \/ entries[c].state.db \notin DOMAIN handles'
              \/ handles'[entries[c].state.db].conn # entries[c].state.conn
              \/ LosesOne
  <1>1. CASE DbOpen \/ DbClose \/ Write
    BY <1>1, RegistryLoses DEF LosesOne
  <1>2. ASSUME NEW cl \in Clients, SqlQuery(cl) \/ ContinueQuery(cl) PROVE LosesOne
    BY <1>2, QueryLoses
  <1>3. ASSUME NEW cl, ContinueFails(cl) \/ ContinueNotFound(cl) \/ Abandon(cl) \/ Tick
        PROVE  LosesOne
    BY <1>3, ClientLoses DEF LosesOne
  <1>4. CASE UNCHANGED vars
    BY <1>4 DEF vars, LosesOne, Lost, Live
  <1>. QED  BY <1>1, <1>2, <1>3, <1>4 DEF Next

(* While the databases stay open, a step loses one live cursor at most:    *)
(* the one that its holder follows, or the least recently used one of a    *)
(* full store, to a new query.                                             *)
THEOREM OneLostCorrect == Spec => OneCursorPerCall
  <1>1. ASSUME Registered, StoreBounded, [Next]_vars, handles' = handles, Lost # {}
        PROVE  \E c \in Lost : Lost = {c} /\ (Followed(c) \/ MadeRoom(c))
    BY <1>1, StepLoses DEF LosesOne
  <1>2. Registered /\ StoreBounded /\ [Next]_vars =>
          [handles' = handles /\ Lost # {} =>
             \E c \in Lost : Lost = {c} /\ (Followed(c) \/ MadeRoom(c))]_vars
    BY <1>1
  <1>. QED
    BY <1>2, RegisteredCorrect, BoundedCorrect, PTL DEF Spec, OneCursorPerCall

(* No call, whether it fails or not, takes a live cursor unless it ends    *)
(* the connection of the cursor, follows it for its holder, or makes room  *)
(* for a new query where none of a full store is older.                    *)
THEOREM CausesCorrect == Spec => CursorsLostForCause
  <1>1. ASSUME Registered, StoreBounded, [Next]_vars, NEW c \in Lost
        PROVE  LET state == entries[c].state
               IN \/ state.db \notin DOMAIN handles'
                  \/ handles'[state.db].conn # state.conn
                  \/ Followed(c)
                  \/ MadeRoom(c)
    BY <1>1, StepLoses DEF LosesOne
  <1>2. Registered /\ StoreBounded /\ [Next]_vars =>
          [\A c \in Lost :
             LET state == entries[c].state
             IN \/ state.db \notin DOMAIN handles'
                \/ handles'[state.db].conn # state.conn
                \/ Followed(c)
                \/ MadeRoom(c)]_vars
    BY <1>1
  <1>. QED
    BY <1>2, RegisteredCorrect, BoundedCorrect, PTL DEF Spec, CursorsLostForCause
=============================================================================
