---------------------------- MODULE CursorStore -----------------------------
(***************************************************************************)
(* The store of pagination cursors (pagination/cursor_store.rs): a map     *)
(* from cursor ids to saved query contexts, with a time to live and a      *)
(* capacity.                                                               *)
(*                                                                         *)
(* Time enters only through the differences expires_at - now, so an entry  *)
(* carries what is left of its life; it has expired when nothing is left,  *)
(* and stays in the map until a call evicts it.  Operations take the map   *)
(* and return the map (or the set of maps they may return).                *)
(***************************************************************************)
EXTENDS Integers, FiniteSets

CONSTANTS
    CursorIds,   \* ids handed out; a fresh UUID is one that nobody holds
    Ttl,         \* cursor_ttl, in ticks
    Capacity     \* cursor_capacity; the configuration rejects zero

ASSUME CursorAssumption ==
    /\ Ttl \in Nat \ {0}
    /\ Capacity \in Nat \ {0}

VARIABLE entries

Live(map) == {c \in DOMAIN map : map[c].left > 0}

Keep(map, ids) == [c \in ids |-> map[c]]

Refreshed(map, c) == [map EXCEPT ![c].left = Ttl]

EvictExpired(map) == Keep(map, Live(map))

(* Deliberately wrong: room is made only once the store is over capacity.  *)
EvictToCapacityLate(map) ==
    IF Cardinality(DOMAIN map) <= Capacity
    THEN {map}
    ELSE {Keep(map, ids) : ids \in {s \in SUBSET DOMAIN map : Cardinality(s) = Capacity}}

(* Deliberately wrong: the most recently used entries go.                  *)
EvictMostRecent(map) ==
    IF Cardinality(DOMAIN map) < Capacity
    THEN {map}
    ELSE {Keep(map, ids) : ids \in
            {s \in SUBSET DOMAIN map :
                /\ Cardinality(s) = Capacity - 1
                /\ \A gone \in (DOMAIN map) \ s, kept \in s :
                     map[gone].left >= map[kept].left}}

(* The least recently used entries go until there is room for one more;    *)
(* among equal expiry times the map's iteration order decides.             *)
EvictToCapacity(map) ==
    IF Cardinality(DOMAIN map) < Capacity
    THEN {map}
    ELSE {Keep(map, ids) : ids \in
            {s \in SUBSET DOMAIN map :
                /\ Cardinality(s) = Capacity - 1
                /\ \A gone \in (DOMAIN map) \ s, kept \in s :
                     map[gone].left <= map[kept].left}}

MakeRoom(map) == EvictToCapacity(EvictExpired(map))

(* create: make room, then insert the new entry.                           *)
Insert(map, id, state) ==
    [c \in DOMAIN map \union {id} |->
        IF c = id THEN [state |-> state, left |-> Ttl] ELSE map[c]]

(* delete                                                                  *)
Delete(map, id) == Keep(map, DOMAIN map \ {id})

(* invalidate_db                                                           *)
InvalidateDb(map, db) == Keep(map, {c \in DOMAIN map : map[c].state.db # db})

(* The clock moves on by one tick.                                         *)
Age(map) == [c \in DOMAIN map |-> [map[c] EXCEPT !.left = IF @ = 0 THEN 0 ELSE @ - 1]]
=============================================================================
