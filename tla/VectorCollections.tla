------------------------- MODULE VectorCollections --------------------------
(***************************************************************************)
(* Vector collections: documents in one table, their embeddings in a       *)
(* virtual table of sqlite-vec, joined by rowid and by nothing else.       *)
(*                                                                         *)
(* One database file; documents are removed by clients' own DELETE, for    *)
(* there is no tool for it.  vector_upsert is modelled item by item inside *)
(* its transaction; the mutex of the registry keeps other calls out, but   *)
(* not the end of the process.                                             *)
(***************************************************************************)
EXTENDS Naturals, Sequences, FiniteSets

CONSTANTS
    Names,         \* names of collections
    Tables,        \* their pairs of tables (c_docs, c_vec)
    TableOf,       \* names are compared as text, tables without regard to case
    Ids, Texts,    \* of documents
    Tags, NoTag,   \* metadata of documents
    Models,        \* embedding models
    DimensionOf,   \* the length of a model's vectors
    Runtimes,      \* configurations (model, dimension) the server is started with
    NoModel,       \* the model of a server without embedding backend
    MaxItems,      \* SQLITE_MAX_ROWS
    MaxRow,        \* bound on rowids
    NoCollection, NoTable, NoDoc, NoVector, NoUpsert

Rows == 1 .. MaxRow
Items == [ id : Ids, text : Texts, metadata : Tags \union {NoTag} ]
Embeddings == [ model : Models, text : Texts ]
DocTables == [ Rows -> Items \union {NoDoc} ]
VecTables == [ dimension : Nat \ {0}, rows : [Rows -> Embeddings \union {NoVector}] ]
DocStates == [Tables -> DocTables \union {NoTable}]
VecStates == [Tables -> VecTables \union {NoTable}]
ConflictModes == {"replace", "ignore", "update_metadata"}

(* A call under way: what is left of it, and what ROLLBACK restores.       *)
Upserts == [ collection : Names, dimension : Nat \ {0}, mode : ConflictModes,
             items : Seq(Items), docs : DocStates, vecs : VecStates ]

ASSUME VectorAssumption ==
    /\ TableOf \in [Names -> Tables]
    /\ DimensionOf \in [Models -> Nat \ {0}]
    /\ Runtimes \subseteq [ model : Models \union {NoModel}, dimension : Nat \ {0} ]
    /\ \A r \in Runtimes : r.model # NoModel => r.dimension = DimensionOf[r.model]
    /\ MaxItems \in Nat /\ MaxRow \in Nat
    /\ NoModel \notin Models
    /\ NoDoc \notin Items
    /\ NoVector \notin Embeddings
    /\ NoTable \notin DocTables /\ NoTable \notin VecTables
    /\ NoCollection \notin Nat
    /\ NoUpsert \notin Upserts

VARIABLES
    collections,   \* _vector_collections: the dimension of each collection
    docs, vecs,    \* the tables
    runtime,       \* configuration of the running server
    upsert         \* the call of vector_upsert under way

vectorVars == << collections, docs, vecs, runtime, upsert >>

TypeOK ==
    /\ collections \in [Names -> (Nat \ {0}) \union {NoCollection}]
    /\ docs \in DocStates
    /\ vecs \in VecStates
    /\ runtime \in Runtimes
    /\ upsert \in Upserts \union {NoUpsert}

Init ==
    /\ collections = [n \in Names |-> NoCollection]
    /\ docs = [t \in Tables |-> NoTable]
    /\ vecs = [t \in Tables |-> NoTable]
    /\ runtime \in Runtimes
    /\ upsert = NoUpsert

(* Both tables are created unless they exist.  A name that is taken is a   *)
(* conflict or, with if_not_exists, an answer: nothing changes.            *)
CreateCollection(n) ==
    /\ upsert = NoUpsert
    /\ runtime.dimension # 0
    /\ collections[n] = NoCollection
    /\ collections' = [collections EXCEPT ![n] = runtime.dimension]
    /\ docs' = [docs EXCEPT ![TableOf[n]] = IF @ = NoTable THEN [r \in Rows |-> NoDoc] ELSE @]
    /\ vecs' = [vecs EXCEPT ![TableOf[n]] =
                  IF @ = NoTable
                  THEN [dimension |-> runtime.dimension, rows |-> [r \in Rows |-> NoVector]]
                  ELSE @]
    /\ UNCHANGED << runtime, upsert >>

(* Deliberately wrong: a name nobody has created is no error.              *)
AnyCollection(n) == TRUE

Known(n) == collections[n] # NoCollection

(* The checks and BEGIN IMMEDIATE.                                         *)
UpsertBegin(n) ==
    /\ upsert = NoUpsert
    /\ runtime.model # NoModel
    /\ Known(n)
    /\ \E mode \in ConflictModes, k \in 1 .. MaxItems : \E items \in [1 .. k -> Items] :
         upsert' = [ collection |-> n, dimension |-> collections[n], mode |-> mode,
                     items |-> items, docs |-> docs, vecs |-> vecs ]
    /\ UNCHANGED << collections, docs, vecs, runtime >>

Table == TableOf[upsert.collection]

RowsWith(id) == {r \in Rows : docs[Table][r] # NoDoc /\ docs[Table][r].id = id}

(* The rowid SQLite gives to a new document: one more than the largest.    *)
IsNewRow(row) ==
    /\ \A r \in Rows : r >= row => docs[Table][r] = NoDoc
    /\ row > 1 => docs[Table][row - 1] # NoDoc

(* The embedding is made, checked against the configuration, the           *)
(* collection and the virtual table.                                       *)
Embeds ==
    /\ DimensionOf[runtime.model] = runtime.dimension
    /\ runtime.dimension = upsert.dimension
    /\ runtime.dimension = vecs[Table].dimension

(* Deliberately wrong: a plain insert that ignores conflicts.              *)
PutVectorIfAbsent(row, item) ==
    vecs' = [vecs EXCEPT ![Table].rows[row] =
               IF @ = NoVector THEN [model |-> runtime.model, text |-> item.text] ELSE @]

(* "insert or replace into c_vec(rowid, embedding)".                       *)
PutVector(row, item) ==
    vecs' = [vecs EXCEPT ![Table].rows[row] = [model |-> runtime.model, text |-> item.text]]

PutDoc(row, doc) == docs' = [docs EXCEPT ![Table][row] = doc]

(* All conflict modes insert a document whose id is new.                   *)
InsertItem(item) ==
    /\ RowsWith(item.id) = {}
    /\ \E row \in Rows :
         /\ IsNewRow(row)
         /\ PutDoc(row, item) /\ PutVector(row, item)

ReplaceItem(item) ==
    /\ upsert.mode = "replace"
    /\ \E row \in RowsWith(item.id) : PutDoc(row, item) /\ PutVector(row, item)

IgnoreItem(item) ==
    /\ upsert.mode = "ignore" /\ RowsWith(item.id) # {}
    /\ UNCHANGED << docs, vecs >>

(* The text stays as it is, whatever the item says.                        *)
UpdateItemMetadata(item) ==
    /\ upsert.mode = "update_metadata"
    /\ \E row \in RowsWith(item.id) :
         PutDoc(row, [docs[Table][row] EXCEPT !.metadata = item.metadata])
    /\ UNCHANGED vecs

UpsertItem ==
    /\ upsert # NoUpsert /\ upsert.items # << >>
    /\ Embeds
    /\ LET item == Head(upsert.items)
       IN InsertItem(item) \/ ReplaceItem(item) \/ IgnoreItem(item) \/ UpdateItemMetadata(item)
    /\ upsert' = [upsert EXCEPT !.items = Tail(@)]
    /\ UNCHANGED << collections, runtime >>

UpsertCommit ==
    /\ upsert # NoUpsert /\ upsert.items = << >>
    /\ upsert' = NoUpsert
    /\ UNCHANGED << collections, docs, vecs, runtime >>

Rollback ==
    /\ upsert' = NoUpsert
    /\ docs' = upsert.docs /\ vecs' = upsert.vecs
    /\ UNCHANGED collections

(* The embedding or a statement fails, the file is too large, COMMIT fails.*)
UpsertFails == upsert # NoUpsert /\ Rollback /\ UNCHANGED runtime

(* A client's DELETE FROM c_docs: the embedding stays.                     *)
DeleteDocument(t, row) ==
    /\ upsert = NoUpsert
    /\ docs[t] # NoTable /\ docs[t][row] # NoDoc
    /\ docs' = [docs EXCEPT ![t][row] = NoDoc]
    /\ UNCHANGED << collections, vecs, runtime, upsert >>

(* The process ends at any time and starts again, perhaps with another     *)
(* configuration.                                                          *)
Restart ==
    /\ runtime' \in Runtimes
    /\ IF upsert = NoUpsert
       THEN UNCHANGED << collections, docs, vecs, upsert >>
       ELSE Rollback

Next ==
    \/ \E n \in Names : CreateCollection(n) \/ UpsertBegin(n)
    \/ UpsertItem \/ UpsertCommit \/ UpsertFails
    \/ \E t \in Tables, row \in Rows : DeleteDocument(t, row)
    \/ Restart

Spec == Init /\ [][Next]_vectorVars

-----------------------------------------------------------------------------

(* A document is searched by its own text: each one has an embedding, and  *)
(* that was made of the text the document has now.  Documents deleted by   *)
(* SQL leave embeddings behind, and SQLite gives their rowids out again;   *)
(* update_metadata must not touch the text, ignore must not touch the      *)
(* embedding.                                                              *)
EmbeddingsMatchDocuments ==
    \A t \in Tables : docs[t] # NoTable =>
        /\ vecs[t] # NoTable
        /\ \A row \in Rows : docs[t][row] # NoDoc =>
             /\ vecs[t].rows[row] # NoVector
             /\ vecs[t].rows[row].text = docs[t][row].text

DocumentsOf(n) ==
    IF collections[n] = NoCollection THEN {}
    ELSE {docs[TableOf[n]][r] : r \in Rows} \ {NoDoc}

(* Only a call about a collection adds or changes documents of it, and it  *)
(* is empty when it has just been created.                                 *)
CollectionsAreSeparate ==
    [][\A n \in Names :
         \/ DocumentsOf(n)' \subseteq DocumentsOf(n)
         \/ upsert # NoUpsert /\ upsert.collection = n]_vectorVars
=============================================================================
