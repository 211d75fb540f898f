---------------------------- MODULE VectorProofs ----------------------------
(***************************************************************************)
(* Every document of a collection is searched by its own text.             *)
(***************************************************************************)
EXTENDS VectorSearch, SequenceTheorems, FiniteSetTheorems, WellFoundedInduction, TLAPS

Matching(d, v) ==
    \A t \in Tables : d[t] # NoTable =>
        /\ v[t] # NoTable
        /\ \A row \in Rows : d[t][row] # NoDoc =>
             /\ v[t].rows[row] # NoVector
             /\ v[t].rows[row].text = d[t][row].text

(* Collections have their tables, before a transaction as within it.       *)
Backed(d) == \A n \in Names : collections[n] # NoCollection => d[TableOf[n]] # NoTable

UpsertInv ==
    upsert # NoUpsert =>
        /\ Matching(upsert.docs, upsert.vecs)
        /\ Backed(upsert.docs)
        /\ collections[upsert.collection] # NoCollection
        /\ runtime.model # NoModel

Inv == TypeOK /\ Matching(docs, vecs) /\ Backed(docs) /\ UpsertInv

LEMMA InitInv == Init => Inv
  BY VectorAssumption
  DEF Init, Inv, TypeOK, DocStates, VecStates, Matching, Backed, UpsertInv

LEMMA CreateInv ==
  ASSUME Inv, NEW n \in Names, CreateCollection(n)
  PROVE  Inv'
  <1> DEFINE t == TableOf[n]
             fresh == [dimension |-> runtime.dimension, rows |-> [r \in Rows |-> NoVector]]
  <1>1. t \in Tables /\ runtime.dimension \in Nat \ {0}
    BY VectorAssumption DEF CreateCollection, Inv, TypeOK
  <1>2. [r \in Rows |-> NoDoc] \in DocTables /\ fresh \in VecTables
    BY <1>1 DEF DocTables, VecTables
  <1>3. /\ docs' = [docs EXCEPT ![t] = IF @ = NoTable THEN [r \in Rows |-> NoDoc] ELSE @]
        /\ vecs' = [vecs EXCEPT ![t] = IF @ = NoTable THEN fresh ELSE @]
        /\ upsert = NoUpsert /\ upsert' = NoUpsert
    BY DEF CreateCollection
  <1>4. docs' \in DocStates /\ vecs' \in VecStates
    BY <1>1, <1>2, <1>3 DEF Inv, TypeOK, DocStates, VecStates
  <1>5. TypeOK'
    BY <1>1, <1>3, <1>4 DEF CreateCollection, Inv, TypeOK
  <1>6. \A u \in Tables : docs[u] # NoTable => vecs[u] # NoTable
    BY DEF Inv, Matching
  <1>7. Matching(docs, vecs)'
    <2> SUFFICES ASSUME NEW u \in Tables, docs'[u] # NoTable
                 PROVE  /\ vecs'[u] # NoTable
                        /\ \A row \in Rows : docs'[u][row] # NoDoc =>
                             /\ vecs'[u].rows[row] # NoVector
                             /\ vecs'[u].rows[row].text = docs'[u][row].text
      BY DEF Matching
    <2>1. CASE docs[u] # NoTable
      <3>1. docs'[u] = docs[u] /\ vecs'[u] = vecs[u]
        BY <1>3, <1>6, <2>1 DEF Inv, TypeOK, DocStates, VecStates
      <3> QED
        BY <2>1, <3>1 DEF Inv, Matching
    <2>2. CASE docs[u] = NoTable
      <3>1. u = t /\ docs'[u] = [r \in Rows |-> NoDoc]
        BY <1>3, <2>2 DEF Inv, TypeOK, DocStates
      <3>2. vecs'[u] # NoTable
        BY <1>2, <1>3, <3>1, VectorAssumption DEF Inv, TypeOK, VecStates
      <3> QED
        BY <3>1, <3>2
    <2> QED
      BY <2>1, <2>2
  <1>8. Backed(docs)'
    <2> SUFFICES ASSUME NEW m \in Names, collections'[m] # NoCollection
                 PROVE  docs'[TableOf[m]] # NoTable
      BY DEF Backed
    <2>1. TableOf[m] \in Tables
      BY VectorAssumption
    <2>2. m = n \/ collections[m] # NoCollection
      BY DEF CreateCollection, Inv, TypeOK
    <2>3. docs'[t] # NoTable
      BY <1>1, <1>2, <1>3, VectorAssumption DEF Inv, TypeOK, DocStates
    <2> QED
      BY <1>3, <2>1, <2>2, <2>3 DEF Inv, Backed, TypeOK, DocStates
  <1> QED
    BY <1>3, <1>5, <1>7, <1>8 DEF Inv, UpsertInv

LEMMA BeginInv ==
  ASSUME Inv, NEW n \in Names, UpsertBegin(n)
  PROVE  Inv'
  <1>1. PICK mode \in ConflictModes, k \in 1 .. MaxItems : \E items \in [1 .. k -> Items] :
          upsert' = [ collection |-> n, dimension |-> collections[n], mode |-> mode,
                      items |-> items, docs |-> docs, vecs |-> vecs ]
    BY DEF UpsertBegin, Known
  <1>2. PICK items \in [1 .. k -> Items] :
          upsert' = [ collection |-> n, dimension |-> collections[n], mode |-> mode,
                      items |-> items, docs |-> docs, vecs |-> vecs ]
    BY <1>1
  <1>3. items \in Seq(Items)
    BY VectorAssumption
  <1>4. collections[n] \in Nat \ {0} /\ UNCHANGED << collections, docs, vecs, runtime >>
    BY DEF UpsertBegin, Known, Inv, TypeOK
  <1>5. TypeOK'
    BY <1>2, <1>3, <1>4 DEF Inv, TypeOK, Upserts
  <1> QED
    BY <1>2, <1>4, <1>5 DEF Inv, UpsertInv, Matching, Backed, UpsertBegin, Known

(* A document and the embedding of its text are put into the same row.     *)
LEMMA PutBothInv ==
  ASSUME Inv, upsert # NoUpsert, NEW item \in Items, NEW row \in Rows,
         PutDoc(row, item), PutVector(row, item)
  PROVE  /\ docs' \in DocStates /\ vecs' \in VecStates
         /\ Matching(docs, vecs)'
         /\ \A t \in Tables : docs[t] # NoTable => docs'[t] # NoTable
  <1>1. /\ Table \in Tables /\ docs[Table] \in DocTables /\ vecs[Table] \in VecTables
        /\ docs[Table] # NoTable
    BY VectorAssumption DEF Inv, TypeOK, UpsertInv, Backed, Matching, Upserts, Table, DocStates, VecStates
  <1> DEFINE embedding == [model |-> runtime.model, text |-> item.text]
  <1>2. embedding \in Embeddings /\ embedding.text = item.text
    BY VectorAssumption DEF Inv, TypeOK, UpsertInv, Embeddings, Items
  <1>3. /\ docs' = [docs EXCEPT ![Table] = [docs[Table] EXCEPT ![row] = item]]
        /\ vecs' = [vecs EXCEPT ![Table] =
                      [vecs[Table] EXCEPT !.rows = [vecs[Table].rows EXCEPT ![row] = embedding]]]
    BY DEF PutDoc, PutVector
  <1> DEFINE newDocs == [docs[Table] EXCEPT ![row] = item]
             newRows == [vecs[Table].rows EXCEPT ![row] = embedding]
             newVecs == [vecs[Table] EXCEPT !.rows = newRows]
  <1>4. newDocs \in DocTables
    BY <1>1 DEF DocTables
  <1>5. newRows \in [Rows -> Embeddings \union {NoVector}]
    BY <1>1, <1>2 DEF VecTables
  <1>6. newVecs \in VecTables /\ newVecs.rows = newRows
    BY <1>1, <1>5 DEF VecTables
  <1>7. docs' \in DocStates /\ vecs' \in VecStates
    BY <1>1, <1>3, <1>4, <1>6 DEF Inv, TypeOK, DocStates, VecStates
  <1>8. /\ docs'[Table] = newDocs /\ vecs'[Table] = newVecs
        /\ \A t \in Tables : t # Table => docs'[t] = docs[t] /\ vecs'[t] = vecs[t]
    BY <1>1, <1>3 DEF Inv, TypeOK, DocStates, VecStates
  <1>9. ASSUME NEW r \in Rows, newDocs[r] # NoDoc
        PROVE  newRows[r] # NoVector /\ newRows[r].text = newDocs[r].text
    <2>1. CASE r = row
      <3>1. newDocs[r] = item /\ newRows[r] = embedding
        BY <1>1, <2>1 DEF DocTables, VecTables
      <3> QED
        BY <1>2, <3>1, VectorAssumption
    <2>2. CASE r # row
      <3>1. newDocs[r] = docs[Table][r] /\ newRows[r] = vecs[Table].rows[r]
        BY <1>1, <2>2 DEF DocTables, VecTables
      <3> QED
        BY <1>1, <1>9, <3>1 DEF Inv, Matching
    <2> QED
      BY <2>1, <2>2
  <1>10. newDocs # NoTable /\ newVecs # NoTable
    BY <1>4, <1>6, VectorAssumption
  <1> HIDE DEF newDocs, newRows, newVecs
  <1>11. Matching(docs, vecs)'
    BY <1>6, <1>8, <1>9, <1>10 DEF Inv, Matching
  <1>12. \A t \in Tables : docs[t] # NoTable => docs'[t] # NoTable
    BY <1>8, <1>10
  <1> QED
    BY <1>7, <1>11, <1>12

(* New metadata leave the text as it is.                                   *)
LEMMA PutMetadataInv ==
  ASSUME Inv, upsert # NoUpsert, NEW item \in Items, UpdateItemMetadata(item)
  PROVE  /\ docs' \in DocStates /\ vecs' \in VecStates
         /\ Matching(docs, vecs)'
         /\ \A t \in Tables : docs[t] # NoTable => docs'[t] # NoTable
  <1>1. PICK row \in RowsWith(item.id) :
          PutDoc(row, [docs[Table][row] EXCEPT !.metadata = item.metadata])
    BY DEF UpdateItemMetadata
  <1>2. /\ Table \in Tables /\ docs[Table] \in DocTables /\ docs[Table] # NoTable
        /\ row \in Rows /\ docs[Table][row] # NoDoc /\ vecs' = vecs
    BY <1>1, VectorAssumption
    DEF Inv, TypeOK, UpsertInv, Backed, Upserts, Table, DocStates, RowsWith, UpdateItemMetadata
  <1> DEFINE doc == [docs[Table][row] EXCEPT !.metadata = item.metadata]
             newDocs == [docs[Table] EXCEPT ![row] = doc]
  <1>3. docs[Table][row] \in Items
    BY <1>2 DEF DocTables
  <1>4. doc \in Items /\ doc.text = docs[Table][row].text
    BY <1>3 DEF Items
  <1>5. newDocs \in DocTables /\ newDocs # NoTable
    BY <1>2, <1>4, VectorAssumption DEF DocTables
  <1>6. docs' = [docs EXCEPT ![Table] = newDocs]
    BY <1>1 DEF PutDoc
  <1>7. docs' \in DocStates
    BY <1>2, <1>5, <1>6 DEF Inv, TypeOK, DocStates
  <1>8. docs'[Table] = newDocs /\ \A t \in Tables : t # Table => docs'[t] = docs[t]
    BY <1>2, <1>6 DEF Inv, TypeOK, DocStates
  <1>9. ASSUME NEW r \in Rows, newDocs[r] # NoDoc
        PROVE  docs[Table][r] # NoDoc /\ newDocs[r].text = docs[Table][r].text
    BY <1>2, <1>4, <1>9 DEF DocTables
  <1> HIDE DEF newDocs, doc
  <1>10. Matching(docs, vecs)'
    BY <1>2, <1>8, <1>9 DEF Inv, Matching
  <1> QED
    BY <1>2, <1>5, <1>7, <1>8, <1>10 DEF Inv, TypeOK

LEMMA ItemInv ==
  ASSUME Inv, UpsertItem
  PROVE  Inv'
  <1> DEFINE item == Head(upsert.items)
  <1>1. /\ upsert \in Upserts /\ upsert # NoUpsert /\ upsert.items # << >>
        /\ upsert' = [upsert EXCEPT !.items = Tail(@)]
        /\ UNCHANGED << collections, runtime >>
    BY DEF UpsertItem, Inv, TypeOK
  <1>2. item \in Items /\ Tail(upsert.items) \in Seq(Items)
    BY <1>1, HeadTailProperties DEF Upserts
  <1>3. /\ docs' \in DocStates /\ vecs' \in VecStates
        /\ Matching(docs, vecs)'
        /\ \A t \in Tables : docs[t] # NoTable => docs'[t] # NoTable
    <2>1. CASE InsertItem(item)
      <3>1. PICK row \in Rows : PutDoc(row, item) /\ PutVector(row, item)
        BY <2>1 DEF InsertItem
      <3> QED
        BY <1>1, <1>2, <3>1, PutBothInv
    <2>2. CASE ReplaceItem(item)
      <3>1. PICK row \in RowsWith(item.id) : PutDoc(row, item) /\ PutVector(row, item)
        BY <2>2 DEF ReplaceItem
      <3>2. row \in Rows
        BY <3>1 DEF RowsWith
      <3> QED
        BY <1>1, <1>2, <3>1, <3>2, PutBothInv
    <2>3. CASE IgnoreItem(item)
      BY <2>3 DEF IgnoreItem, Inv, TypeOK, Matching
    <2>4. CASE UpdateItemMetadata(item)
      BY <1>1, <1>2, <2>4, PutMetadataInv
    <2> QED
      BY <2>1, <2>2, <2>3, <2>4 DEF UpsertItem
  <1> HIDE DEF item
  <1>4. /\ upsert' \in Upserts
        /\ upsert'.docs = upsert.docs /\ upsert'.vecs = upsert.vecs
        /\ upsert'.collection = upsert.collection
    BY <1>1, <1>2 DEF Upserts
  <1>5. TypeOK'
    BY <1>1, <1>3, <1>4 DEF Inv, TypeOK
  <1>6. Backed(docs)'
    BY <1>1, <1>3, VectorAssumption DEF Inv, Backed
  <1>7. UpsertInv'
    BY <1>1, <1>4 DEF Inv, UpsertInv, Matching, Backed
  <1> QED
    BY <1>3, <1>5, <1>6, <1>7 DEF Inv

LEMMA RollbackInv ==
  ASSUME Inv, upsert # NoUpsert, Rollback, runtime' \in Runtimes
  PROVE  Inv'
  <1>1. upsert \in Upserts
    BY DEF Inv, TypeOK
  <1>2. TypeOK'
    BY <1>1 DEF Rollback, Inv, TypeOK, Upserts
  <1> QED
    BY <1>2 DEF Rollback, Inv, UpsertInv, Matching, Backed

LEMMA DeleteInv ==
  ASSUME Inv, NEW t \in Tables, NEW row \in Rows, DeleteDocument(t, row)
  PROVE  Inv'
  <1> DEFINE newDocs == [docs[t] EXCEPT ![row] = NoDoc]
  <1>1. /\ docs[t] \in DocTables /\ docs[t] # NoTable
        /\ docs' = [docs EXCEPT ![t] = newDocs]
        /\ upsert = NoUpsert /\ UNCHANGED << collections, vecs, runtime, upsert >>
    BY DEF DeleteDocument, Inv, TypeOK, DocStates
  <1>2. newDocs \in DocTables /\ newDocs # NoTable
    BY <1>1, VectorAssumption DEF DocTables
  <1>3. \A r \in Rows : newDocs[r] # NoDoc => newDocs[r] = docs[t][r]
    BY <1>1 DEF DocTables
  <1>4. docs'[t] = newDocs /\ \A u \in Tables : u # t => docs'[u] = docs[u]
    BY <1>1 DEF Inv, TypeOK, DocStates
  <1>5. TypeOK'
    BY <1>1, <1>2 DEF Inv, TypeOK, DocStates
  <1> HIDE DEF newDocs
  <1>6. Matching(docs, vecs)'
    <2> SUFFICES ASSUME NEW u \in Tables, docs'[u] # NoTable
                 PROVE  /\ vecs[u] # NoTable
                        /\ \A r \in Rows : docs'[u][r] # NoDoc =>
                             /\ vecs[u].rows[r] # NoVector
                             /\ vecs[u].rows[r].text = docs'[u][r].text
      BY <1>1 DEF Matching
    <2>1. CASE u = t
      BY <1>1, <1>3, <1>4, <2>1 DEF Inv, Matching
    <2>2. CASE u # t
      BY <1>4, <2>2 DEF Inv, Matching
    <2> QED
      BY <2>1, <2>2
  <1>7. Backed(docs)'
    BY <1>1, <1>2, <1>4, VectorAssumption DEF Inv, Backed
  <1> QED
    BY <1>1, <1>5, <1>6, <1>7 DEF Inv, UpsertInv

LEMMA NextInv == Inv /\ [Next]_vectorVars => Inv'
  <1> SUFFICES ASSUME Inv, [Next]_vectorVars PROVE Inv'
    OBVIOUS
  <1>1. ASSUME NEW n \in Names, CreateCollection(n) PROVE Inv'
    BY <1>1, CreateInv
  <1>2. ASSUME NEW n \in Names, UpsertBegin(n) PROVE Inv'
    BY <1>2, BeginInv
  <1>3. CASE UpsertItem
    BY <1>3, ItemInv
  <1>4. CASE UpsertCommit
    BY <1>4 DEF UpsertCommit, Inv, TypeOK, UpsertInv, Matching, Backed
  <1>5. CASE UpsertFails
    BY <1>5, RollbackInv DEF UpsertFails, Inv, TypeOK
  <1>6. ASSUME NEW t \in Tables, NEW row \in Rows, DeleteDocument(t, row) PROVE Inv'
    BY <1>6, DeleteInv
  <1>7. CASE Restart
    <2>1. CASE upsert = NoUpsert
      BY <1>7, <2>1 DEF Restart, Inv, TypeOK, UpsertInv, Matching, Backed
    <2>2. CASE upsert # NoUpsert
      BY <1>7, <2>2, RollbackInv DEF Restart
    <2> QED
      BY <2>1, <2>2
  <1>8. CASE UNCHANGED vectorVars
    BY <1>8 DEF vectorVars, Inv, TypeOK, UpsertInv, Matching, Backed
  <1> QED
    BY <1>1, <1>2, <1>3, <1>4, <1>5, <1>6, <1>7, <1>8 DEF Next

(* The type invariant holds: tables that a step writes to exist.           *)
THEOREM VectorTypeCorrect == Spec => []TypeOK
  BY InitInv, NextInv, PTL DEF Spec, Inv

LEMMA InvMatches == Inv => EmbeddingsMatchDocuments
  BY DEF Inv, Matching, EmbeddingsMatchDocuments

(* Whatever is upserted in which mode, deleted, rolled back, or cut off by *)
(* the end of the process: a document's embedding is of its text.          *)
THEOREM EmbeddingsCorrect == Spec => []EmbeddingsMatchDocuments
  BY InitInv, NextInv, InvMatches, PTL DEF Spec

-----------------------------------------------------------------------------
(* The join of the nearest embeddings with the wanted documents            *)

(* A set of naturals has a least element.                                  *)
LEMMA Least ==
    ASSUME NEW S, S \subseteq Nat, S # {}
    PROVE  \E x \in S : \A y \in S : x <= y
  <1>1. IsWellFoundedOn(OpToRel(<, Nat), Nat)
    BY NatLessThanWellFounded
  <1>2. PICK x \in S : \A y \in S : << y, x >> \notin OpToRel(<, Nat)
    BY <1>1, WFMin
  <1>3. \A y \in S : ~(y < x)
    BY <1>2 DEF OpToRel
  <1>. QED  BY <1>3

(* The equation the function of Joined is defined with, up to n.           *)
Joins(joined, near, wanted, n) ==
    joined = [i \in 0 .. n |->
                IF i = 0 THEN << >>
                ELSE IF near[i] \in wanted THEN Append(joined[i - 1], near[i])
                ELSE joined[i - 1]]

LEMMA JoinsExist ==
    ASSUME NEW near, NEW wanted, NEW n \in Nat
    PROVE  \E joined : Joins(joined, near, wanted, n)
  <1> DEFINE Wrong == {m \in Nat : ~ \E joined : Joins(joined, near, wanted, m)}
  <1>1. ASSUME Wrong # {} PROVE FALSE
    <2>1. PICK m \in Wrong : \A l \in Wrong : m <= l
      <3>1. Wrong \subseteq Nat
        OBVIOUS
      <3> HIDE DEF Wrong
      <3>. QED  BY <1>1, <3>1, Least
    <2>2. CASE m = 0
      <3>1. Joins([i \in 0 .. 0 |-> << >>], near, wanted, 0)
        BY DEF Joins
      <3>. QED  BY <2>1, <2>2, <3>1
    <2>3. CASE m # 0
      <3>1. m \in Nat \ {0} /\ m - 1 \in Nat /\ m - 1 \notin Wrong
        BY <2>1, <2>3
      <3>2. PICK joined : Joins(joined, near, wanted, m - 1)
        BY <3>1
      <3> DEFINE last == IF near[m] \in wanted THEN Append(joined[m - 1], near[m]) ELSE joined[m - 1]
                 more == [i \in 0 .. m |-> IF i = m THEN last ELSE joined[i]]
      <3>3. \A i \in 0 .. m :
              more[i] = IF i = 0 THEN << >>
                        ELSE IF near[i] \in wanted THEN Append(more[i - 1], near[i])
                        ELSE more[i - 1]
        <4>1. \A i \in 0 .. m - 1 :
                joined[i] = IF i = 0 THEN << >>
                            ELSE IF near[i] \in wanted THEN Append(joined[i - 1], near[i])
                            ELSE joined[i - 1]
          BY <3>2 DEF Joins
        <4>2. /\ more[m] = last /\ \A i \in 0 .. m - 1 : more[i] = joined[i]
              /\ \A i \in 0 .. m : i = m \/ i \in 0 .. m - 1
              /\ \A i \in 1 .. m : i - 1 \in 0 .. m - 1
          BY <3>1
        <4>3. 0 \in 0 .. m - 1
          BY <3>1
        <4> HIDE DEF more
        <4>4. SUFFICES ASSUME NEW i \in 0 .. m, i # 0
                       PROVE  more[i] = IF near[i] \in wanted THEN Append(more[i - 1], near[i])
                                        ELSE more[i - 1]
          BY <4>1, <4>2, <4>3
        <4>5. i \in 1 .. m
          BY <4>4, <3>1
        <4>. QED  BY <4>1, <4>2, <4>4, <4>5
      <3>4. Joins(more, near, wanted, m)
        <4>1. more = [i \in 0 .. m |-> more[i]]
          OBVIOUS
        <4> HIDE DEF more
        <4>. QED  BY <3>3, <4>1 DEF Joins
      <3>. QED  BY <2>1, <3>4
    <2>. QED  BY <2>2, <2>3
  <1>. QED  BY <1>1

LEMMA JoinsUnique ==
    ASSUME NEW near, NEW wanted, NEW n \in Nat, NEW f, NEW g,
           Joins(f, near, wanted, n), Joins(g, near, wanted, n)
    PROVE  f = g
  <1> DEFINE Wrong == {m \in 0 .. n : f[m] # g[m]}
  <1>1. ASSUME Wrong # {} PROVE FALSE
    <2>1. PICK m \in Wrong : \A l \in Wrong : m <= l
      <3>1. Wrong \subseteq Nat
        OBVIOUS
      <3> HIDE DEF Wrong
      <3>. QED  BY <1>1, <3>1, Least
    <2>2. m # 0
      BY <2>1 DEF Joins
    <2>3. m - 1 \in 0 .. n /\ m - 1 \notin Wrong
      BY <2>1, <2>2
    <2>. QED  BY <2>1, <2>2, <2>3 DEF Joins
  <1>. QED  BY <1>1 DEF Joins

LEMMA JoinedIs ==
    ASSUME NEW near, NEW wanted, Len(near) \in Nat,
           NEW joined, Joins(joined, near, wanted, Len(near))
    PROVE  Joined(near, wanted) = joined[Len(near)]
  <1> DEFINE chosen == CHOOSE j : Joins(j, near, wanted, Len(near))
  <1>1. Joins(chosen, near, wanted, Len(near))
    OBVIOUS
  <1>2. chosen = joined
    BY <1>1, JoinsUnique
  <1>3. Joined(near, wanted) = chosen[Len(near)]
    BY DEF Joined, Joins
  <1>. QED  BY <1>2, <1>3

(* The wanted ones among the first n of near, in their order.              *)
KeptUpTo(kept, near, wanted, n) ==
    /\ kept \in Seq(Rows)
    /\ \A k \in 1 .. n : near[k] \in wanted => \E a \in 1 .. Len(kept) : kept[a] = near[k]
    /\ \A a \in 1 .. Len(kept) : kept[a] \in wanted
    /\ \A a \in 1 .. Len(kept) : \E k \in 1 .. n : kept[a] = near[k]
    /\ \A a, b \in 1 .. Len(kept) : a < b =>
         \E k, l \in 1 .. n : k < l /\ kept[a] = near[k] /\ kept[b] = near[l]

LEMMA KeepNext ==
    ASSUME NEW near \in Seq(Rows), NEW wanted, NEW n \in 1 .. Len(near),
           NEW kept, KeptUpTo(kept, near, wanted, n - 1)
    PROVE  KeptUpTo(IF near[n] \in wanted THEN Append(kept, near[n]) ELSE kept, near, wanted, n)
  <1>1. /\ n \in Nat /\ n # 0 /\ near[n] \in Rows
        /\ \A k \in 1 .. n : k \in 1 .. n - 1 \/ k = n
        /\ \A k \in 1 .. n - 1 : k \in 1 .. n /\ k < n
    BY LenProperties
  <1>2. kept \in Seq(Rows) /\ Len(kept) \in Nat
    BY DEF KeptUpTo
  <1>3. CASE near[n] \in wanted
    <2> DEFINE more == Append(kept, near[n])
               last == Len(kept) + 1
    <2>1. /\ more \in Seq(Rows) /\ Len(more) = last /\ more[last] = near[n]
          /\ \A a \in 1 .. Len(kept) : more[a] = kept[a]
      BY <1>1, <1>2, AppendProperties
    <2>2. /\ \A a \in 1 .. last : a \in 1 .. Len(kept) \/ a = last
          /\ \A a \in 1 .. Len(kept) : a \in 1 .. last
          /\ last \in 1 .. last /\ last \in Nat
      BY <1>2
    <2> HIDE DEF more, last
    <2>3. \A k \in 1 .. n : near[k] \in wanted => \E a \in 1 .. Len(more) : more[a] = near[k]
      BY <1>1, <2>1, <2>2 DEF KeptUpTo
    <2>4. \A a \in 1 .. Len(more) : more[a] \in wanted /\ \E k \in 1 .. n : more[a] = near[k]
      <3> SUFFICES ASSUME NEW a \in 1 .. Len(more)
                   PROVE  more[a] \in wanted /\ \E k \in 1 .. n : more[a] = near[k]
        OBVIOUS
      <3>1. CASE a \in 1 .. Len(kept)
        <4>1. more[a] = kept[a] /\ kept[a] \in wanted
          BY <2>1, <3>1 DEF KeptUpTo
        <4>2. PICK k \in 1 .. n - 1 : kept[a] = near[k]
          BY <3>1 DEF KeptUpTo
        <4>. QED  BY <1>1, <4>1, <4>2
      <3>2. CASE a = last
        <4>1. n \in 1 .. n
          BY <1>1
        <4>. QED  BY <1>3, <2>1, <3>2, <4>1
      <3>. QED  BY <2>1, <2>2, <3>1, <3>2
    <2>5. ASSUME NEW a \in 1 .. Len(more), NEW b \in 1 .. Len(more), a < b
          PROVE  \E k, l \in 1 .. n : k < l /\ more[a] = near[k] /\ more[b] = near[l]
      <3>1. a \in 1 .. Len(kept)
        BY <1>2, <2>1, <2>5 DEF last
      <3>2. CASE b \in 1 .. Len(kept)
        <4>1. PICK k, l \in 1 .. n - 1 : k < l /\ kept[a] = near[k] /\ kept[b] = near[l]
          BY <2>5, <3>1, <3>2 DEF KeptUpTo
        <4>. QED  BY <1>1, <2>1, <3>1, <3>2, <4>1
      <3>3. CASE b = last
        <4>1. PICK k \in 1 .. n - 1 : kept[a] = near[k]
          BY <3>1 DEF KeptUpTo
        <4>2. k \in 1 .. n /\ n \in 1 .. n /\ k < n
          BY <1>1, <4>1
        <4>. QED  BY <2>1, <3>1, <3>3, <4>1, <4>2
      <3>. QED  BY <2>1, <2>2, <2>5, <3>2, <3>3
    <2>6. KeptUpTo(more, near, wanted, n)
      BY <2>1, <2>3, <2>4, <2>5 DEF KeptUpTo
    <2>. QED  BY <1>3, <2>6 DEF more
  <1>4. CASE near[n] \notin wanted
    <2>1. KeptUpTo(kept, near, wanted, n)
      <3>1. \A k \in 1 .. n : near[k] \in wanted => \E a \in 1 .. Len(kept) : kept[a] = near[k]
        BY <1>1, <1>4 DEF KeptUpTo
      <3>2. \A a \in 1 .. Len(kept) : kept[a] \in wanted /\ \E k \in 1 .. n : kept[a] = near[k]
        BY <1>1 DEF KeptUpTo
      <3>3. ASSUME NEW a \in 1 .. Len(kept), NEW b \in 1 .. Len(kept), a < b
            PROVE  \E k, l \in 1 .. n : k < l /\ kept[a] = near[k] /\ kept[b] = near[l]
        <4>1. PICK k, l \in 1 .. n - 1 : k < l /\ kept[a] = near[k] /\ kept[b] = near[l]
          BY <3>3 DEF KeptUpTo
        <4>. QED  BY <1>1, <4>1
      <3>. QED  BY <1>2, <3>1, <3>2, <3>3 DEF KeptUpTo
    <2>. QED  BY <1>4, <2>1
  <1>. QED  BY <1>3, <1>4

LEMMA JoinsKeep ==
    ASSUME NEW near \in Seq(Rows), NEW wanted, NEW joined, Joins(joined, near, wanted, Len(near))
    PROVE  \A n \in 0 .. Len(near) : KeptUpTo(joined[n], near, wanted, n)
  <1> DEFINE Wrong == {n \in 0 .. Len(near) : ~KeptUpTo(joined[n], near, wanted, n)}
  <1>1. ASSUME Wrong # {} PROVE FALSE
    <2>1. PICK n \in Wrong : \A m \in Wrong : n <= m
      <3>1. Wrong \subseteq Nat
        OBVIOUS
      <3> HIDE DEF Wrong
      <3>. QED  BY <1>1, <3>1, Least
    <2>2. Len(near) \in Nat
      OBVIOUS
    <2>3. CASE n = 0
      <3>1. joined[0] = << >>
        BY <2>2 DEF Joins
      <3>2. KeptUpTo(<< >>, near, wanted, 0)
        BY EmptySeq DEF KeptUpTo
      <3>. QED  BY <2>1, <2>3, <3>1, <3>2
    <2>4. CASE n # 0
      <3>1. n \in 1 .. Len(near) /\ n - 1 \in 0 .. Len(near) /\ n - 1 \notin Wrong
        BY <2>1, <2>2, <2>4
      <3>2. KeptUpTo(joined[n - 1], near, wanted, n - 1)
        BY <3>1
      <3>3. joined[n] = IF near[n] \in wanted THEN Append(joined[n - 1], near[n]) ELSE joined[n - 1]
        BY <2>1, <2>4 DEF Joins
      <3>. QED  BY <2>1, <3>1, <3>2, <3>3, KeepNext
    <2>. QED  BY <2>3, <2>4
  <1>. QED  BY <1>1

(* More of near joined is as much or more, in the same order.              *)
LEMMA JoinsGrow ==
    ASSUME NEW near \in Seq(Rows), NEW wanted, NEW joined, Joins(joined, near, wanted, Len(near)),
           NEW m \in 0 .. Len(near), NEW n \in m .. Len(near)
    PROVE  /\ joined[m] \in Seq(Rows) /\ joined[n] \in Seq(Rows)
           /\ Len(joined[m]) <= Len(joined[n])
           /\ \A a \in 1 .. Len(joined[m]) : joined[n][a] = joined[m][a]
  <1> DEFINE Longer(k) == /\ Len(joined[m]) <= Len(joined[k])
                          /\ \A a \in 1 .. Len(joined[m]) : joined[k][a] = joined[m][a]
             Wrong == {k \in m .. Len(near) : ~Longer(k)}
  <1>1. /\ Len(near) \in Nat /\ m \in Nat /\ n \in 0 .. Len(near)
        /\ \A k \in 0 .. Len(near) : joined[k] \in Seq(Rows) /\ Len(joined[k]) \in Nat
    BY JoinsKeep DEF KeptUpTo
  <1>2. ASSUME Wrong # {} PROVE FALSE
    <2>1. PICK k \in Wrong : \A l \in Wrong : k <= l
      <3>1. Wrong \subseteq Nat
        BY <1>1
      <3> HIDE DEF Wrong
      <3>. QED  BY <1>2, <3>1, Least
    <2>2. k # m
      BY <1>1, <2>1
    <2>3. k \in 1 .. Len(near) /\ k - 1 \in m .. Len(near) /\ k - 1 \in 0 .. Len(near)
          /\ k - 1 \notin Wrong /\ k \in 0 .. Len(near) /\ k # 0
      BY <1>1, <2>1, <2>2
    <2>4. Longer(k - 1)
      BY <2>3
    <2>5. joined[k] = IF near[k] \in wanted THEN Append(joined[k - 1], near[k]) ELSE joined[k - 1]
      <3> HIDE DEF Wrong
      <3>. QED  BY <2>3 DEF Joins
    <2>6. near[k] \in Rows
      BY <2>3
    <2>7. Len(joined[k - 1]) <= Len(joined[k]) /\ Len(joined[k]) \in Nat
          /\ \A a \in 1 .. Len(joined[k - 1]) : joined[k][a] = joined[k - 1][a]
      <3>1. joined[k - 1] \in Seq(Rows) /\ Len(joined[k - 1]) \in Nat
        BY <1>1, <2>3
      <3>2. CASE near[k] \in wanted
        BY <2>5, <2>6, <3>1, <3>2, AppendProperties
      <3>3. CASE near[k] \notin wanted
        BY <2>5, <3>1, <3>3
      <3>. QED  BY <3>2, <3>3
    <2>8. Longer(k)
      BY <1>1, <2>3, <2>4, <2>7
    <2>. QED  BY <2>1, <2>8
  <1>. QED  BY <1>1, <1>2

-----------------------------------------------------------------------------
(* The nearest embeddings                                                  *)

LEMMA MinTwo ==
    ASSUME NEW a \in Int, NEW b \in Int
    PROVE  Min({a, b}) = IF a <= b THEN a ELSE b
  <1> DEFINE m == IF a <= b THEN a ELSE b
  <1>1. m \in {a, b} /\ \A x \in {a, b} : (\A y \in {a, b} : x <= y) <=> x = m
    OBVIOUS
  <1> HIDE DEF m
  <1>2. Min({a, b}) = m
    BY <1>1 DEF Min
  <1>. QED  BY <1>2 DEF m

LEMMA MaxTwo ==
    ASSUME NEW a \in Int, NEW b \in Int
    PROVE  Max({a, b}) = IF a >= b THEN a ELSE b
  <1> DEFINE m == IF a >= b THEN a ELSE b
  <1>1. m \in {a, b} /\ \A x \in {a, b} : (\A y \in {a, b} : x >= y) <=> x = m
    OBVIOUS
  <1> HIDE DEF m
  <1>2. Max({a, b}) = m
    BY <1>1 DEF Max
  <1>. QED  BY <1>2 DEF m

LEMMA Multiples ==
    ASSUME NEW a \in Nat, NEW b \in Nat, a <= b, NEW f \in Nat \ {0}
    PROVE  a <= a * f /\ a * f <= b * f /\ a * f \in Nat
  OBVIOUS

Stored(s) == {row \in Rows : VectorsOf(s)[row] # NoVector}

(* What a search that is acceptable works on.                              *)
LEMMA SearchTypes ==
    ASSUME Inv, NEW s \in Searches, ~Unacceptable(s)
    PROVE  /\ DocsOf(s) \in DocTables
           /\ VectorsOf(s) \in [Rows -> Embeddings \union {NoVector}]
           /\ \A row \in Stored(s) : DistanceTo(s, row) \in Int
           /\ \A row \in Wanted(s) : row \in Stored(s) /\ ScoreOf(s, row) \in Int
  <1> DEFINE t == TableOf[s.collection]
  <1>1. /\ s.collection \in Names /\ t \in Tables /\ s.query \in Queries /\ s.query \in Texts
        /\ collections[s.collection] # NoCollection
        /\ runtime.model \in Models
    BY VectorAssumption, SearchAssumption DEF Inv, TypeOK, Searches, Unacceptable, Known
  <1>2. docs[t] \in DocTables /\ docs[t] # NoTable
    BY <1>1 DEF Inv, TypeOK, Backed, DocStates
  <1>3. vecs[t] \in VecTables
    BY <1>1, <1>2 DEF Inv, TypeOK, Matching, VecStates
  <1>4. DocsOf(s) \in DocTables /\ VectorsOf(s) \in [Rows -> Embeddings \union {NoVector}]
    BY <1>2, <1>3 DEF DocsOf, VectorsOf, VecTables
  <1>5. ASSUME NEW row \in Stored(s) PROVE DistanceTo(s, row) \in Int
    <2>1. VectorsOf(s)[row] \in Embeddings
      BY <1>4, <1>5 DEF Stored
    <2>2. [model |-> runtime.model, text |-> s.query] \in Embeddings
      BY <1>1 DEF Embeddings
    <2>. QED  BY <2>1, <2>2, SearchAssumption DEF DistanceTo
  <1>6. ASSUME NEW row \in Wanted(s) PROVE row \in Stored(s) /\ ScoreOf(s, row) \in Int
    <2>1. row \in Rows /\ docs[t][row] # NoDoc /\ DocsOf(s)[row] = docs[t][row]
      BY <1>6 DEF Wanted, IsCandidate, DocsOf
    <2>2. docs[t][row] \in Items
      BY <1>2, <2>1 DEF DocTables
    <2>3. vecs[t].rows[row] # NoVector
      BY <1>1, <1>2, <2>1 DEF Inv, Matching
    <2>. QED  BY <1>1, <2>1, <2>2, <2>3, SearchAssumption DEF Stored, VectorsOf, ScoreOf, Items
  <1>. QED  BY <1>4, <1>5, <1>6

LEMMA SearchLimits ==
    ASSUME NEW s \in Searches, ~Unacceptable(s)
    PROVE  /\ s.top_k \in Nat /\ TargetK(s) \in Nat /\ s.top_k <= TargetK(s)
           /\ CandidateLimit(s) \in Nat /\ TargetK(s) <= CandidateLimit(s)
           /\ s.filter # NoTag => FilterFloor <= CandidateLimit(s)
  <1>1. /\ s.top_k \in Nat /\ s.fetch_k \in Nat /\ s.rerank \in BOOLEAN
        /\ s.rerank => s.top_k <= s.fetch_k
    BY SearchAssumption DEF Searches, Unacceptable
  <1>2. TargetK(s) \in Nat /\ s.top_k <= TargetK(s)
    BY <1>1 DEF TargetK
  <1>3. /\ TargetK(s) * FilterFactor \in Nat /\ TargetK(s) <= TargetK(s) * FilterFactor
        /\ FilterFloor \in Nat
    BY <1>2, Multiples, SearchAssumption
  <1>4. Max({TargetK(s) * FilterFactor, FilterFloor}) =
          IF TargetK(s) * FilterFactor >= FilterFloor THEN TargetK(s) * FilterFactor ELSE FilterFloor
    BY <1>3, MaxTwo
  <1>. QED  BY <1>1, <1>2, <1>3, <1>4 DEF CandidateLimit

LEMMA RowsFinite ==
    ASSUME NEW S, S \subseteq Rows
    PROVE  IsFiniteSet(S) /\ Cardinality(S) \in Nat
  <1>1. IsFiniteSet(Rows)
    BY VectorAssumption, FS_Interval DEF Rows
  <1>2. IsFiniteSet(S)
    BY <1>1, FS_Subset
  <1>. QED  BY <1>2, FS_CardinalityType

(* What sqlite-vec answers when it is asked for k embeddings.              *)
LEMMA NearestProperties ==
    ASSUME NEW s, NEW k \in Nat, NEW near \in Nearest(s, k)
    PROVE  /\ near \in Seq(Rows) /\ Len(near) \in Nat
           /\ Len(near) = IF k <= Cardinality(Stored(s)) THEN k ELSE Cardinality(Stored(s))
           /\ near \in [1 .. Len(near) -> Stored(s)]
           /\ \A i, j \in 1 .. Len(near) : near[i] = near[j] => i = j
           /\ \A i, j \in 1 .. Len(near) : i < j => DistanceTo(s, near[i]) <= DistanceTo(s, near[j])
           /\ \A row \in Stored(s) \ Range(near), i \in 1 .. Len(near) :
                DistanceTo(s, near[i]) <= DistanceTo(s, row)
  <1> DEFINE n == Min({k, Cardinality(Stored(s))})
  <1>1. Stored(s) \subseteq Rows /\ Cardinality(Stored(s)) \in Nat
    BY RowsFinite DEF Stored
  <1>2. n = (IF k <= Cardinality(Stored(s)) THEN k ELSE Cardinality(Stored(s))) /\ n \in Nat
    BY <1>1, MinTwo
  <1>3. /\ near \in [1 .. n -> Stored(s)] /\ IsInjective(near)
        /\ \A i, j \in DOMAIN near : i < j => DistanceTo(s, near[i]) <= DistanceTo(s, near[j])
        /\ \A row \in Stored(s) \ Range(near), i \in DOMAIN near :
             DistanceTo(s, near[i]) <= DistanceTo(s, row)
    BY DEF Nearest, Stored
  <1> HIDE DEF n
  <1>4. near \in Seq(Rows) /\ Len(near) = n /\ DOMAIN near = 1 .. n
    BY <1>1, <1>2, <1>3
  <1>5. \A i, j \in 1 .. n : near[i] = near[j] => i = j
    BY <1>3, <1>4 DEF IsInjective
  <1>. QED  BY <1>2, <1>3, <1>4, <1>5

LEMMA Injected ==
    ASSUME NEW S, IsFiniteSet(S), NEW n \in Nat, NEW f \in [1 .. n -> S],
           \A i, j \in 1 .. n : f[i] = f[j] => i = j
    PROVE  /\ n <= Cardinality(S)
           /\ n = Cardinality(S) => \A x \in S : \E i \in 1 .. n : f[i] = x
  <1>1. f \in Injection(1 .. n, S)
    BY DEF Injection, IsInjective
  <1>2. Cardinality(1 .. n) = n
    BY FS_Interval
  <1>3. n <= Cardinality(S) /\ (n = Cardinality(S) => f \in Surjection(1 .. n, S))
    BY <1>1, <1>2, FS_Injection
  <1>. QED  BY <1>3 DEF Surjection

IsPermutation(order, n) ==
    /\ order \in [1 .. n -> 1 .. n]
    /\ \A i, j \in 1 .. n : order[i] = order[j] => i = j

LEMMA Permuted ==
    ASSUME NEW n \in Nat, NEW order, IsPermutation(order, n)
    PROVE  \A x \in 1 .. n : \E i \in 1 .. n : order[i] = x
  <1> DEFINE S == 1 .. n
  <1>1. IsFiniteSet(S) /\ Cardinality(S) = n
    BY FS_Interval
  <1>2. order \in [1 .. n -> S] /\ \A i, j \in 1 .. n : order[i] = order[j] => i = j
    BY DEF IsPermutation
  <1> HIDE DEF S
  <1>3. \A x \in S : \E i \in 1 .. n : order[i] = x
    BY <1>1, <1>2, Injected
  <1>. QED  BY <1>3 DEF S

(* An embedding that sqlite-vec has not returned: more than k are near.    *)
LEMMA MissedIsFar ==
    ASSUME Inv, NEW s \in Searches, ~Unacceptable(s), NEW k \in Nat, NEW near \in Nearest(s, k),
           NEW row \in Stored(s), \A i \in 1 .. Len(near) : near[i] # row
    PROVE  Cardinality(AtLeastAsNear(s, row)) > k
  <1> DEFINE closer == AtLeastAsNear(s, row)
             n == Len(near)
  <1>1. /\ near \in Seq(Rows) /\ n \in Nat
        /\ n = IF k <= Cardinality(Stored(s)) THEN k ELSE Cardinality(Stored(s))
        /\ near \in [1 .. n -> Stored(s)]
        /\ \A i, j \in 1 .. n : near[i] = near[j] => i = j
        /\ \A far \in Stored(s) \ Range(near), i \in 1 .. n :
             DistanceTo(s, near[i]) <= DistanceTo(s, far)
    BY NearestProperties
  <1>2. IsFiniteSet(Stored(s)) /\ Cardinality(Stored(s)) \in Nat
        /\ IsFiniteSet(closer) /\ Cardinality(closer) \in Nat
    BY RowsFinite DEF Stored, AtLeastAsNear
  <1>3. n = k
    <2>1. n # Cardinality(Stored(s))
      BY <1>1, <1>2, Injected
    <2>. QED  BY <1>1, <2>1
  <1>4. row \notin Range(near)
    BY <1>1 DEF Range
  <1>5. row \in closer /\ \A i \in 1 .. n : near[i] \in closer \ {row}
    <2>1. DistanceTo(s, row) \in Int /\ row \in Rows
      BY SearchTypes DEF Stored
    <2>. QED  BY <1>1, <1>4, <2>1 DEF AtLeastAsNear, Stored
  <1> HIDE DEF closer
  <1>6. IsFiniteSet(closer \ {row}) /\ Cardinality(closer \ {row}) = Cardinality(closer) - 1
    BY <1>2, <1>5, FS_RemoveElement
  <1>7. near \in [1 .. n -> closer \ {row}]
    BY <1>1, <1>5
  <1>8. n <= Cardinality(closer \ {row})
    BY <1>1, <1>6, <1>7, Injected
  <1>. QED  BY <1>1, <1>2, <1>3, <1>6, <1>8 DEF closer

(* The candidates of a search: each document once and in the order of      *)
(* distances; missing are only far ones, and none comes too late.          *)
LEMMA CandidatesProperties ==
    ASSUME Inv, NEW s \in Searches, ~Unacceptable(s), NEW c \in Candidates(s)
    PROVE  /\ c \in Seq(Rows)
           /\ \A a \in 1 .. Len(c) : c[a] \in Wanted(s)
           /\ \A a, b \in 1 .. Len(c) : c[a] = c[b] => a = b
           /\ \A a, b \in 1 .. Len(c) : a < b => DistanceTo(s, c[a]) <= DistanceTo(s, c[b])
           /\ \A row \in Wanted(s) : (\A a \in 1 .. Len(c) : c[a] # row) =>
                Cardinality(AtLeastAsNear(s, row)) > CandidateLimit(s)
           /\ \A a \in 1 .. Len(c) : a <= Cardinality(AtLeastAsNear(s, c[a]))
  <1>1. PICK near \in Nearest(s, CandidateLimit(s)) : c = Joined(near, Wanted(s))
    BY DEF Candidates
  <1> DEFINE n == Len(near)
  <1>2. /\ CandidateLimit(s) \in Nat /\ near \in Seq(Rows) /\ n \in Nat
        /\ near \in [1 .. n -> Stored(s)]
        /\ \A i, j \in 1 .. n : near[i] = near[j] => i = j
        /\ \A i, j \in 1 .. n : i < j => DistanceTo(s, near[i]) <= DistanceTo(s, near[j])
    BY SearchLimits, NearestProperties
  <1>3. PICK joined : Joins(joined, near, Wanted(s), n)
    BY <1>2, JoinsExist
  <1>4. c = joined[n]
    BY <1>1, <1>2, <1>3, JoinedIs
  <1>5. KeptUpTo(c, near, Wanted(s), n)
    <2>1. n \in 0 .. n
      BY <1>2
    <2>. QED  BY <1>2, <1>3, <1>4, <2>1, JoinsKeep
  <1> HIDE DEF n
  <1>6. c \in Seq(Rows) /\ Len(c) \in Nat /\ \A a \in 1 .. Len(c) : c[a] \in Wanted(s)
    BY <1>5 DEF KeptUpTo
  <1>7. ASSUME NEW a \in 1 .. Len(c), NEW b \in 1 .. Len(c), a < b
        PROVE  c[a] # c[b] /\ DistanceTo(s, c[a]) <= DistanceTo(s, c[b])
    <2>1. PICK k, l \in 1 .. n : k < l /\ c[a] = near[k] /\ c[b] = near[l]
      BY <1>5, <1>7 DEF KeptUpTo
    <2>2. k # l
      BY <1>2, <2>1
    <2>. QED  BY <1>2, <2>1, <2>2
  <1>8. ASSUME NEW a \in 1 .. Len(c), NEW b \in 1 .. Len(c), c[a] = c[b]
        PROVE  a = b
    <2>1. a < b \/ b < a \/ a = b
      BY <1>6
    <2>. QED  BY <1>7, <1>8, <2>1
  <1>9. ASSUME NEW row \in Wanted(s), \A a \in 1 .. Len(c) : c[a] # row
        PROVE  Cardinality(AtLeastAsNear(s, row)) > CandidateLimit(s)
    <2>1. row \in Stored(s)
      BY SearchTypes
    <2>2. \A i \in 1 .. n : near[i] # row
      BY <1>5, <1>9 DEF KeptUpTo
    <2>. QED  BY <1>2, <2>1, <2>2, MissedIsFar DEF n
  <1>10. ASSUME NEW a \in 1 .. Len(c)
         PROVE  a <= Cardinality(AtLeastAsNear(s, c[a]))
    <2> DEFINE closer == AtLeastAsNear(s, c[a])
               f == [i \in 1 .. a |-> c[i]]
    <2>1. IsFiniteSet(closer)
      BY RowsFinite DEF AtLeastAsNear
    <2>2. a \in Nat /\ \A i \in 1 .. a : i \in 1 .. Len(c) /\ (i < a \/ i = a)
      BY <1>6
    <2>3. ASSUME NEW i \in 1 .. a PROVE c[i] \in closer
      <3>1. c[i] \in Stored(s) /\ c[a] \in Stored(s)
        BY <1>6, <2>2, SearchTypes
      <3>2. DistanceTo(s, c[i]) <= DistanceTo(s, c[a])
        <4>1. DistanceTo(s, c[a]) \in Int
          BY <3>1, SearchTypes
        <4>. QED  BY <1>7, <2>2, <4>1
      <3>. QED  BY <3>1, <3>2 DEF AtLeastAsNear, Stored
    <2>4. f \in [1 .. a -> closer] /\ \A i, j \in 1 .. a : f[i] = f[j] => i = j
      BY <1>8, <2>2, <2>3
    <2> HIDE DEF f
    <2>. QED  BY <2>1, <2>2, <2>4, Injected
  <1>. QED  BY <1>6, <1>7, <1>8, <1>9, <1>10

-----------------------------------------------------------------------------
(* The sort by scores                                                      *)

FallsUpTo(score, order, n) ==
    \A i, j \in 1 .. n : i < j =>
        \/ score[order[i]] > score[order[j]]
        \/ score[order[i]] = score[order[j]] /\ order[i] < order[j]

(* One score more is inserted before the first that is lower.              *)
LEMMA SortInsert ==
    ASSUME NEW n \in Nat \ {0}, NEW score, \A i \in 1 .. n : score[i] \in Int,
           NEW order \in [1 .. n - 1 -> 1 .. n - 1], FallsUpTo(score, order, n - 1)
    PROVE  \E more \in [1 .. n -> 1 .. n] : FallsUpTo(score, more, n)
  <1> DEFINE Lower == {i \in 1 .. n : i = n \/ score[order[i]] < score[n]}
  <1>1. PICK p \in Lower : \A i \in Lower : p <= i
    <2>1. n \in 1 .. n
      OBVIOUS
    <2>2. n \in Lower
      BY <2>1
    <2>3. Lower \subseteq Nat
      OBVIOUS
    <2> HIDE DEF Lower
    <2>. QED  BY <2>2, <2>3, Least
  <1> DEFINE more == [i \in 1 .. n |-> IF i < p THEN order[i] ELSE IF i = p THEN n ELSE order[i - 1]]
  <1>2. p \in 1 .. n /\ \A i \in 1 .. n - 1 : order[i] \in 1 .. n - 1 /\ order[i] < n
    BY <1>1
  <1>3. \A i \in 1 .. n - 1 : i < p => score[order[i]] >= score[n]
    <2>. SUFFICES ASSUME NEW i \in 1 .. n - 1, i < p PROVE score[order[i]] >= score[n]
      OBVIOUS
    <2>1. i \notin Lower
      BY <1>1, <1>2
    <2>2. order[i] \in 1 .. n /\ i \in 1 .. n /\ score[order[i]] \in Int /\ score[n] \in Int
      BY <1>2
    <2>. QED  BY <2>1, <2>2
  <1>4. \A i \in 1 .. n - 1 : i >= p => score[order[i]] < score[n]
    <2>. SUFFICES ASSUME NEW i \in 1 .. n - 1, i >= p PROVE score[order[i]] < score[n]
      OBVIOUS
    <2>1. p \in 1 .. n - 1 /\ score[order[p]] < score[n]
      BY <1>1, <1>2
    <2> HIDE DEF Lower
    <2>2. order[i] \in 1 .. n /\ order[p] \in 1 .. n /\ n \in 1 .. n
      BY <1>2, <2>1
    <2>3. score[order[i]] \in Int /\ score[order[p]] \in Int /\ score[n] \in Int
      BY <2>2
    <2>4. i \in Int /\ p \in Int
      BY <2>1
    <2>5. CASE i = p
      BY <2>1, <2>5
    <2>6. CASE p < i
      <3>1. \/ score[order[p]] > score[order[i]]
            \/ score[order[p]] = score[order[i]] /\ order[p] < order[i]
        BY <2>1, <2>6 DEF FallsUpTo
      <3> DEFINE a == score[order[i]]
                 b == score[order[p]]
                 c == score[n]
      <3>2. a \in Int /\ b \in Int /\ c \in Int /\ b < c /\ (b > a \/ b = a)
        BY <2>1, <2>3, <3>1
      <3>3. a < c
        <4> HIDE DEF a, b, c
        <4>. QED  BY <3>2
      <3>. QED  BY <3>3
    <2>. QED  BY <2>4, <2>5, <2>6
  <1> HIDE DEF Lower
  <1>5. more \in [1 .. n -> 1 .. n]
    BY <1>2
  <1>6. ASSUME NEW i \in 1 .. n, NEW j \in 1 .. n, i < j
        PROVE  \/ score[more[i]] > score[more[j]]
               \/ score[more[i]] = score[more[j]] /\ more[i] < more[j]
    <2>0. score[n] \in Int /\ \A k \in 1 .. n - 1 : score[order[k]] \in Int
      BY <1>2
    <2>1. CASE j < p
      <3>1. more[i] = order[i] /\ more[j] = order[j] /\ i \in 1 .. n - 1 /\ j \in 1 .. n - 1
        BY <1>2, <1>6, <2>1
      <3>2. \/ score[order[i]] > score[order[j]]
            \/ score[order[i]] = score[order[j]] /\ order[i] < order[j]
        BY <1>6, <3>1 DEF FallsUpTo
      <3> HIDE DEF more
      <3>. QED  BY <3>1, <3>2
    <2>2. CASE i < p /\ j = p
      <3>1. more[i] = order[i] /\ more[j] = n /\ i \in 1 .. n - 1
        BY <1>2, <1>6, <2>2
      <3>. QED  BY <1>2, <1>3, <2>0, <2>2, <3>1
    <2>3. CASE i < p /\ j > p
      <3>1. more[i] = order[i] /\ more[j] = order[j - 1] /\ i \in 1 .. n - 1 /\ j - 1 \in 1 .. n - 1
            /\ i < j - 1
        BY <1>2, <1>6, <2>3
      <3>2. \/ score[order[i]] > score[order[j - 1]]
            \/ score[order[i]] = score[order[j - 1]] /\ order[i] < order[j - 1]
        BY <3>1 DEF FallsUpTo
      <3> HIDE DEF more
      <3>. QED  BY <3>1, <3>2
    <2>4. CASE i = p
      <3>1. more[i] = n /\ more[j] = order[j - 1] /\ j - 1 \in 1 .. n - 1 /\ j - 1 >= p
        BY <1>2, <1>6, <2>4
      <3>. QED  BY <1>4, <2>0, <3>1
    <2>5. CASE i > p
      <3>1. more[i] = order[i - 1] /\ more[j] = order[j - 1]
            /\ i - 1 \in 1 .. n - 1 /\ j - 1 \in 1 .. n - 1 /\ i - 1 < j - 1
        BY <1>2, <1>6, <2>5
      <3>2. \/ score[order[i - 1]] > score[order[j - 1]]
            \/ score[order[i - 1]] = score[order[j - 1]] /\ order[i - 1] < order[j - 1]
        BY <3>1 DEF FallsUpTo
      <3> HIDE DEF more
      <3>. QED  BY <3>1, <3>2
    <2>. QED  BY <1>2, <1>6, <2>1, <2>2, <2>3, <2>4, <2>5
  <1> HIDE DEF more
  <1>. QED  BY <1>5, <1>6 DEF FallsUpTo

LEMMA SortExists ==
    ASSUME NEW n \in Nat, NEW score, \A i \in 1 .. n : score[i] \in Int
    PROVE  \E order \in [1 .. n -> 1 .. n] : FallsUpTo(score, order, n)
  <1> DEFINE Wrong == {m \in 0 .. n : ~ \E order \in [1 .. m -> 1 .. m] : FallsUpTo(score, order, m)}
  <1>1. ASSUME Wrong # {} PROVE FALSE
    <2>1. PICK m \in Wrong : \A l \in Wrong : m <= l
      <3>1. Wrong \subseteq Nat
        OBVIOUS
      <3> HIDE DEF Wrong
      <3>. QED  BY <1>1, <3>1, Least
    <2>2. CASE m = 0
      <3>1. [i \in 1 .. 0 |-> 0] \in [1 .. 0 -> 1 .. 0]
            /\ FallsUpTo(score, [i \in 1 .. 0 |-> 0], 0)
        BY DEF FallsUpTo
      <3>. QED  BY <2>1, <2>2, <3>1
    <2>3. CASE m # 0
      <3>0. m \in 0 .. n
        BY <2>1
      <3>1. m \in Nat \ {0} /\ m - 1 \in 0 .. n /\ m - 1 < m
        BY <2>3, <3>0
      <3>4. m - 1 \notin Wrong
        <4> HIDE DEF Wrong
        <4>1. ~ (m <= m - 1)
          BY <3>1
        <4>. QED  BY <2>1, <4>1
      <3>2. \A i \in 1 .. m : score[i] \in Int
        BY <3>0
      <3>3. PICK order \in [1 .. m - 1 -> 1 .. m - 1] : FallsUpTo(score, order, m - 1)
        BY <3>1, <3>4
      <3>. QED  BY <2>1, <3>1, <3>2, <3>3, SortInsert
    <2>. QED  BY <2>2, <2>3
  <1>. QED  BY <1>1

LEMMA ByScoreProperties ==
    ASSUME NEW s, NEW rows \in Seq(Rows), \A i \in 1 .. Len(rows) : ScoreOf(s, rows[i]) \in Int
    PROVE  /\ ByScore(s, rows) \in Seq(Rows) /\ Len(ByScore(s, rows)) = Len(rows)
           /\ \E order \in [1 .. Len(rows) -> 1 .. Len(rows)] :
                /\ \A i, j \in 1 .. Len(rows) : order[i] = order[j] => i = j
                /\ \A i \in 1 .. Len(rows) : ByScore(s, rows)[i] = rows[order[i]]
           /\ \A i, j \in 1 .. Len(rows) : i < j =>
                ScoreOf(s, ByScore(s, rows)[i]) >= ScoreOf(s, ByScore(s, rows)[j])
  <1> DEFINE n == Len(rows)
             score == [i \in 1 .. n |-> ScoreOf(s, rows[i])]
             order == Falling(score)
  <1>1. n \in Nat /\ DOMAIN rows = 1 .. n
    OBVIOUS
  <1>2. DOMAIN score = 1 .. n /\ \A i \in 1 .. n : score[i] \in Int /\ score[i] = ScoreOf(s, rows[i])
    OBVIOUS
  <1>3. ByScore(s, rows) = [i \in 1 .. n |-> rows[order[i]]]
    BY <1>1 DEF ByScore
  <1> HIDE DEF score, n
  <1>4. order \in [1 .. n -> 1 .. n] /\ FallsUpTo(score, order, n)
    <2>1. \E o \in [DOMAIN score -> DOMAIN score] :
            \A i, j \in DOMAIN score : i < j =>
              \/ score[o[i]] > score[o[j]]
              \/ score[o[i]] = score[o[j]] /\ o[i] < o[j]
      BY <1>1, <1>2, SortExists DEF FallsUpTo
    <2>2. /\ order \in [DOMAIN score -> DOMAIN score]
          /\ \A i, j \in DOMAIN score : i < j =>
              \/ score[order[i]] > score[order[j]]
              \/ score[order[i]] = score[order[j]] /\ order[i] < order[j]
      BY <2>1, Zenon DEF Falling
    <2>. QED  BY <1>2, <2>2 DEF FallsUpTo
  <1> HIDE DEF order
  <1>5. \A i \in 1 .. n : order[i] \in 1 .. n /\ score[order[i]] \in Int /\ rows[order[i]] \in Rows
    BY <1>1, <1>2, <1>4 DEF n
  <1>6. ByScore(s, rows) \in Seq(Rows) /\ Len(ByScore(s, rows)) = n
        /\ \A i \in 1 .. n : ByScore(s, rows)[i] = rows[order[i]]
    BY <1>1, <1>3, <1>5
  <1>7. ASSUME NEW i \in 1 .. n, NEW j \in 1 .. n, order[i] = order[j]
        PROVE  i = j
    <2>1. ~(i < j) /\ ~(j < i)
      BY <1>4, <1>5, <1>7 DEF FallsUpTo
    <2>. QED  BY <1>1, <2>1
  <1>8. ASSUME NEW i \in 1 .. n, NEW j \in 1 .. n, i < j
        PROVE  ScoreOf(s, ByScore(s, rows)[i]) >= ScoreOf(s, ByScore(s, rows)[j])
    <2>1. score[order[i]] >= score[order[j]]
      <3>1. \/ score[order[i]] > score[order[j]]
            \/ score[order[i]] = score[order[j]] /\ order[i] < order[j]
        BY <1>4, <1>8 DEF FallsUpTo
      <3>. QED  BY <1>5, <3>1
    <2>. QED  BY <1>2, <1>5, <1>6, <2>1
  <1>. QED  BY <1>4, <1>6, <1>7, <1>8 DEF n

-----------------------------------------------------------------------------
(* What an answer is made from                                             *)

LEMMA FirstProperties ==
    ASSUME NEW k \in Nat, NEW seq \in Seq(Rows)
    PROVE  /\ FirstOf(k, seq) \in Seq(Rows)
           /\ Len(FirstOf(k, seq)) \in Nat
           /\ Len(FirstOf(k, seq)) = IF k <= Len(seq) THEN k ELSE Len(seq)
           /\ \A i \in 1 .. Len(FirstOf(k, seq)) : i \in 1 .. Len(seq) /\ FirstOf(k, seq)[i] = seq[i]
  <1> DEFINE n == Min({k, Len(seq)})
  <1>1. Len(seq) \in Nat /\ \A i \in 1 .. Len(seq) : seq[i] \in Rows
    OBVIOUS
  <1>2. n = (IF k <= Len(seq) THEN k ELSE Len(seq)) /\ n \in Nat
    BY <1>1, MinTwo
  <1>3. FirstOf(k, seq) = SubSeq(seq, 1, n)
    BY DEF FirstOf
  <1> HIDE DEF n
  <1>4. \A i \in 1 .. n : i \in 1 .. Len(seq) /\ 1 + i - 1 = i
    BY <1>1, <1>2
  <1>5. /\ SubSeq(seq, 1, n) \in Seq(Rows)
        /\ Len(SubSeq(seq, 1, n)) = IF 1 <= n THEN n - 1 + 1 ELSE 0
        /\ \A i \in 1 .. n - 1 + 1 : SubSeq(seq, 1, n)[i] = seq[1 + i - 1]
    BY <1>1, <1>2, <1>4, SubSeqProperties
  <1>6. Len(SubSeq(seq, 1, n)) = n
    BY <1>2, <1>5
  <1>7. \A i \in 1 .. n : SubSeq(seq, 1, n)[i] = seq[i]
    BY <1>2, <1>4, <1>5
  <1>. QED  BY <1>2, <1>3, <1>4, <1>5, <1>6, <1>7

(* The fetched in the order they are selected in.                          *)
Ranked(s, fetched) == IF Reranks(s, fetched) THEN ByScore(s, fetched) ELSE fetched

IsAnswer(s, candidates, fit, a) ==
    LET fetched == Fetched(s, candidates)
        selected == Selected(s, fetched)
    IN a = [ search |-> s, status |-> "ok", matches |-> FirstOf(fit, selected),
             truncated |-> Len(candidates) > s.top_k \/ fit < Len(selected),
             reranked |-> Reranks(s, fetched) ]

Smaller(a, b) == IF a <= b THEN a ELSE b

(* The matches are the first of the ranked, which are the fetched in       *)
(* another order, which are the first of the candidates.                   *)
MadeBy(s, c, fit, a, order, ranked, n, top) ==
    /\ c \in Candidates(s) /\ fit \in Nat /\ n \in Nat /\ top \in Nat
    /\ a.search = s /\ a.matches \in Seq(Rows)
    /\ n = Smaller(TargetK(s), Len(c)) /\ top = Smaller(s.top_k, n)
    /\ Len(a.matches) = Smaller(fit, top)
    /\ (a.truncated = TRUE) <=> (Len(c) > s.top_k \/ fit < top)
    /\ ranked \in Seq(Rows) /\ Len(ranked) = n
    /\ \A i \in 1 .. Len(a.matches) : i \in 1 .. n /\ a.matches[i] = ranked[i]
    /\ IsPermutation(order, n)
    /\ \A i \in 1 .. n : order[i] \in 1 .. Len(c) /\ ranked[i] = c[order[i]]
    /\ a.reranked = TRUE => \A i, j \in 1 .. n : i < j =>
         ScoreOf(s, ranked[i]) >= ScoreOf(s, ranked[j])
    /\ a.reranked # TRUE => order = [i \in 1 .. n |-> i]

LEMMA AnswerProperties ==
    ASSUME Inv, NEW s \in Searches, ~Unacceptable(s), NEW c \in Candidates(s), NEW fit \in Nat,
           NEW a, IsAnswer(s, c, fit, a)
    PROVE  \E order, ranked, n, top : MadeBy(s, c, fit, a, order, ranked, n, top)
  <1> DEFINE fetched == Fetched(s, c)
             ranked == Ranked(s, fetched)
             n == Len(fetched)
             selected == FirstOf(s.top_k, ranked)
             matches == FirstOf(fit, selected)
  <1>1. /\ c \in Seq(Rows) /\ Len(c) \in Nat /\ s.top_k \in Nat /\ TargetK(s) \in Nat
        /\ \A i \in 1 .. Len(c) : c[i] \in Wanted(s)
    BY CandidatesProperties, SearchLimits
  <1>2. /\ fetched \in Seq(Rows) /\ n \in Nat /\ n = Smaller(TargetK(s), Len(c))
        /\ \A i \in 1 .. n : i \in 1 .. Len(c) /\ fetched[i] = c[i]
    BY <1>1, FirstProperties DEF Fetched, Smaller
  <1>3. \A i \in 1 .. n : ScoreOf(s, fetched[i]) \in Int
    BY <1>1, <1>2, SearchTypes
  <1> HIDE DEF fetched
  <1>4. /\ ranked \in Seq(Rows) /\ Len(ranked) = n
        /\ \E order \in [1 .. n -> 1 .. n] :
             /\ \A i, j \in 1 .. n : order[i] = order[j] => i = j
             /\ \A i \in 1 .. n : ranked[i] = fetched[order[i]]
             /\ Reranks(s, fetched) \/ order = [i \in 1 .. n |-> i]
        /\ Reranks(s, fetched) => \A i, j \in 1 .. n : i < j =>
             ScoreOf(s, ranked[i]) >= ScoreOf(s, ranked[j])
    <2>1. CASE Reranks(s, fetched)
      <3>1. ranked = ByScore(s, fetched)
        BY <2>1 DEF Ranked
      <3> HIDE DEF ranked
      <3>2. n = Len(fetched)
        OBVIOUS
      <3> HIDE DEF n
      <3>3. fetched \in Seq(Rows) /\ \A i \in 1 .. Len(fetched) : ScoreOf(s, fetched[i]) \in Int
        BY <1>2, <1>3, <3>2
      <3>4. /\ ByScore(s, fetched) \in Seq(Rows) /\ Len(ByScore(s, fetched)) = Len(fetched)
            /\ \E order \in [1 .. Len(fetched) -> 1 .. Len(fetched)] :
                 /\ \A i, j \in 1 .. Len(fetched) : order[i] = order[j] => i = j
                 /\ \A i \in 1 .. Len(fetched) : ByScore(s, fetched)[i] = fetched[order[i]]
            /\ \A i, j \in 1 .. Len(fetched) : i < j =>
                 ScoreOf(s, ByScore(s, fetched)[i]) >= ScoreOf(s, ByScore(s, fetched)[j])
        BY ONLY <3>3, ByScoreProperties
      <3>. QED  BY <2>1, <3>1, <3>2, <3>4
    <2>2. CASE ~Reranks(s, fetched)
      <3>1. ranked = fetched
        BY <2>2 DEF Ranked
      <3> HIDE DEF ranked
      <3> DEFINE same == [i \in 1 .. n |-> i]
      <3>2. /\ same \in [1 .. n -> 1 .. n]
            /\ \A i \in 1 .. n : same[i] = i
        OBVIOUS
      <3> HIDE DEF same
      <3>3. /\ \A i, j \in 1 .. n : same[i] = same[j] => i = j
            /\ \A i \in 1 .. n : ranked[i] = fetched[same[i]]
        BY <3>1, <3>2
      <3>. QED  BY <1>2, <2>2, <3>1, <3>2, <3>3 DEF same
    <2>. QED  BY <2>1, <2>2
  <1>5. PICK order \in [1 .. n -> 1 .. n] :
             /\ \A i, j \in 1 .. n : order[i] = order[j] => i = j
             /\ \A i \in 1 .. n : ranked[i] = fetched[order[i]]
             /\ Reranks(s, fetched) \/ order = [i \in 1 .. n |-> i]
    BY <1>4
  <1>6. a = [ search |-> s, status |-> "ok", matches |-> matches,
              truncated |-> Len(c) > s.top_k \/ fit < Len(selected),
              reranked |-> Reranks(s, fetched) ]
    BY DEF IsAnswer, Selected, Ranked, fetched
  <1> HIDE DEF ranked
  <1>7. /\ selected \in Seq(Rows) /\ Len(selected) \in Nat /\ Len(selected) = Smaller(s.top_k, n)
        /\ \A i \in 1 .. Len(selected) : i \in 1 .. n /\ selected[i] = ranked[i]
    BY <1>1, <1>4, FirstProperties DEF Smaller
  <1> HIDE DEF selected
  <1>8. /\ matches \in Seq(Rows) /\ Len(matches) = Smaller(fit, Len(selected))
        /\ \A i \in 1 .. Len(matches) : i \in 1 .. Len(selected) /\ matches[i] = selected[i]
    BY <1>7, FirstProperties DEF Smaller
  <1> HIDE DEF matches
  <1>9. \A i \in 1 .. Len(matches) : i \in 1 .. n /\ matches[i] = ranked[i]
    BY <1>7, <1>8
  <1>10. \A i \in 1 .. n : order[i] \in 1 .. n /\ order[i] \in 1 .. Len(c) /\ ranked[i] = c[order[i]]
    BY <1>2, <1>5
  <1>11. /\ a.search = s /\ a.matches = matches
         /\ a.truncated = (Len(c) > s.top_k \/ fit < Len(selected))
         /\ a.reranked = Reranks(s, fetched)
    BY <1>6
  <1>12. (a.truncated = TRUE) <=> (Len(c) > s.top_k \/ fit < Len(selected))
    BY <1>11
  <1>13. a.reranked = TRUE => Reranks(s, fetched)
    BY <1>11
  <1>14. a.reranked # TRUE => order = [i \in 1 .. n |-> i]
    BY <1>5, <1>11
  <1> DEFINE top == Smaller(s.top_k, n)
  <1>15. top \in Nat /\ top = Len(selected)
    BY <1>7
  <1> HIDE DEF n, top
  <1>16. n = Smaller(TargetK(s), Len(c)) /\ top = Smaller(s.top_k, n)
    BY <1>2 DEF n, top
  <1>17. MadeBy(s, c, fit, a, order, ranked, n, top)
    <2>1. IsPermutation(order, n) /\ n \in Nat
      BY <1>2, <1>5 DEF IsPermutation, n
    <2>. QED  BY <1>4, <1>7, <1>8, <1>9, <1>10, <1>11, <1>12, <1>13, <1>14, <1>15, <1>16, <2>1
              DEF MadeBy
  <1>. QED  BY <1>2, <1>15, <1>17

(* An answer without error is made from candidates of its search.          *)
Made ==
    Answered =>
        \E s \in Searches :
            /\ answer.search = s /\ ~Unacceptable(s)
            /\ \E c \in Candidates(s), fit \in Nat : IsAnswer(s, c, fit, answer)

LEMMA MadeIs ==
    ASSUME Inv, Made, Answered
    PROVE  LET s == answer.search
           IN /\ s \in Searches /\ ~Unacceptable(s)
              /\ \E c, fit, order, ranked, n, top : MadeBy(s, c, fit, answer, order, ranked, n, top)
  <1>1. answer.search \in Searches /\ ~Unacceptable(answer.search)
    BY DEF Made
  <1>2. PICK c \in Candidates(answer.search), fit \in Nat :
            IsAnswer(answer.search, c, fit, answer)
    BY DEF Made
  <1>. QED  BY <1>1, <1>2, AnswerProperties

LEMMA MadeExplains == Inv /\ Made => MissesAreExplained
  <1> SUFFICES ASSUME Inv, Made, Answered,
                      NEW row \in Wanted(answer.search) \ Range(answer.matches),
                      answer.truncated # TRUE, Len(answer.matches) # answer.search.top_k
               PROVE  Cardinality(AtLeastAsNear(answer.search, row)) >
                        IF answer.search.filter = NoTag THEN TargetK(answer.search) ELSE FilterFloor
    BY DEF MissesAreExplained
  <1> DEFINE s == answer.search
             m == answer.matches
  <1>1. s \in Searches /\ ~Unacceptable(s)
    BY MadeIs
  <1>2. PICK c, fit, order, ranked, n, top : MadeBy(s, c, fit, answer, order, ranked, n, top)
    BY MadeIs
  <1>0. c \in Candidates(s) /\ fit \in Nat /\ n \in Nat /\ top \in Nat
    BY <1>2 DEF MadeBy
  <1> HIDE DEF s
  <1>3. /\ s.top_k \in Nat /\ TargetK(s) \in Nat /\ s.top_k <= TargetK(s)
        /\ CandidateLimit(s) \in Nat /\ TargetK(s) <= CandidateLimit(s)
        /\ s.filter # NoTag => FilterFloor <= CandidateLimit(s)
    BY <1>1, SearchLimits
  <1>4. /\ c \in Seq(Rows) /\ Len(c) \in Nat
        /\ (\A a \in 1 .. Len(c) : c[a] # row) =>
             Cardinality(AtLeastAsNear(s, row)) > CandidateLimit(s)
    BY <1>0, <1>1, CandidatesProperties DEF s
  <1>5. ~(Len(c) > s.top_k) /\ ~(fit < top)
    BY <1>2 DEF MadeBy
  <1>6. n = Len(c) /\ top = Len(c) /\ Len(m) = Len(c) /\ m \in Seq(Rows)
    BY <1>0, <1>2, <1>3, <1>4, <1>5 DEF MadeBy, Smaller
  <1>7. ASSUME NEW a \in 1 .. Len(c), c[a] = row PROVE FALSE
    <2>1. /\ IsPermutation(order, n)
          /\ \A i \in 1 .. n : ranked[i] = c[order[i]]
          /\ \A i \in 1 .. Len(m) : m[i] = ranked[i]
      BY <1>2 DEF MadeBy
    <2>3. PICK i \in 1 .. n : order[i] = a
      BY <1>0, <1>6, <2>1, Permuted
    <2>4. m[i] = row /\ i \in DOMAIN m
      BY <1>6, <1>7, <2>1, <2>3
    <2>. QED  BY <2>4 DEF Range
  <1>8. Cardinality(AtLeastAsNear(s, row)) > CandidateLimit(s)
    BY <1>4, <1>7
  <1>9. Cardinality(AtLeastAsNear(s, row)) \in Nat
    BY RowsFinite DEF AtLeastAsNear
  <1>10. CASE s.filter = NoTag
    BY <1>3, <1>8, <1>9, <1>10 DEF s
  <1>11. CASE s.filter # NoTag
    BY <1>3, <1>8, <1>9, <1>11, SearchAssumption DEF s
  <1>. QED  BY <1>10, <1>11

LEMMA MadeIsBest == Inv /\ Made => BestMatchesFirst
  <1> SUFFICES ASSUME Inv, Made, Answered
               PROVE  BestMatchesFirst
    BY DEF BestMatchesFirst
  <1> DEFINE s == answer.search
             m == answer.matches
             Better(a, b) == IF answer.reranked THEN ScoreOf(s, a) > ScoreOf(s, b)
                             ELSE DistanceTo(s, a) < DistanceTo(s, b)
             fetched == {row \in Wanted(s) : Cardinality(AtLeastAsNear(s, row)) <= TargetK(s)}
  <1>1. s \in Searches /\ ~Unacceptable(s)
    BY MadeIs
  <1>2. PICK c, fit, order, ranked, n, top : MadeBy(s, c, fit, answer, order, ranked, n, top)
    BY MadeIs
  <1>0. c \in Candidates(s) /\ fit \in Nat /\ n \in Nat /\ top \in Nat
    BY <1>2 DEF MadeBy
  <1> HIDE DEF s, m
  <1>3. /\ c \in Seq(Rows) /\ Len(c) \in Nat
        /\ \A a \in 1 .. Len(c) : c[a] \in Wanted(s)
        /\ \A a, b \in 1 .. Len(c) : c[a] = c[b] => a = b
        /\ \A a, b \in 1 .. Len(c) : a < b => DistanceTo(s, c[a]) <= DistanceTo(s, c[b])
        /\ \A row \in Wanted(s) : (\A a \in 1 .. Len(c) : c[a] # row) =>
             Cardinality(AtLeastAsNear(s, row)) > CandidateLimit(s)
        /\ \A a \in 1 .. Len(c) : a <= Cardinality(AtLeastAsNear(s, c[a]))
    BY <1>0, <1>1, CandidatesProperties
  <1>4. /\ m \in Seq(Rows) /\ DOMAIN m = 1 .. Len(m) /\ Len(m) \in Nat
        /\ n = Smaller(TargetK(s), Len(c))
        /\ ranked \in Seq(Rows) /\ Len(ranked) = n
        /\ \A i \in 1 .. Len(m) : i \in 1 .. n /\ m[i] = ranked[i]
        /\ order \in [1 .. n -> 1 .. n]
        /\ \A i, j \in 1 .. n : order[i] = order[j] => i = j
        /\ \A i \in 1 .. n : order[i] \in 1 .. Len(c) /\ ranked[i] = c[order[i]]
    BY <1>0, <1>2 DEF MadeBy, IsPermutation, m
  <1>5. /\ answer.reranked = TRUE => \A i, j \in 1 .. n : i < j =>
             ScoreOf(s, ranked[i]) >= ScoreOf(s, ranked[j])
        /\ answer.reranked # TRUE => order = [i \in 1 .. n |-> i]
    BY <1>2 DEF MadeBy
  <1>6. \A i \in 1 .. n : ranked[i] \in Wanted(s)
    BY <1>3, <1>4
  <1>7. \A row \in Wanted(s) : DistanceTo(s, row) \in Int /\ ScoreOf(s, row) \in Int
    BY <1>1, SearchTypes
  <1>8. IsInjective(m)
    <2>1. ASSUME NEW i \in 1 .. Len(m), NEW j \in 1 .. Len(m), m[i] = m[j] PROVE i = j
      <3>1. i \in 1 .. n /\ j \in 1 .. n /\ c[order[i]] = c[order[j]]
        BY <1>4, <2>1
      <3>2. order[i] = order[j]
        BY <1>3, <1>4, <3>1
      <3>. QED  BY <1>4, <3>1, <3>2
    <2>. QED  BY <1>4, <2>1 DEF IsInjective
  <1>9. Range(m) \subseteq Wanted(s)
    BY <1>4, <1>6 DEF Range
  <1>10. ASSUME NEW i \in 1 .. n, NEW j \in 1 .. n, i < j
         PROVE  ~Better(ranked[j], ranked[i])
    <2>1. /\ DistanceTo(s, ranked[i]) \in Int /\ DistanceTo(s, ranked[j]) \in Int
          /\ ScoreOf(s, ranked[i]) \in Int /\ ScoreOf(s, ranked[j]) \in Int
      BY <1>6, <1>7
    <2>2. CASE answer.reranked = TRUE
      <3>1. ScoreOf(s, ranked[i]) >= ScoreOf(s, ranked[j])
        BY <1>5, <1>10, <2>2
      <3>2. ~(ScoreOf(s, ranked[j]) > ScoreOf(s, ranked[i]))
        BY <2>1, <3>1
      <3>. QED  BY <2>2, <3>2
    <2>3. CASE answer.reranked # TRUE
      <3>1. order[i] = i /\ order[j] = j
        BY <1>5, <2>3
      <3>2. DistanceTo(s, ranked[i]) <= DistanceTo(s, ranked[j])
        BY <1>3, <1>4, <1>10, <3>1
      <3>3. ~(DistanceTo(s, ranked[j]) < DistanceTo(s, ranked[i]))
        BY <2>1, <3>2
      <3>. QED  BY <1>2, <2>3, <3>3 DEF MadeBy
    <2>. QED  BY <2>2, <2>3
  <1> HIDE DEF Better
  <1>11. ASSUME NEW i \in DOMAIN m, NEW j \in DOMAIN m, i < j
         PROVE  ~Better(m[j], m[i])
    BY <1>4, <1>10, <1>11
  <1>12. ASSUME NEW row \in fetched \ Range(m), NEW i \in DOMAIN m
         PROVE  ~Better(row, m[i])
    <2>1. /\ row \in Wanted(s) /\ Cardinality(AtLeastAsNear(s, row)) <= TargetK(s)
          /\ Cardinality(AtLeastAsNear(s, row)) \in Nat
          /\ TargetK(s) \in Nat /\ CandidateLimit(s) \in Nat /\ TargetK(s) <= CandidateLimit(s)
      BY <1>1, SearchLimits, RowsFinite DEF AtLeastAsNear
    <2>2. ~(Cardinality(AtLeastAsNear(s, row)) > CandidateLimit(s))
      BY <2>1
    <2>3. PICK a \in 1 .. Len(c) : c[a] = row
      BY <1>3, <2>1, <2>2
    <2>4. a <= Cardinality(AtLeastAsNear(s, row))
      BY <1>3, <2>3
    <2>5. a \in 1 .. n
      BY <1>3, <1>4, <2>1, <2>3, <2>4 DEF Smaller
    <2>6. IsPermutation(order, n)
      BY <1>2 DEF MadeBy
    <2>7. PICK p \in 1 .. n : order[p] = a
      BY <1>0, <2>5, <2>6, Permuted
    <2>8. ranked[p] = row
      BY <1>4, <2>3, <2>7
    <2>9. p \notin 1 .. Len(m)
      <3>1. \A q \in 1 .. Len(m) : m[q] # row
        BY <1>4, <1>12 DEF Range
      <3>. QED  BY <1>4, <2>8, <3>1
    <2>10. i \in 1 .. n /\ i < p /\ m[i] = ranked[i]
      BY <1>4, <2>9
    <2>. QED  BY <1>10, <2>8, <2>10
  <1>13. /\ IsInjective(m) /\ Range(m) \subseteq Wanted(s)
         /\ \A i, j \in DOMAIN m : i < j => ~Better(m[j], m[i])
         /\ \A row \in fetched \ Range(m), i \in DOMAIN m : ~Better(row, m[i])
    BY <1>8, <1>9, <1>11, <1>12
  <1>. QED  BY <1>13 DEF BestMatchesFirst, Better, s, m

(* Fewer are nearest when fewer are asked for: the first of them.          *)
LEMMA NearestPrefix ==
    ASSUME NEW s, NEW off, NEW k \in Nat, NEW l \in 0 .. k, NEW near \in Nearest(s, k),
           Stored(off) = Stored(s), \A row \in Rows : DistanceTo(off, row) = DistanceTo(s, row),
           \A row \in Stored(s) : DistanceTo(s, row) \in Int
    PROVE  \E m \in 0 .. Len(near) : [i \in 1 .. m |-> near[i]] \in Nearest(off, l)
  <1> DEFINE stored == Cardinality(Stored(s))
             m == IF l <= stored THEN l ELSE stored
             first == [i \in 1 .. m |-> near[i]]
  <1>1. stored \in Nat /\ Stored(s) \subseteq Rows
    BY RowsFinite DEF Stored
  <1>2. /\ Len(near) \in Nat /\ Len(near) = IF k <= stored THEN k ELSE stored
        /\ near \in [1 .. Len(near) -> Stored(s)]
        /\ \A i, j \in 1 .. Len(near) : near[i] = near[j] => i = j
        /\ \A i, j \in 1 .. Len(near) : i < j => DistanceTo(s, near[i]) <= DistanceTo(s, near[j])
        /\ \A row \in Stored(s) \ Range(near), i \in 1 .. Len(near) :
             DistanceTo(s, near[i]) <= DistanceTo(s, row)
    BY NearestProperties
  <1>3. m \in 0 .. Len(near) /\ m \in Nat /\ \A i \in 1 .. m : i \in 1 .. Len(near)
    BY <1>1, <1>2
  <1>4. m = Min({l, stored})
    BY <1>1, MinTwo
  <1> HIDE DEF m
  <1>5. first \in [1 .. m -> Stored(s)] /\ DOMAIN first = 1 .. m
        /\ \A i \in 1 .. m : first[i] = near[i]
    BY <1>2, <1>3
  <1> HIDE DEF first
  <1>6. IsInjective(first)
    BY <1>2, <1>3, <1>5 DEF IsInjective
  <1>7. \A i, j \in DOMAIN first : i < j => DistanceTo(off, first[i]) <= DistanceTo(off, first[j])
    <2>1. \A i \in 1 .. m : first[i] \in Rows
      BY <1>1, <1>5
    <2>. QED  BY <1>2, <1>3, <1>5, <2>1
  <1>8. ASSUME NEW row \in Stored(s) \ Range(first), NEW i \in DOMAIN first
        PROVE  DistanceTo(off, first[i]) <= DistanceTo(off, row)
    <2>1. /\ first[i] \in Rows /\ row \in Rows /\ first[i] = near[i] /\ i \in 1 .. Len(near)
          /\ i \in 1 .. m
      BY <1>1, <1>3, <1>5
    <2>2. CASE row \in Range(near)
      <3>1. PICK j \in 1 .. Len(near) : near[j] = row
        BY <1>2, <2>2 DEF Range
      <3>2. j \notin 1 .. m
        BY <1>5, <1>8, <3>1 DEF Range
      <3>3. i < j
        BY <1>2, <1>3, <2>1, <3>2
      <3>. QED  BY <1>2, <2>1, <3>1, <3>3
    <2>3. CASE row \notin Range(near)
      BY <1>2, <1>8, <2>1, <2>3
    <2>. QED  BY <2>2, <2>3
  <1>9. first \in Nearest(off, l)
    <2>1. Stored(off) = {row \in Rows : VectorsOf(off)[row] # NoVector}
      BY DEF Stored
    <2>2. first \in [1 .. Min({l, Cardinality(Stored(off))}) -> Stored(off)]
      BY <1>4, <1>5
    <2>. QED  BY <1>6, <1>7, <1>8, <2>1, <2>2 DEF Nearest
  <1>. QED  BY <1>3, <1>9 DEF first

(* What is joined with the first of near are the first of all joined.      *)
LEMMA JoinedPrefix ==
    ASSUME NEW near \in Seq(Rows), NEW wanted, NEW m \in 0 .. Len(near)
    PROVE  LET some == Joined([i \in 1 .. m |-> near[i]], wanted)
               all == Joined(near, wanted)
           IN /\ some \in Seq(Rows) /\ all \in Seq(Rows) /\ Len(some) <= Len(all)
              /\ \A a \in 1 .. Len(some) : all[a] = some[a]
  <1> DEFINE n == Len(near)
             first == [i \in 1 .. m |-> near[i]]
  <1>1. n \in Nat /\ m \in Nat /\ m <= n /\ n \in m .. n
    OBVIOUS
  <1>2. PICK joined : Joins(joined, near, wanted, n)
    BY <1>1, JoinsExist
  <1> DEFINE some == [i \in 0 .. m |-> joined[i]]
  <1>3. Len(first) = m /\ \A i \in 1 .. m : first[i] = near[i]
    BY <1>1
  <1> HIDE DEF first
  <1>4. Joins(some, first, wanted, m)
    <2>1. \A i \in 0 .. m : i \in 0 .. n /\ (i # 0 => i \in 1 .. m /\ i - 1 \in 0 .. m)
      BY <1>1
    <2>2. \A i \in 0 .. m : joined[i] = IF i = 0 THEN << >>
                ELSE IF near[i] \in wanted THEN Append(joined[i - 1], near[i])
                ELSE joined[i - 1]
      BY <1>2, <2>1 DEF Joins
    <2>3. \A i \in 0 .. m : joined[i] = IF i = 0 THEN << >>
                ELSE IF first[i] \in wanted THEN Append(some[i - 1], first[i])
                ELSE some[i - 1]
      BY <1>3, <2>1, <2>2
    <2>4. some = [i \in 0 .. m |-> IF i = 0 THEN << >>
                ELSE IF first[i] \in wanted THEN Append(some[i - 1], first[i])
                ELSE some[i - 1]]
      BY <2>3
    <2>. QED  BY <2>4 DEF Joins
  <1>5. Joined(first, wanted) = joined[m]
    <2>1. Joined(first, wanted) = some[m]
      <3> HIDE DEF some
      <3>. QED  BY <1>1, <1>3, <1>4, JoinedIs
    <2>. QED  BY <1>1, <2>1
  <1>6. Joined(near, wanted) = joined[n]
    BY <1>1, <1>2, JoinedIs
  <1>7. /\ joined[m] \in Seq(Rows) /\ joined[n] \in Seq(Rows)
        /\ Len(joined[m]) <= Len(joined[n])
        /\ \A a \in 1 .. Len(joined[m]) : joined[n][a] = joined[m][a]
    BY <1>1, <1>2, JoinsGrow
  <1>. QED  BY <1>5, <1>6, <1>7 DEF first

LEMMA PrefixIs ==
    ASSUME NEW a \in Seq(Rows), NEW b \in Seq(Rows), Len(a) <= Len(b),
           \A i \in 1 .. Len(a) : a[i] = b[i]
    PROVE  IsPrefix(a, b)
  <1>1. Len(a) \in Nat /\ \A i \in 1 .. Len(a) : a[i] \in Rows /\ b[i] \in Rows /\ 1 + i - 1 = i
    OBVIOUS
  <1>2. SubSeq(a, 1, Len(a)) = SubSeq(b, 1, Len(a))
    <2> DEFINE x == SubSeq(a, 1, Len(a))
               y == SubSeq(b, 1, Len(a))
    <2>1. /\ x \in Seq(Rows) /\ Len(x) = (IF 1 <= Len(a) THEN Len(a) - 1 + 1 ELSE 0)
          /\ \A i \in 1 .. Len(a) - 1 + 1 : x[i] = a[1 + i - 1]
      BY <1>1, SubSeqProperties
    <2>2. /\ y \in Seq(Rows) /\ Len(y) = (IF 1 <= Len(a) THEN Len(a) - 1 + 1 ELSE 0)
          /\ \A i \in 1 .. Len(a) - 1 + 1 : y[i] = b[1 + i - 1]
      BY <1>1, SubSeqProperties
    <2>3. Len(a) - 1 + 1 = Len(a) /\ Len(x) = Len(a) /\ Len(y) = Len(a)
      BY <1>1, <2>1, <2>2
    <2>4. \A i \in 1 .. Len(a) : x[i] = y[i]
      BY <1>1, <2>1, <2>2, <2>3
    <2> HIDE DEF x, y
    <2>5. x = y
      BY <2>1, <2>2, <2>3, <2>4, SeqEqual
    <2>. QED  BY <2>5 DEF x, y
  <1>. QED  BY <1>2 DEF IsPrefix

LEMMA MadeFallsBack == Inv /\ Made => FallbackLosesNothing
  <1> SUFFICES ASSUME Inv, Made, Answered, answer.search.rerank, ~answer.reranked
               PROVE  FallbackLosesNothing
    BY DEF FallbackLosesNothing
  <1> DEFINE s == answer.search
             m == answer.matches
             off == [s EXCEPT !.rerank = FALSE]
  <1>1. s \in Searches /\ ~Unacceptable(s)
    BY MadeIs
  <1>2. PICK c, fit, order, ranked, n, top : MadeBy(s, c, fit, answer, order, ranked, n, top)
    BY MadeIs
  <1>3. c \in Candidates(s) /\ fit \in Nat /\ n \in Nat /\ top \in Nat
    BY <1>2 DEF MadeBy
  <1>4. s.rerank
    OBVIOUS
  <1> HIDE DEF s, m
  <1>5. /\ off \in Searches /\ off.collection = s.collection /\ off.query = s.query
        /\ off.filter = s.filter /\ off.top_k = s.top_k /\ off.fetch_k = s.fetch_k
        /\ off.rerank = FALSE
    BY <1>1 DEF Searches
  <1> HIDE DEF off
  <1>6. ~Unacceptable(off)
    BY <1>1, <1>5 DEF Unacceptable
  <1>7. /\ s.top_k \in Nat /\ TargetK(s) \in Nat /\ s.top_k <= TargetK(s)
        /\ TargetK(off) = s.top_k
    BY <1>1, <1>5, SearchLimits DEF TargetK
  <1>8. /\ VectorsOf(off) = VectorsOf(s) /\ DocsOf(off) = DocsOf(s)
        /\ Stored(off) = Stored(s) /\ Wanted(off) = Wanted(s)
        /\ \A row \in Rows : DistanceTo(off, row) = DistanceTo(s, row)
    <2>1. VectorsOf(off) = VectorsOf(s) /\ DocsOf(off) = DocsOf(s)
      BY <1>5 DEF VectorsOf, DocsOf
    <2>2. \A row \in Rows : DistanceTo(off, row) = DistanceTo(s, row)
      BY <1>5, <2>1 DEF DistanceTo
    <2>3. \A row \in Rows : IsCandidate(row, off) <=> IsCandidate(row, s)
      BY <1>5, <2>1 DEF IsCandidate, Satisfies
    <2>. QED  BY <2>1, <2>2, <2>3 DEF Stored, Wanted
  <1>9. CandidateLimit(s) \in Nat /\ CandidateLimit(off) \in 0 .. CandidateLimit(s)
    <2>1. CandidateLimit(s) \in Nat /\ CandidateLimit(off) \in Nat
      BY <1>1, <1>5, <1>6, SearchLimits
    <2>2. /\ s.top_k * FilterFactor <= TargetK(s) * FilterFactor /\ FilterFloor \in Nat
          /\ s.top_k * FilterFactor \in Nat /\ TargetK(s) * FilterFactor \in Nat
      BY <1>7, Multiples, SearchAssumption
    <2> DEFINE x == s.top_k * FilterFactor
               y == TargetK(s) * FilterFactor
    <2>3. CandidateLimit(s) = IF s.filter = NoTag THEN TargetK(s) ELSE Max({y, FilterFloor})
      BY DEF CandidateLimit
    <2>4. CandidateLimit(off) = IF s.filter = NoTag THEN s.top_k ELSE Max({x, FilterFloor})
      BY <1>5, <1>7 DEF CandidateLimit
    <2> HIDE DEF x, y
    <2>5. x \in Nat /\ y \in Nat /\ x <= y
      BY <2>2 DEF x, y
    <2>6. Max({x, FilterFloor}) = IF x >= FilterFloor THEN x ELSE FilterFloor
      BY <2>2, <2>5, MaxTwo
    <2>7. Max({y, FilterFloor}) = IF y >= FilterFloor THEN y ELSE FilterFloor
      BY <2>2, <2>5, MaxTwo
    <2>. QED  BY <1>7, <2>1, <2>2, <2>3, <2>4, <2>5, <2>6, <2>7
  <1>10. PICK near \in Nearest(s, CandidateLimit(s)) : c = Joined(near, Wanted(s))
    BY <1>3 DEF Candidates
  <1>11. near \in Seq(Rows) /\ Len(near) \in Nat
    BY <1>9, <1>10, NearestProperties
  <1>12. PICK q \in 0 .. Len(near) : [i \in 1 .. q |-> near[i]] \in Nearest(off, CandidateLimit(off))
    <2>1. \A row \in Stored(s) : DistanceTo(s, row) \in Int
      BY <1>1, SearchTypes
    <2>. QED  BY <1>8, <1>9, <1>10, <2>1, NearestPrefix
  <1> DEFINE some == Joined([i \in 1 .. q |-> near[i]], Wanted(s))
             first == FirstOf(off.top_k, some)
  <1>13. some \in Candidates(off)
    BY <1>8, <1>12 DEF Candidates
  <1>14. /\ some \in Seq(Rows) /\ c \in Seq(Rows) /\ Len(some) <= Len(c)
         /\ \A a \in 1 .. Len(some) : c[a] = some[a]
    BY <1>10, <1>11, <1>12, JoinedPrefix
  <1> HIDE DEF some
  <1>15. /\ first \in Seq(Rows) /\ Len(first) \in Nat
         /\ Len(first) = Smaller(s.top_k, Len(some))
         /\ \A i \in 1 .. Len(first) : i \in 1 .. Len(some) /\ first[i] = some[i]
    BY <1>5, <1>7, <1>14, FirstProperties DEF Smaller
  <1> HIDE DEF first
  <1>16. \A i \in 1 .. Len(first) : first[i] = c[i]
    BY <1>14, <1>15
  <1>17. /\ m \in Seq(Rows) /\ Len(m) \in Nat /\ Len(c) \in Nat /\ Len(some) \in Nat
         /\ n = Smaller(TargetK(s), Len(c)) /\ top = Smaller(s.top_k, n)
         /\ Len(m) = Smaller(fit, top)
         /\ fit < top => answer.truncated = TRUE
    BY <1>2, <1>14 DEF MadeBy, m
  <1>18. \A i \in 1 .. Len(m) : m[i] = c[i]
    <2>1. order = [i \in 1 .. n |-> i]
      BY <1>2 DEF MadeBy
    <2>2. \A i \in 1 .. Len(m) : i \in 1 .. n /\ m[i] = ranked[i] /\ ranked[i] = c[order[i]]
      BY <1>2 DEF MadeBy, m
    <2>. QED  BY <2>1, <2>2
  <1>19. IsPrefix(first, m) \/ (answer.truncated = TRUE /\ IsPrefix(m, first))
    <2>1. CASE Len(first) <= Len(m)
      <3>1. \A i \in 1 .. Len(first) : first[i] = m[i]
        BY <1>15, <1>16, <1>17, <1>18, <2>1
      <3>. QED  BY <1>15, <1>17, <2>1, <3>1, PrefixIs
    <2>2. CASE ~(Len(first) <= Len(m))
      <3>1. Len(m) <= Len(first)
        BY <1>15, <1>17, <2>2
      <3>2. \A i \in 1 .. Len(m) : m[i] = first[i]
        BY <1>15, <1>16, <1>17, <1>18, <3>1
      <3>3. fit < top
        BY <1>3, <1>7, <1>14, <1>15, <1>17, <2>2 DEF Smaller
      <3>. QED  BY <1>15, <1>17, <3>1, <3>2, <3>3, PrefixIs
    <2>. QED  BY <2>1, <2>2
  <1>. QED  BY <1>13, <1>19 DEF FallbackLosesNothing, off, s, m, first
-----------------------------------------------------------------------------
(* The steps                                                               *)

(* An answer does not change what the collections are: what a search finds *)
(* is the same before and after it.                                        *)
LEMMA SameSearch ==
    ASSUME UNCHANGED vectorVars, NEW s
    PROVE  /\ Unacceptable(s)' <=> Unacceptable(s)
           /\ Candidates(s)' = Candidates(s)
           /\ \A fetched : Selected(s, fetched)' = Selected(s, fetched)
  <1>1. /\ collections' = collections /\ docs' = docs /\ vecs' = vecs /\ runtime' = runtime
    BY DEF vectorVars
  <1>2. Unacceptable(s)' <=> Unacceptable(s)
    BY <1>1 DEF Unacceptable, Known
  <1>3. VectorsOf(s)' = VectorsOf(s) /\ DocsOf(s)' = DocsOf(s)
    BY <1>1 DEF VectorsOf, DocsOf
  <1>4. \A row : DistanceTo(s, row)' = DistanceTo(s, row)
    BY <1>1, <1>3 DEF DistanceTo
  <1>5. Wanted(s)' = Wanted(s)
    BY <1>3 DEF Wanted, IsCandidate, Satisfies
  <1>6. \A k : Nearest(s, k)' = Nearest(s, k)
    BY <1>3, <1>4 DEF Nearest
  <1>7. Candidates(s)' = Candidates(s)
    BY <1>5, <1>6 DEF Candidates
  <1>8. \A row : ScoreOf(s, row)' = ScoreOf(s, row)
    BY <1>3 DEF ScoreOf
  <1>9. \A rows : ByScore(s, rows)' = ByScore(s, rows)
    BY <1>8 DEF ByScore
  <1>10. \A fetched : Selected(s, fetched)' = Selected(s, fetched)
    BY <1>9 DEF Selected
  <1>. QED  BY <1>2, <1>7, <1>10

SearchInv == Inv /\ SearchTypeOK /\ Made

LEMMA SearchInitInv == SearchInit => SearchInv
  BY InitInv DEF SearchInit, SearchInv, Inv, SearchTypeOK, Made, Answered

LEMMA SelectedType ==
    ASSUME Inv, NEW s \in Searches, ~Unacceptable(s), NEW c \in Candidates(s)
    PROVE  LET selected == Selected(s, Fetched(s, c))
           IN /\ selected \in Seq(Rows) /\ Len(selected) \in Nat
              /\ \A fit \in Min({1, Len(selected)}) .. Len(selected) : fit \in Nat
  <1> DEFINE fetched == Fetched(s, c)
             ranked == IF Reranks(s, fetched) THEN ByScore(s, fetched) ELSE fetched
             selected == FirstOf(s.top_k, ranked)
  <1>1. /\ c \in Seq(Rows) /\ s.top_k \in Nat /\ TargetK(s) \in Nat
        /\ \A i \in 1 .. Len(c) : c[i] \in Wanted(s)
    BY CandidatesProperties, SearchLimits
  <1>2. /\ fetched \in Seq(Rows)
        /\ \A i \in 1 .. Len(fetched) : i \in 1 .. Len(c) /\ fetched[i] = c[i]
    BY <1>1, FirstProperties DEF Fetched
  <1>3. \A i \in 1 .. Len(fetched) : ScoreOf(s, fetched[i]) \in Int
    BY <1>1, <1>2, SearchTypes
  <1>4. Selected(s, Fetched(s, c)) = selected
    BY DEF Selected
  <1> HIDE DEF fetched
  <1>5. ranked \in Seq(Rows)
    BY <1>2, <1>3, ByScoreProperties
  <1> HIDE DEF ranked
  <1>6. selected \in Seq(Rows) /\ Len(selected) \in Nat
    BY <1>1, <1>5, FirstProperties
  <1> HIDE DEF selected
  <1>7. Min({1, Len(selected)}) \in Nat
    BY <1>6, MinTwo
  <1>8. \A fit \in Min({1, Len(selected)}) .. Len(selected) : fit \in Nat
    BY <1>6, <1>7
  <1>. QED  BY <1>4, <1>6, <1>8

LEMMA SearchStep ==
    ASSUME SearchInv, NEW s \in Searches, Search(s)
    PROVE  answer' \in Answers /\ Made'
  <1>1. UNCHANGED vectorVars
    BY DEF Search
  <1>2. CASE ErrorAnswer(s)
    <2>1. << >> \in Seq(Rows)
      OBVIOUS
    <2>2. answer' \in Answers /\ answer'.status = "error"
      BY <1>2, <2>1 DEF ErrorAnswer, Answers
    <2>. QED  BY <2>2 DEF Made, Answered
  <1>3. CASE ~Unacceptable(s) /\ SearchAnswer(s)
    <2>1. PICK c \in Candidates(s) :
            LET fetched == Fetched(s, c)
                selected == Selected(s, fetched)
            IN \E fit \in Min({1, Len(selected)}) .. Len(selected) :
                 answer' = [ search |-> s, status |-> "ok",
                             matches |-> FirstOf(fit, selected),
                             truncated |-> Len(c) > s.top_k \/ fit < Len(selected),
                             reranked |-> Reranks(s, fetched) ]
      BY <1>3 DEF SearchAnswer
    <2> DEFINE selected == Selected(s, Fetched(s, c))
    <2>2. PICK fit \in Min({1, Len(selected)}) .. Len(selected) : IsAnswer(s, c, fit, answer')
      BY <2>1 DEF IsAnswer
    <2>3. selected \in Seq(Rows) /\ Len(selected) \in Nat /\ fit \in Nat
      BY <1>3, SelectedType DEF SearchInv
    <2> HIDE DEF selected
    <2>4. FirstOf(fit, selected) \in Seq(Rows)
      BY <2>3, FirstProperties
    <2>5. Reranks(s, Fetched(s, c)) \in BOOLEAN
      BY DEF Reranks
    <2>6. answer' = [ search |-> s, status |-> "ok",
                      matches |-> FirstOf(fit, selected),
                      truncated |-> Len(c) > s.top_k \/ fit < Len(selected),
                      reranked |-> Reranks(s, Fetched(s, c)) ]
      BY <2>2 DEF IsAnswer, selected
    <2>7. answer' \in Answers
      BY <2>4, <2>5, <2>6 DEF Answers
    <2>8. answer'.search = s
      BY <2>6
    <2>9. ~Unacceptable(s)' /\ c \in Candidates(s)'
      BY <1>1, <1>3, SameSearch
    <2>10. selected = Selected(s, Fetched(s, c))'
      <3>1. \A fetched : Selected(s, fetched)' = Selected(s, fetched)
        BY <1>1, SameSearch
      <3>. QED  BY <3>1 DEF selected
    <2>11. IsAnswer(s, c, fit, answer)'
      BY <2>6, <2>10 DEF IsAnswer
    <2>. QED  BY <2>3, <2>7, <2>8, <2>9, <2>11 DEF Made
  <1>. QED  BY <1>2, <1>3 DEF Search
LEMMA SearchNextInv == SearchInv /\ [SearchNext]_vars => SearchInv'
  <1> SUFFICES ASSUME SearchInv, [SearchNext]_vars PROVE SearchInv'
    OBVIOUS
  <1>1. Inv'
    <2>1. [Next]_vectorVars
      BY DEF SearchNext, Search, Respond, vars
    <2>. QED  BY <2>1, NextInv DEF SearchInv
  <1>2. CASE answer = NoAnswer /\ UNCHANGED answer
    BY <1>1, <1>2 DEF SearchInv, SearchTypeOK, Inv, Made, Answered
  <1>3. ASSUME NEW s \in Searches, Search(s) PROVE SearchInv'
    BY <1>1, <1>3, SearchStep DEF SearchInv, SearchTypeOK, Inv
  <1>4. CASE Respond
    BY <1>1, <1>4 DEF Respond, SearchInv, SearchTypeOK, Inv, Made, Answered
  <1>5. CASE UNCHANGED vars
    <2>1. UNCHANGED vectorVars /\ UNCHANGED answer
      BY <1>5 DEF vars
    <2>2. Answered' => Answered
      BY <2>1 DEF Answered
    <2>3. Made'
      <3>1. SUFFICES ASSUME Answered PROVE Made'
        BY <2>2 DEF Made
      <3>2. PICK s \in Searches :
              /\ answer.search = s /\ ~Unacceptable(s)
              /\ \E c \in Candidates(s), fit \in Nat : IsAnswer(s, c, fit, answer)
        BY <3>1 DEF SearchInv, Made
      <3>3. PICK c \in Candidates(s), fit \in Nat : IsAnswer(s, c, fit, answer)
        BY <3>2
      <3>4. ~Unacceptable(s)' /\ c \in Candidates(s)'
            /\ Selected(s, Fetched(s, c))' = Selected(s, Fetched(s, c))
        <4>1. \A fetched : Selected(s, fetched)' = Selected(s, fetched)
          BY <2>1, SameSearch
        <4>. QED  BY <2>1, <3>2, <3>3, <4>1, SameSearch
      <3>5. IsAnswer(s, c, fit, answer)'
        BY <2>1, <3>3, <3>4 DEF IsAnswer
      <3>. QED  BY <2>1, <3>2, <3>3, <3>4, <3>5 DEF Made
    <2>. QED  BY <1>1, <2>1, <2>3 DEF SearchInv, SearchTypeOK, Inv
  <1>. QED  BY <1>2, <1>3, <1>4, <1>5 DEF SearchNext

(* The type invariant: what is sorted, joined and cut off are rows.        *)
THEOREM SearchTypeCorrect == SearchSpec => []SearchTypeOK
  BY SearchInitInv, SearchNextInv, PTL DEF SearchSpec, SearchInv

(* A document that could have been found is missing only for the reasons   *)
(* the property names.                                                     *)
THEOREM MissesCorrect == SearchSpec => []MissesAreExplained
  BY SearchInitInv, SearchNextInv, MadeExplains, PTL DEF SearchSpec, SearchInv

(* The matches come best first, and none of those fetched is better than   *)
(* a match and left out: fetched by distance, ranked, and cut after that.  *)
THEOREM BestCorrect == SearchSpec => []BestMatchesFirst
  BY SearchInitInv, SearchNextInv, MadeIsBest, PTL DEF SearchSpec, SearchInv

(* A reranker that fails costs no match.                                   *)
THEOREM FallbackCorrect == SearchSpec => []FallbackLosesNothing
  BY SearchInitInv, SearchNextInv, MadeFallsBack, PTL DEF SearchSpec, SearchInv

(* Searching does not disturb what an embedding belongs to.                *)
THEOREM SearchEmbeddingsCorrect == SearchSpec => []EmbeddingsMatchDocuments
  BY SearchInitInv, SearchNextInv, InvMatches, PTL DEF SearchSpec, SearchInv
=============================================================================
