------------------------------- MODULE Import -------------------------------
(***************************************************************************)
(* What db_import makes of a payload: columns and rows from CSV or JSON,   *)
(* the type of a created column, conflicts with a unique key, the limit on *)
(* the size of the file, and ROLLBACK when anything fails.  One call, row  *)
(* by row; how its transaction meets those of others is Transactions'.     *)
(*                                                                         *)
(* Columns are numbered in the order of their names.  Values are records   *)
(* of a kind and of what they are a value of; text of a number is of it.   *)
(***************************************************************************)
EXTENDS Orders, Integers, SequencesExt, FiniteSetsExt

CONSTANTS
    Key,            \* the column a unique index is on, where there is one
    ValidColumns,   \* columns whose names are identifiers
    Imports,        \* requests
    OldTables,      \* tables that may be there
    MaxRows,        \* SQLITE_MAX_ROWS
    MaxPages,       \* SQLITE_MAX_DB_BYTES, in pages
    FileSizes       \* of the file before the call, in pages

VARIABLES
    request,        \* the call
    before,         \* (history) the table before it
    table,          \* as its transaction sees it
    phase,          \* called, importing, answered
    index,          \* rows imported so far
    inserted,
    skipped,
    pages,          \* the database as the transaction sees it
    disk,           \* the file
    answer          \* none, ok, error

importVars == << request, before, table, phase, index, inserted, skipped, pages, disk, answer >>

Kinds == {"null", "bool", "int", "uint", "real", "text", "nested"}
Null == [kind |-> "null", of |-> 0]

(* A table: a type for each of its columns, and rows in order of rowid.    *)
NoTable == [types |-> << >>, unique |-> FALSE, rows |-> << >>]
Exists(t) == t # NoTable

Values == [kind : Kinds, of : Int]

SameKey(t, one, other) ==
    t.unique /\ one[Key] # Null /\ one[Key] = other[Key]

(* Requests as their schema has them, and tables as SQLite keeps them.     *)
ASSUME ImportAssumption ==
    /\ MaxPages \in Nat /\ FileSizes \subseteq Nat
    /\ Imports # {} /\ NoTable \in OldTables
    /\ \A r \in Imports :
         /\ r.format \in {"csv", "json"} /\ r.mode \in {"none", "ignore", "replace"}
         /\ r.data \in Seq(ToSet(r.data))
    /\ \A t \in OldTables :
         /\ t \in [types : {t.types}, unique : BOOLEAN, rows : Seq([DOMAIN t.types -> Values])]
         /\ \A i, j \in DOMAIN t.rows : SameKey(t, t.rows[i], t.rows[j]) => i = j

-----------------------------------------------------------------------------
(* Parsing                                                                 *)

(* The columns of a call: those it names, or else the header, or the keys  *)
(* of all objects.                                                         *)
Columns(r) ==
    IF r.columns # << >> THEN r.columns
    ELSE IF r.format = "csv" THEN r.header
    ELSE Rising(UNION { DOMAIN r.data[i] : i \in DOMAIN r.data })

(* Deliberately wrong: a field is looked up by the place of its column.    *)
CsvFieldByPlace(r, i, j) ==
    IF j \in DOMAIN r.header THEN [kind |-> "text", of |-> r.data[i][j]] ELSE Null

(* record_to_row: the field under the header of the column's name.         *)
CsvField(r, i, j) ==
    LET places == { p \in DOMAIN r.header : r.header[p] = Columns(r)[j] }
    IN IF places = {} THEN Null
       ELSE [kind |-> "text", of |-> r.data[i][CHOOSE p \in places : \A q \in places : p <= q]]

JsonField(r, i, j) ==
    LET column == Columns(r)[j]
    IN IF column \in DOMAIN r.data[i] THEN r.data[i][column] ELSE Null

Rows(r) ==
    [i \in DOMAIN r.data |-> [j \in DOMAIN Columns(r) |->
        IF r.format = "csv" THEN CsvField(r, i, j) ELSE JsonField(r, i, j)]]

(* Records of unequal length are an error of the csv library.              *)
Parses(r) == r.format = "csv" => \A i \in DOMAIN r.data : Len(r.data[i]) = Len(r.header)

Refused(r, t) ==
    \/ r.batch = 0 \/ ~Parses(r)
    \/ Len(r.data) \notin 1 .. MaxRows
    \/ Columns(r) = << >>
    \/ \E j \in DOMAIN Columns(r) : Columns(r)[j] \notin ValidColumns
    \/ ~Exists(t) /\ ~r.create

-----------------------------------------------------------------------------
(* Values                                                                  *)

(* json_to_sql_value: what does not fit into 64 bits becomes a float.      *)
Converted(v) ==
    [ kind |-> CASE v.kind = "bool" -> "int" [] v.kind = "uint" -> "real"
                 [] v.kind = "nested" -> "text" [] OTHER -> v.kind,
      of |-> v.of ]

(* Deliberately wrong: the first row decides.                              *)
InferColumnTypeFirst(rows, j) ==
    CASE rows[1][j].kind \in {"text", "nested"} -> "TEXT"
      [] rows[1][j].kind \in {"real", "uint"} -> "REAL"
      [] rows[1][j].kind \in {"int", "bool"} -> "INTEGER"
      [] OTHER -> "TEXT"

InferColumnType(rows, j) ==
    LET saw(kinds) == \E i \in DOMAIN rows : rows[i][j].kind \in kinds
    IN IF saw({"text", "nested"}) THEN "TEXT"
       ELSE IF saw({"real", "uint"}) THEN "REAL"
       ELSE IF saw({"int", "bool"}) THEN "INTEGER"
       ELSE "TEXT"

(* The affinity of SQLite: a column of text turns numbers into text, one   *)
(* of numbers turns the text of a number (`of` is not 0) into the number,  *)
(* and any other keeps what it is given.                                   *)
Stored(type, v) ==
    LET number == v.kind = "int" \/ (v.kind = "text" /\ v.of # 0)
    IN CASE type = "TEXT" /\ v.kind \in {"int", "real"} -> [v EXCEPT !.kind = "text"]
         [] type = "REAL" /\ number -> [v EXCEPT !.kind = "real"]
         [] type = "INTEGER" /\ number -> [v EXCEPT !.kind = "int"]
         [] OTHER -> v

CreatedTable(r) ==
    LET place == [c \in ToSet(Columns(r)) |-> CHOOSE j \in DOMAIN Columns(r) : Columns(r)[j] = c]
    IN [ types |-> [c \in ToSet(Columns(r)) |->
                      IF r.infer THEN InferColumnType(Rows(r), place[c]) ELSE "TEXT"],
         unique |-> FALSE, rows |-> << >> ]

(* A row of the table; columns the call does not name are NULL.            *)
RowOf(t, columns, values) ==
    [c \in DOMAIN t.types |->
        IF c \notin ToSet(columns) THEN Null
        ELSE Stored(t.types[c], Converted(values[CHOOSE j \in DOMAIN columns : columns[j] = c]))]

-----------------------------------------------------------------------------
(* The call                                                                *)

PagesOf(t) == IF Exists(t) THEN 1 + Len(t.rows) ELSE 1

ImportInit ==
    /\ request \in Imports
    /\ table \in OldTables /\ before = table
    /\ disk \in { size \in FileSizes : size >= PagesOf(table) } /\ pages = disk
    /\ phase = "called" /\ index = 0 /\ inserted = 0 /\ skipped = 0 /\ answer = "none"

(* Leaving with an error, from within the transaction by way of ROLLBACK.  *)
Abort ==
    /\ phase' = "answered" /\ answer' = "error"
    /\ table' = before /\ pages' = disk
    /\ UNCHANGED << request, before, index, inserted, skipped, disk >>

Refuse == phase = "called" /\ Refused(request, table) /\ Abort

(* BEGIN, CREATE TABLE and DELETE.  An open transaction, a locked file and *)
(* a full one are errors.                                                  *)
BeginImport ==
    /\ phase = "called" /\ ~Refused(request, table)
    /\ \/ Abort
       \/ /\ phase' = "importing"
          /\ LET t == IF Exists(table) THEN table ELSE CreatedTable(request)
             IN table' = IF request.truncate THEN [t EXCEPT !.rows = << >>] ELSE t
          /\ UNCHANGED << request, before, index, inserted, skipped, pages, disk, answer >>

(* Deliberately wrong: only the size of the file is checked.               *)
FitsAlways(size) == TRUE

(* The max_page_count of the connection (apply_db_size_limit): no page is  *)
(* allocated above it.                                                     *)
Fits(size) == size > pages => size <= MaxPages

(* enforce_db_size_limit reads the size of the file, into which SQLite may *)
(* have spilled pages of the transaction.                                  *)
TooLarge(size) == size > MaxPages

(* The rows that stay beside a new one: REPLACE deletes those of its key.  *)
Without(rows, row) == Picked(rows, { i \in DOMAIN rows : ~SameKey(table, row, rows[i]) })

(* One row: what is inserted and with which effect on the counts.          *)
InsertRow(rows, row) ==
    LET clashes(other) == SameKey(table, row, other)
        clash == \E i \in DOMAIN rows : clashes(rows[i])
    IN IF clash /\ request.mode = "none" THEN "error"
       ELSE IF clash /\ request.mode = "ignore" THEN "skipped"
       ELSE "inserted"

ImportRow ==
    /\ phase = "importing" /\ index < Len(request.data)
    /\ LET columns == Columns(request)
           row == RowOf(table, columns, Rows(request)[index + 1])
           outcome == InsertRow(table.rows, row)
           kept == Without(table.rows, row)
           later == IF outcome = "inserted" THEN [table EXCEPT !.rows = Append(kept, row)] ELSE table
           size == Max({pages, PagesOf(later)})
           checked == (index + 1) % request.batch = 0
       IN \/ ~(ToSet(columns) \subseteq DOMAIN table.types) /\ Abort
          \/ /\ ToSet(columns) \subseteq DOMAIN table.types
             /\ \/ (outcome = "error" \/ ~Fits(size)) /\ Abort
                \/ checked /\ (\E read \in disk .. size : TooLarge(read)) /\ Abort
                \/ /\ outcome # "error" /\ Fits(size)
                   /\ checked => \E read \in disk .. size : ~TooLarge(read)
                   /\ table' = later /\ pages' = size
                   /\ index' = index + 1
                   /\ inserted' = IF outcome = "inserted" THEN inserted + 1 ELSE inserted
                   /\ skipped' = IF outcome = "skipped" THEN skipped + 1 ELSE skipped
                   /\ UNCHANGED << request, before, phase, disk, answer >>

(* The last check of the size, and COMMIT, which may fail.                 *)
CommitImport ==
    /\ phase = "importing" /\ index = Len(request.data)
    /\ \/ Abort
       \/ /\ \E read \in disk .. pages : ~TooLarge(read)
          /\ phase' = "answered" /\ answer' = "ok"
          /\ disk' = pages
          /\ UNCHANGED << request, before, table, index, inserted, skipped, pages >>

ImportNext == Refuse \/ BeginImport \/ ImportRow \/ CommitImport

-----------------------------------------------------------------------------
(* Properties                                                              *)

ImportTypeOK ==
    /\ request \in Imports /\ before \in OldTables
    /\ table.unique \in BOOLEAN
    /\ \A i \in DOMAIN table.rows : DOMAIN table.rows[i] = DOMAIN table.types
    /\ phase \in {"called", "importing", "answered"}
    /\ index \in 0 .. Len(request.data)
    /\ inserted \in 0 .. index /\ skipped \in 0 .. index
    /\ pages >= disk /\ disk >= 1
    /\ answer \in {"none", "ok", "error"}

(* The payload as objects; of fields of one name the first counts.         *)
Given(r) ==
    IF r.format = "json" THEN r.data
    ELSE [i \in DOMAIN r.data |->
            [c \in ToSet(r.header) |->
               [kind |-> "text", of |-> r.data[i][Min({ p \in DOMAIN r.header : r.header[p] = c })]]]]

GivenValue(i, c) ==
    IF c \in ToSet(Columns(request)) /\ c \in DOMAIN Given(request)[i]
    THEN Given(request)[i][c] ELSE Null

(* A successful import leaves the rows there were, if they were to stay,   *)
(* and those given, in order, each field in the column of its name; among  *)
(* rows of one key the first (ignore) or the last (replace) one stays, and *)
(* the counts tell so.  A failed import leaves the table as it was, also   *)
(* one that was to be created or truncated.                                *)
ImportIsExact ==
    LET old == IF request.truncate THEN << >> ELSE before.rows
        new == [i \in DOMAIN request.data |-> [c \in DOMAIN table.types |->
                  Stored(table.types[c], Converted(GivenValue(i, c)))]]
        all == old \o new
        Wins(i) == \A j \in DOMAIN all :
                      SameKey(table, all[i], all[j]) =>
                          CASE request.mode = "none" -> j = i
                            [] request.mode = "ignore" -> j >= i
                            [] request.mode = "replace" -> j <= i
        winners == { i \in DOMAIN all : Wins(i) }
    IN /\ answer = "ok" =>
            /\ table.rows = Picked(all, winners)
            /\ inserted + skipped = Len(request.data)
            /\ skipped = IF request.mode = "ignore" THEN Len(all) - Cardinality(winners) ELSE 0
       /\ answer = "error" => table = before /\ pages = disk

(* A column of a table that was created with inferred types keeps values   *)
(* of one kind as they are (booleans as 0 and 1), and keeps numbers        *)
(* numbers, whatever mixture of them and wherever NULLs are.               *)
ValuesKeepTheirKinds ==
    answer = "ok" /\ ~Exists(before) /\ request.infer =>
        \A c \in DOMAIN table.types :
            LET kinds == { GivenValue(i, c).kind : i \in DOMAIN request.data } \ {"null"}
            IN \A i \in DOMAIN request.data :
                 LET given == Converted(GivenValue(i, c))
                     stored == table.rows[i][c]
                 IN /\ Cardinality(kinds) = 1 => stored = given
                    /\ given.kind \in {"int", "real"} /\ kinds \cap {"text", "nested"} = {} =>
                         stored.kind \in {"int", "real"}

(* After a successful import the file is within the limit, although the    *)
(* size is checked before COMMIT has written it: the ceiling on the pages  *)
(* of the connection sees to it.  No import succeeds while another program *)
(* has grown the file beyond the limit.                                    *)
ImportsStayWithinLimit == answer = "ok" => disk <= MaxPages
=============================================================================
