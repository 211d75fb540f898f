------------------------------- MODULE Paging -------------------------------
(***************************************************************************)
(* How many rows one page of sql_query carries (tools/sql.rs, sql_query).  *)
(*                                                                         *)
(* A first loop collects rows until max_rows or max_bytes is reached; a    *)
(* second loop measures the encoded response, dropping the last row while  *)
(* it is too large.  Every try that passes the first measure (the probe)   *)
(* touches the cursor store, and then the real response is measured.       *)
(*                                                                         *)
(* The two differ.  The response names its cursor in _meta as well, where  *)
(* the probe has null; and each has time stamps of its own (now_utc and    *)
(* elapsed_ms), whose length nobody controls: probe and response of a size *)
(* are between nothing and Jitter bytes longer than the shortest ones.     *)
(*                                                                         *)
(* A row is an opaque value with a size.  The separators between encoded   *)
(* values are counted in the sizes.                                        *)
(***************************************************************************)
EXTENDS Integers, Sequences

CONSTANTS
    Rows,           \* the rows a table may hold
    RowBytes,       \* encoded size of a row: [Rows -> Nat \ {0}]
    ColumnBytes,    \* encoded size of the column names
    EnvelopeBytes,  \* summary, counters and _meta
    HintBytes,      \* next_cursor of the data, and the continuation hint
    MetaBytes,      \* next_cursor of _meta, beyond the null of the probe
    Jitter          \* how much longer now_utc and elapsed_ms may be

ASSUME PagingAssumption ==
    /\ RowBytes \in [Rows -> Nat \ {0}]
    /\ {ColumnBytes, EnvelopeBytes, HintBytes, MetaBytes, Jitter} \subseteq Nat

-----------------------------------------------------------------------------

Bytes(rows) ==
    LET total[n \in 0 .. Len(rows)] == IF n = 0 THEN 0 ELSE total[n - 1] + RowBytes[rows[n]]
    IN total[Len(rows)]

Take(rows, n) == SubSeq(rows, 1, n)
Drop(rows, n) == SubSeq(rows, n + 1, Len(rows))

(* The row loop: the numbers of rows of `rest' (the rows after the offset) *)
(* it reaches before max_rows or max_bytes stops it.                       *)
Collected(rest, max_rows, max_bytes) ==
    {n \in 0 .. Len(rest) :
        n > 0 => n <= max_rows /\ ColumnBytes + Bytes(Take(rest, n)) <= max_bytes}

(* A page of n rows is truncated when the loop stopped early or a row was  *)
(* dropped: exactly when rows of the result are missing from it.           *)
Truncated(rest, n) == n < Len(rest)

(* The least bytes of the probe, and of the response, of a page of n rows. *)
ProbeBytes(rest, n) ==
    EnvelopeBytes + ColumnBytes + Bytes(Take(rest, n))
      + (IF Truncated(rest, n) THEN HintBytes ELSE 0)

ResponseBytes(rest, n) ==
    ProbeBytes(rest, n) + (IF Truncated(rest, n) THEN MetaBytes ELSE 0)

(* The sizes whose probe may fit the budget, and those whose probe must.   *)
MayProbe(rest, max_rows, max_bytes) ==
    {n \in Collected(rest, max_rows, max_bytes) : ProbeBytes(rest, n) <= max_bytes}

MustProbe(rest, max_rows, max_bytes) ==
    {n \in Collected(rest, max_rows, max_bytes) : ProbeBytes(rest, n) + Jitter <= max_bytes}

(* The sizes that may turn out too large, by the probe or the response.    *)
MayOverrun(rest, max_bytes) ==
    {n \in 0 .. Len(rest) : ResponseBytes(rest, n) + Jitter > max_bytes}

(* The page sizes sql_query may answer with: the response may fit, and     *)
(* each larger size was tried before and may have been too large.          *)
PageSizes(rest, max_rows, max_bytes) ==
    LET sizes == Collected(rest, max_rows, max_bytes)
    IN {n \in sizes : /\ ResponseBytes(rest, n) <= max_bytes
                      /\ \A k \in sizes : k > n => k \in MayOverrun(rest, max_bytes)}

(* LimitExceeded: not even the page of no rows could be sent.              *)
MayExceedLimit(rest, max_rows, max_bytes) ==
    Collected(rest, max_rows, max_bytes) \subseteq MayOverrun(rest, max_bytes)

(* What may have been tried, and given up after the store was touched,     *)
(* before a page of n rows is answered (n = -1 when the call fails): the   *)
(* larger sizes whose probe fitted, by their time stamps or in any case.   *)
GivenUp(rest, max_rows, max_bytes, n) ==
    LET larger(sizes) == {k \in sizes : k > n}
    IN {touched \in SUBSET larger(MayProbe(rest, max_rows, max_bytes)) :
          larger(MustProbe(rest, max_rows, max_bytes)) \subseteq touched}
=============================================================================
