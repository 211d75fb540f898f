----------------------------- MODULE PagingLoop -----------------------------
(***************************************************************************)
(* The two loops of sql_query, step by step, for one call: rows are        *)
(* skipped to the offset and collected; then the response is probed,       *)
(* trimmed, built and measured until it fits.  `reserved' counts the       *)
(* cursors the call has put into the store and not taken back; `consumed'  *)
(* says that the cursor it continued from has been deleted.                *)
(*                                                                         *)
(* Paging states the same computation in one step; the invariants below    *)
(* say that the loops compute it.                                          *)
(***************************************************************************)
EXTENDS Paging, FiniteSets

CONSTANTS
    Tables,      \* results a statement may produce: finite sequences of Rows
    RowLimits,   \* effective max_rows of a call
    ByteLimits,  \* effective max_bytes of a call
    MaxOffset    \* bound: the largest offset a cursor carries

ASSUME PagingLoopAssumption ==
    /\ Tables \subseteq Seq(Rows)
    /\ RowLimits \subseteq Nat \ {0}
    /\ ByteLimits \subseteq Nat \ {0}
    /\ MaxOffset \in Nat

VARIABLES
    call,           \* the call: [table, offset, max_rows, max_bytes]
    pc,             \* "scan", "probe", "respond", "answered" or "failed"
    next,           \* index of the next row the statement yields
    returned_rows,
    used_bytes,
    truncated,
    initial,        \* rows collected by the scan (initial_row_count)
    touched,        \* sizes tried after a fitting probe
    consumed,
    reserved

vars == << call, pc, next, returned_rows, used_bytes, truncated, initial,
           touched, consumed, reserved >>

Calls == { [table |-> t, offset |-> o, max_rows |-> r, max_bytes |-> b] :
             t \in Tables, o \in 0 .. MaxOffset, r \in RowLimits, b \in ByteLimits }

Rest == Drop(call.table, call.offset)

TypeOK ==
    /\ call \in Calls
    /\ pc \in {"scan", "probe", "respond", "answered", "failed"}
    /\ next \in 1 .. (Len(call.table) + 1)
    /\ returned_rows \in Seq(Rows)
    /\ used_bytes \in Nat
    /\ truncated \in BOOLEAN
    /\ initial \in 0 .. Len(call.table)
    /\ touched \subseteq 0 .. Len(call.table)
    /\ consumed \in BOOLEAN
    /\ reserved \in 0 .. 1

Init ==
    /\ call \in Calls
    /\ pc = "scan"
    /\ next = 1
    /\ returned_rows = << >>
    /\ used_bytes = ColumnBytes
    /\ truncated = FALSE
    /\ initial = 0
    /\ touched = {}
    /\ consumed = FALSE
    /\ reserved = 0

-----------------------------------------------------------------------------
(* The row loop.                                                           *)

SkipRow ==
    /\ pc = "scan"
    /\ next <= Len(call.table)
    /\ next <= call.offset
    /\ next' = next + 1
    /\ UNCHANGED << call, pc, returned_rows, used_bytes, truncated, initial,
                    touched, consumed, reserved >>

RowFits ==
    /\ Len(returned_rows) < call.max_rows
    /\ used_bytes + RowBytes[call.table[next]] <= call.max_bytes

KeepRow ==
    /\ pc = "scan"
    /\ next <= Len(call.table)
    /\ next > call.offset
    /\ RowFits
    /\ returned_rows' = Append(returned_rows, call.table[next])
    /\ used_bytes' = used_bytes + RowBytes[call.table[next]]
    /\ next' = next + 1
    /\ UNCHANGED << call, pc, truncated, initial, touched, consumed, reserved >>

EndScan ==
    /\ pc = "scan"
    /\ \/ next > Len(call.table) /\ UNCHANGED truncated
       \/ next <= Len(call.table) /\ next > call.offset /\ ~RowFits /\ truncated' = TRUE
    /\ initial' = Len(returned_rows)
    /\ pc' = "probe"
    /\ UNCHANGED << call, next, returned_rows, used_bytes, touched, consumed,
                    reserved >>

-----------------------------------------------------------------------------
(* The measuring loop.                                                     *)

(* Probe and response as encoded, with the shortest time stamps.           *)
EncodedProbe == EnvelopeBytes + ColumnBytes + Bytes(returned_rows)
                  + (IF truncated THEN HintBytes ELSE 0)

EncodedResponse == EncodedProbe + (IF truncated THEN MetaBytes ELSE 0)

(* Deliberately wrong: with no row left to drop, the loop just goes on.     *)
PopRowForever ==
    /\ pc' = "probe"
    /\ returned_rows' = Take(returned_rows, Len(returned_rows) - 1)
    /\ truncated' = TRUE

(* Deliberately wrong: the page that lost a row is not marked truncated.   *)
PopRowSilently ==
    IF returned_rows = << >>
    THEN pc' = "failed" /\ UNCHANGED << returned_rows, truncated >>
    ELSE /\ pc' = "probe"
         /\ returned_rows' = Take(returned_rows, Len(returned_rows) - 1)
         /\ UNCHANGED truncated

(* returned_rows.pop(): the last row is dropped, or the call fails.        *)
PopRow ==
    IF returned_rows = << >>
    THEN pc' = "failed" /\ UNCHANGED << returned_rows, truncated >>
    ELSE /\ pc' = "probe"
         /\ returned_rows' = Take(returned_rows, Len(returned_rows) - 1)
         /\ truncated' = TRUE

ProbeTooLarge ==
    /\ pc = "probe"
    /\ \E extra \in 0 .. Jitter : EncodedProbe + extra > call.max_bytes
    /\ PopRow
    /\ UNCHANGED << call, next, used_bytes, initial, touched, consumed, reserved >>

ProbeFits ==
    /\ pc = "probe"
    /\ \E extra \in 0 .. Jitter : EncodedProbe + extra <= call.max_bytes
    /\ consumed' = TRUE
    /\ reserved' = reserved + (IF truncated THEN 1 ELSE 0)
    /\ touched' = touched \union {Len(returned_rows)}
    /\ pc' = "respond"
    /\ UNCHANGED << call, next, returned_rows, used_bytes, truncated, initial >>

(* Deliberately wrong: the cursor of the response given up stays stored.   *)
RespondLeavingCursor ==
    /\ pc = "respond"
    /\ \E extra \in 0 .. Jitter :
         IF EncodedResponse + extra <= call.max_bytes
         THEN pc' = "answered" /\ UNCHANGED << returned_rows, truncated >>
         ELSE PopRow
    /\ UNCHANGED << call, next, used_bytes, initial, touched, consumed, reserved >>

Respond ==
    /\ pc = "respond"
    /\ \E extra \in 0 .. Jitter :
         IF EncodedResponse + extra <= call.max_bytes
         THEN /\ pc' = "answered"
              /\ UNCHANGED << returned_rows, truncated, reserved >>
         ELSE /\ PopRow
              /\ reserved' = 0
    /\ UNCHANGED << call, next, used_bytes, initial, touched, consumed >>

Done == pc \in {"answered", "failed"} /\ UNCHANGED vars

Next == \/ SkipRow \/ KeepRow \/ EndScan
        \/ ProbeTooLarge \/ ProbeFits \/ Respond
        \/ Done

Spec == Init /\ [][Next]_vars /\ WF_vars(Next)

-----------------------------------------------------------------------------
(* Properties.                                                             *)

(* The loops compute what Paging says: a page is a prefix of the rows      *)
(* after the offset, of an allowed size, marked truncated exactly when     *)
(* rows are missing; the call fails only when no size could be sent; and   *)
(* the cursor store was touched for the size answered and, before it, for  *)
(* larger ones whose probe may fit, those whose probe cannot fail among    *)
(* them: a try that fails its probe leaves the store alone, and a call     *)
(* that fails has lost its cursor exactly when some probe had fitted.      *)
PageIsAllowed ==
    LET n == Len(returned_rows)
        GivenUpFor(k) == GivenUp(Rest, call.max_rows, call.max_bytes, k)
    IN /\ pc = "answered" =>
            /\ n \in PageSizes(Rest, call.max_rows, call.max_bytes)
            /\ returned_rows = Take(Rest, n)
            /\ truncated = Truncated(Rest, n)
            /\ n \in touched /\ touched \ {n} \in GivenUpFor(n)
       /\ pc = "failed" =>
            /\ MayExceedLimit(Rest, call.max_rows, call.max_bytes)
            /\ touched \in GivenUpFor(-1)
            /\ consumed = (touched # {})

(* A call that ends leaves a cursor in the store exactly when its answer   *)
(* hands that cursor out: the tries given up leave none behind.            *)
NoOrphanCursor ==
    /\ pc = "answered" => (reserved = 1) = truncated
    /\ pc = "failed" => reserved = 0

(* Every call ends, whatever the sizes and the envelope's jitter.          *)
Terminates == <>(pc \in {"answered", "failed"})

(* What the messages of the failing branch promise: a row that cannot be   *)
(* sent within max_bytes ends the query with an error, so every truncated  *)
(* page moves its reader on by at least one row.                           *)
TruncatedPageHasRows ==
    pc = "answered" /\ truncated => returned_rows # << >>
=============================================================================
