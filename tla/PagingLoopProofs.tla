-------------------------- MODULE PagingLoopProofs --------------------------
(***************************************************************************)
(* Proofs about PagingLoop, for tables, rows, sizes and limits of any      *)
(* number: the loops of sql_query compute what Paging says, and leave no   *)
(* cursor behind that is not handed out.                                   *)
(*                                                                         *)
(* The sizes of the pages are sums over sequences, defined by recursion.   *)
(* That the sums exist and grow with the page is shown from the principle  *)
(* of the least natural number.                                            *)
(***************************************************************************)
EXTENDS PagingLoop, SequenceTheorems, WellFoundedInduction, TLAPS

(* The page the loops are at, out of the rows after the offset.            *)
PageSize == Len(returned_rows)
MaxRows == call.max_rows
MaxBytes == call.max_bytes

(* A page is a prefix of the rest.  The sizes tried before the present one *)
(* have been too large, some of them only after the cursor store was       *)
(* touched.                                                                *)
PageOfRest == PageSize \in 0 .. Len(Rest) /\ returned_rows = Take(Rest, PageSize)

Untouched == touched = {} /\ consumed = FALSE /\ reserved = 0

ScanInv ==
    pc = "scan" =>
        /\ Untouched /\ truncated = FALSE
        /\ PageSize = IF next > call.offset THEN next - 1 - call.offset ELSE 0
        /\ used_bytes = ColumnBytes + Bytes(returned_rows)
        /\ PageSize \in Collected(Rest, MaxRows, MaxBytes)

(* The scan collects as many rows as the limits allow.                     *)
ScannedInv ==
    pc # "scan" =>
        /\ initial \in Collected(Rest, MaxRows, MaxBytes)
        /\ \A k \in Collected(Rest, MaxRows, MaxBytes) : k <= initial
        /\ PageSize <= initial
        /\ truncated = Truncated(Rest, PageSize)

(* Every larger size may be too large, by the probe or the response.       *)
LargerOverran(n) ==
    \A k \in Collected(Rest, MaxRows, MaxBytes) : k > n => k \in MayOverrun(Rest, MaxBytes)

TriedInv ==
    LET tried(n) == GivenUp(Rest, MaxRows, MaxBytes, n)
    IN /\ consumed = (touched # {})
       /\ pc = "probe" =>
            touched \in tried(PageSize) /\ LargerOverran(PageSize) /\ reserved = 0
       /\ pc \in {"respond", "answered"} =>
            /\ PageSize \in MayProbe(Rest, MaxRows, MaxBytes) /\ LargerOverran(PageSize)
            /\ PageSize \in touched /\ touched \ {PageSize} \in tried(PageSize)
            /\ reserved = IF truncated THEN 1 ELSE 0
       /\ pc = "answered" => ResponseBytes(Rest, PageSize) <= MaxBytes
       /\ pc = "failed" =>
            touched \in tried(-1) /\ LargerOverran(-1) /\ reserved = 0

PageInv == TypeOK /\ PageOfRest /\ ScanInv /\ ScannedInv /\ TriedInv

-----------------------------------------------------------------------------
(* Sums                                                                    *)

(* A set of naturals has a least element.                                  *)
LEMMA Least ==
    ASSUME NEW S, S \subseteq Nat, S # {}
    PROVE  \E x \in S : \A y \in S : x <= y
  <1>1. IsWellFoundedOn(OpToRel(<, Nat), Nat)
    BY NatLessThanWellFounded
  <1>2. PICK x \in S : \A y \in S : << y, x >> \notin OpToRel(<, Nat)
    BY <1>1, WFMin
  <1>3. \A y \in S : ~(y < x)
    BY <1>2 DEF OpToRel
  <1>. QED  BY <1>3

(* The equation of the function Bytes is defined with.                     *)
Totals(total, rows) ==
    total = [n \in 0 .. Len(rows) |-> IF n = 0 THEN 0 ELSE total[n - 1] + RowBytes[rows[n]]]

LEMMA TotalsType ==
    ASSUME NEW rows \in Seq(Rows), NEW total, Totals(total, rows)
    PROVE  total \in [0 .. Len(rows) -> Nat]
  <1> DEFINE Wrong == {n \in 0 .. Len(rows) : total[n] \notin Nat}
  <1>1. Len(rows) \in Nat /\ \A n \in 1 .. Len(rows) : RowBytes[rows[n]] \in Nat
    BY PagingAssumption
  <1>2. \A n \in 0 .. Len(rows) :
          total[n] = IF n = 0 THEN 0 ELSE total[n - 1] + RowBytes[rows[n]]
    BY DEF Totals
  <1>3. ASSUME Wrong # {} PROVE FALSE
    <2>1. PICK n \in Wrong : \A m \in Wrong : n <= m
      <3>1. Wrong \subseteq Nat
        OBVIOUS
      <3> HIDE DEF Wrong
      <3>. QED  BY <1>3, <3>1, Least
    <2>2. n # 0
      BY <1>1, <1>2, <2>1
    <2>3. n - 1 \in 0 .. Len(rows) /\ n - 1 \notin Wrong
      BY <1>1, <2>1, <2>2
    <2>4. total[n - 1] \in Nat /\ RowBytes[rows[n]] \in Nat
      BY <1>1, <2>2, <2>3
    <2>. QED  BY <1>2, <2>1, <2>2, <2>4
  <1>. QED  BY <1>3 DEF Totals

LEMMA TotalsUnique ==
    ASSUME NEW rows \in Seq(Rows), NEW f, NEW g, Totals(f, rows), Totals(g, rows)
    PROVE  f = g
  <1> DEFINE Wrong == {n \in 0 .. Len(rows) : f[n] # g[n]}
  <1>1. ASSUME Wrong # {} PROVE FALSE
    <2>1. PICK n \in Wrong : \A m \in Wrong : n <= m
      <3>1. Wrong \subseteq Nat
        OBVIOUS
      <3> HIDE DEF Wrong
      <3>. QED  BY <1>1, <3>1, Least
    <2>2. n # 0
      BY <2>1 DEF Totals
    <2>3. n - 1 \in 0 .. Len(rows) /\ n - 1 \notin Wrong
      BY <2>1, <2>2
    <2>. QED  BY <2>1, <2>2, <2>3 DEF Totals
  <1>. QED  BY <1>1 DEF Totals

(* The sums of the rows before extend to one row more.                     *)
LEMMA TotalsExtend ==
    ASSUME NEW rows \in Seq(Rows), NEW row \in Rows, NEW total, Totals(total, rows)
    PROVE  \E more : /\ Totals(more, Append(rows, row))
                     /\ more[Len(rows) + 1] = total[Len(rows)] + RowBytes[row]
  <1> DEFINE n == Len(rows)
             longer == Append(rows, row)
             more == [m \in 0 .. n + 1 |-> IF m = n + 1 THEN total[n] + RowBytes[row] ELSE total[m]]
  <1>1. /\ n \in Nat /\ Len(longer) = n + 1 /\ longer[n + 1] = row
        /\ \A i \in 1 .. n : longer[i] = rows[i]
    BY AppendProperties
  <1>2. more[n + 1] = total[n] + RowBytes[row] /\ \A m \in 0 .. n : more[m] = total[m]
    BY <1>1
  <1>3. \A m \in 0 .. n + 1 :
          more[m] = IF m = 0 THEN 0 ELSE more[m - 1] + RowBytes[longer[m]]
    <2> SUFFICES ASSUME NEW m \in 0 .. n + 1
                 PROVE  more[m] = IF m = 0 THEN 0 ELSE more[m - 1] + RowBytes[longer[m]]
      OBVIOUS
    <2>1. CASE m = n + 1
      BY <1>1, <1>2, <2>1
    <2>2. CASE m \in 0 .. n
      <3>1. total[m] = IF m = 0 THEN 0 ELSE total[m - 1] + RowBytes[rows[m]]
        BY <2>2 DEF Totals
      <3>2. m # 0 => m - 1 \in 0 .. n /\ m \in 1 .. n
        BY <1>1, <2>2
      <3>. QED  BY <1>1, <1>2, <2>2, <3>1, <3>2
    <2>. QED  BY <1>1, <2>1, <2>2
  <1>4. Totals(more, longer)
    BY <1>1, <1>3 DEF Totals
  <1>. QED  BY <1>2, <1>4

LEMMA TotalsExist ==
    ASSUME NEW rows \in Seq(Rows)
    PROVE  \E total : Totals(total, rows)
  <1> DEFINE Wrong == {n \in 0 .. Len(rows) : ~ \E total : Totals(total, Take(rows, n))}
  <1>1. \A n \in 0 .. Len(rows) : Take(rows, n) \in Seq(Rows) /\ Len(Take(rows, n)) = n
    BY SubSeqProperties DEF Take
  <1>2. ASSUME Wrong # {} PROVE FALSE
    <2>1. PICK n \in Wrong : \A m \in Wrong : n <= m
      <3>1. Wrong \subseteq Nat
        OBVIOUS
      <3> HIDE DEF Wrong
      <3>. QED  BY <1>2, <3>1, Least
    <2>2. CASE n = 0
      <3>1. Totals([m \in 0 .. 0 |-> 0], Take(rows, 0))
        BY <1>1 DEF Totals
      <3>. QED  BY <2>1, <2>2, <3>1
    <2>3. CASE n # 0
      <3>1. n \in 1 .. Len(rows) /\ n - 1 \in 0 .. Len(rows) /\ n - 1 \notin Wrong
        BY <2>1, <2>3
      <3>2. PICK total : Totals(total, Take(rows, n - 1))
        BY <3>1
      <3>3. Take(rows, n) = Append(Take(rows, n - 1), rows[n]) /\ rows[n] \in Rows
        <4>1. Take(rows, n) = Take(rows, n - 1) \o << rows[n] >> /\ rows[n] \in Rows
          BY <3>1, SubSeqRecursiveSecond DEF Take
        <4>. QED  BY <1>1, <3>1, <4>1, AppendIsConcat
      <3>4. \E more : Totals(more, Take(rows, n))
        BY <1>1, <3>1, <3>2, <3>3, TotalsExtend
      <3>. QED  BY <2>1, <3>4
    <2>. QED  BY <2>2, <2>3
  <1>3. Take(rows, Len(rows)) = rows
    BY SubSeqFull DEF Take
  <1>. QED  BY <1>1, <1>2, <1>3

LEMMA BytesOfTotals ==
    ASSUME NEW rows \in Seq(Rows), NEW total, Totals(total, rows)
    PROVE  Bytes(rows) = total[Len(rows)] /\ Bytes(rows) \in Nat
  <1> DEFINE chosen == CHOOSE t : Totals(t, rows)
  <1>1. Totals(chosen, rows)
    OBVIOUS
  <1>2. chosen = total
    BY <1>1, TotalsUnique
  <1>3. Bytes(rows) = chosen[Len(rows)]
    BY DEF Bytes, Totals
  <1>. QED  BY <1>2, <1>3, TotalsType

(* Bytes, without recursion: nothing weighs nothing, and a row more weighs *)
(* as much more as the row.                                                *)
LEMMA BytesEmpty == Bytes(<< >>) = 0
  <1>1. Totals([m \in 0 .. 0 |-> 0], << >>)
    BY DEF Totals
  <1>. QED  BY <1>1, BytesOfTotals, EmptySeq

LEMMA BytesAppend ==
    ASSUME NEW rows \in Seq(Rows), NEW row \in Rows
    PROVE  /\ Bytes(rows) \in Nat
           /\ Bytes(Append(rows, row)) = Bytes(rows) + RowBytes[row]
  <1>1. PICK total : Totals(total, rows)
    BY TotalsExist
  <1>2. PICK more : /\ Totals(more, Append(rows, row))
                    /\ more[Len(rows) + 1] = total[Len(rows)] + RowBytes[row]
    BY <1>1, TotalsExtend
  <1>3. Append(rows, row) \in Seq(Rows) /\ Len(Append(rows, row)) = Len(rows) + 1
    BY AppendProperties
  <1>. QED  BY <1>1, <1>2, <1>3, BytesOfTotals

-----------------------------------------------------------------------------
(* Prefixes                                                                *)

LEMMA TakeProperties ==
    ASSUME NEW rows \in Seq(Rows), NEW n \in 0 .. Len(rows)
    PROVE  /\ Take(rows, n) \in Seq(Rows) /\ Len(Take(rows, n)) = n
           /\ \A i \in 1 .. n : Take(rows, n)[i] = rows[i]
  BY SubSeqProperties DEF Take

LEMMA TakeNone ==
    ASSUME NEW rows \in Seq(Rows)
    PROVE  Take(rows, 0) = << >>
  BY TakeProperties, EmptySeq

LEMMA TakeNext ==
    ASSUME NEW rows \in Seq(Rows), NEW n \in 0 .. Len(rows), n < Len(rows)
    PROVE  /\ rows[n + 1] \in Rows
           /\ Append(Take(rows, n), rows[n + 1]) = Take(rows, n + 1)
           /\ Bytes(Take(rows, n + 1)) = Bytes(Take(rows, n)) + RowBytes[rows[n + 1]]
  <1> DEFINE row == rows[n + 1]
  <1>1. row \in Rows /\ n \in Nat /\ n + 1 \in 0 .. Len(rows)
    BY LenProperties
  <1>2. /\ Take(rows, n) \in Seq(Rows) /\ Len(Take(rows, n)) = n
        /\ Take(rows, n + 1) \in Seq(Rows) /\ Len(Take(rows, n + 1)) = n + 1
        /\ \A i \in 1 .. n : Take(rows, n)[i] = Take(rows, n + 1)[i]
        /\ Take(rows, n + 1)[n + 1] = row
    <2>1. /\ Take(rows, n) \in Seq(Rows) /\ Len(Take(rows, n)) = n
          /\ \A i \in 1 .. n : Take(rows, n)[i] = rows[i]
      BY TakeProperties
    <2>2. /\ Take(rows, n + 1) \in Seq(Rows) /\ Len(Take(rows, n + 1)) = n + 1
          /\ \A i \in 1 .. n + 1 : Take(rows, n + 1)[i] = rows[i]
      BY <1>1, TakeProperties
    <2>3. n + 1 \in 1 .. n + 1 /\ \A i \in 1 .. n : i \in 1 .. n + 1
      BY <1>1
    <2>. QED  BY <2>1, <2>2, <2>3
  <1>3. Append(Take(rows, n), row) = Take(rows, n + 1)
    <2>1. /\ Append(Take(rows, n), row) \in Seq(Rows)
          /\ Len(Append(Take(rows, n), row)) = n + 1
          /\ \A i \in 1 .. n : Append(Take(rows, n), row)[i] = Take(rows, n)[i]
          /\ Append(Take(rows, n), row)[n + 1] = row
      BY <1>1, <1>2, AppendProperties
    <2>2. \A i \in 1 .. n + 1 : Append(Take(rows, n), row)[i] = Take(rows, n + 1)[i]
      BY <1>1, <1>2, <2>1
    <2>. QED  BY <1>2, <2>1, <2>2, SeqEqual
  <1>. QED  BY <1>1, <1>2, <1>3, BytesAppend

LEMMA TakePrevious ==
    ASSUME NEW rows \in Seq(Rows), NEW n \in 1 .. Len(rows)
    PROVE  Take(Take(rows, n), n - 1) = Take(rows, n - 1)
  <1>1. /\ n - 1 \in 0 .. Len(rows) /\ n \in 0 .. Len(rows)
        /\ Take(rows, n) \in Seq(Rows) /\ Len(Take(rows, n)) = n
        /\ \A i \in 1 .. n : Take(rows, n)[i] = rows[i]
    <2>1. n - 1 \in 0 .. Len(rows) /\ n \in 0 .. Len(rows)
      BY LenProperties
    <2>. QED  BY <2>1, TakeProperties
  <1>2. /\ Take(Take(rows, n), n - 1) \in Seq(Rows) /\ Len(Take(Take(rows, n), n - 1)) = n - 1
        /\ \A i \in 1 .. n - 1 : Take(Take(rows, n), n - 1)[i] = Take(rows, n)[i]
    BY <1>1, TakeProperties
  <1>3. /\ Take(rows, n - 1) \in Seq(Rows) /\ Len(Take(rows, n - 1)) = n - 1
        /\ \A i \in 1 .. n - 1 : Take(rows, n - 1)[i] = rows[i]
    BY <1>1, TakeProperties
  <1>4. \A i \in 1 .. n - 1 : Take(Take(rows, n), n - 1)[i] = Take(rows, n - 1)[i]
    BY <1>1, <1>2, <1>3
  <1>. QED  BY <1>2, <1>3, <1>4, SeqEqual

LEMMA BytesType ==
    ASSUME NEW rows \in Seq(Rows), NEW n \in 0 .. Len(rows)
    PROVE  Bytes(Take(rows, n)) \in Nat
  BY TakeProperties, TotalsExist, BytesOfTotals

(* A longer page weighs no less.                                           *)
LEMMA BytesGrow ==
    ASSUME NEW rows \in Seq(Rows), NEW k \in 0 .. Len(rows), NEW n \in k .. Len(rows)
    PROVE  Bytes(Take(rows, k)) <= Bytes(Take(rows, n))
  <1> DEFINE Wrong == {m \in k .. Len(rows) : ~(Bytes(Take(rows, k)) <= Bytes(Take(rows, m)))}
  <1>1. Len(rows) \in Nat /\ \A m \in 0 .. Len(rows) : Bytes(Take(rows, m)) \in Nat
    BY BytesType
  <1>2. ASSUME Wrong # {} PROVE FALSE
    <2>1. PICK m \in Wrong : \A l \in Wrong : m <= l
      <3>1. Wrong \subseteq Nat
        BY <1>1
      <3> HIDE DEF Wrong
      <3>. QED  BY <1>2, <3>1, Least
    <2>2. m # k /\ m - 1 \in k .. Len(rows) /\ m - 1 \notin Wrong /\ m - 1 \in 0 .. Len(rows)
      BY <1>1, <2>1
    <2>3. /\ rows[m] \in Rows
          /\ Bytes(Take(rows, m)) = Bytes(Take(rows, m - 1)) + RowBytes[rows[m]]
      <3>1. (m - 1) + 1 = m /\ m - 1 < Len(rows)
        BY <2>1, <1>1
      <3>. QED  BY <2>2, <3>1, TakeNext
    <2>4. RowBytes[rows[m]] \in Nat
      BY <2>3, PagingAssumption
    <2>. QED  BY <1>1, <2>1, <2>2, <2>3, <2>4
  <1>. QED  BY <1>1, <1>2

-----------------------------------------------------------------------------
(* What the scan may collect                                               *)

(* Fewer rows can be collected whenever more can.                          *)
LEMMA CollectedDownwards ==
    ASSUME NEW rest \in Seq(Rows), NEW max_rows \in Nat, NEW max_bytes \in Nat,
           NEW n \in Collected(rest, max_rows, max_bytes), NEW k \in 0 .. n
    PROVE  k \in Collected(rest, max_rows, max_bytes)
  <1>1. /\ n \in 0 .. Len(rest) /\ Len(rest) \in Nat /\ k \in 0 .. Len(rest) /\ n \in k .. Len(rest)
        /\ n > 0 => n <= max_rows /\ ColumnBytes + Bytes(Take(rest, n)) <= max_bytes
    BY DEF Collected
  <1>2. /\ Bytes(Take(rest, k)) <= Bytes(Take(rest, n))
        /\ Bytes(Take(rest, k)) \in Nat /\ Bytes(Take(rest, n)) \in Nat
    BY <1>1, BytesGrow, BytesType
  <1>. QED  BY <1>1, <1>2, PagingAssumption DEF Collected

(* With one row more too many, so is every larger number.                  *)
LEMMA CollectedAtMost ==
    ASSUME NEW rest \in Seq(Rows), NEW max_rows \in Nat, NEW max_bytes \in Nat,
           NEW n \in 0 .. Len(rest), n + 1 \notin Collected(rest, max_rows, max_bytes),
           NEW k \in Collected(rest, max_rows, max_bytes)
    PROVE  k <= n
  <1>1. k \in Nat /\ n \in Nat
    BY DEF Collected
  <1>2. CASE k > n
    <2>1. n + 1 \in 0 .. k
      BY <1>1, <1>2
    <2>. QED  BY <2>1, CollectedDownwards
  <1>. QED  BY <1>1, <1>2

-----------------------------------------------------------------------------
(* The invariant                                                           *)

(* The call, and the rows after its offset.                                *)
LEMMA CallTypes ==
    ASSUME call \in Calls
    PROVE  /\ call.table \in Seq(Rows) /\ Len(call.table) \in Nat
           /\ call.offset \in Nat
           /\ MaxRows \in Nat \ {0} /\ MaxBytes \in Nat \ {0}
           /\ Rest \in Seq(Rows)
           /\ Len(Rest) = IF call.offset < Len(call.table) THEN Len(call.table) - call.offset ELSE 0
           /\ Len(Rest) \in 0 .. Len(call.table)
           /\ \A i \in 1 .. Len(Rest) : Rest[i] = call.table[call.offset + i]
  <1>1. /\ call.table \in Seq(Rows) /\ Len(call.table) \in Nat
        /\ call.offset \in Nat
        /\ MaxRows \in Nat \ {0} /\ MaxBytes \in Nat \ {0}
    BY PagingLoopAssumption DEF Calls, MaxRows, MaxBytes
  <1>2. \A i \in call.offset + 1 .. Len(call.table) : call.table[i] \in Rows
    BY <1>1
  <1>3. /\ Rest \in Seq(Rows)
        /\ Len(Rest) = IF call.offset + 1 <= Len(call.table)
                       THEN Len(call.table) - (call.offset + 1) + 1 ELSE 0
        /\ \A i \in 1 .. Len(call.table) - (call.offset + 1) + 1 :
             Rest[i] = call.table[call.offset + 1 + i - 1]
    <2> DEFINE table == call.table
               m == call.offset + 1
               n == Len(call.table)
    <2>1. m \in Int /\ n \in Int /\ \A i \in m .. n : table[i] \in Rows
      BY <1>1, <1>2
    <2>2. Rest = SubSeq(table, m, n)
      BY DEF Rest, Drop
    <2> HIDE DEF table, m, n
    <2>3. /\ SubSeq(table, m, n) \in Seq(Rows)
          /\ Len(SubSeq(table, m, n)) = IF m <= n THEN n - m + 1 ELSE 0
          /\ \A i \in 1 .. n - m + 1 : SubSeq(table, m, n)[i] = table[m + i - 1]
      BY <2>1, SubSeqProperties
    <2>. QED  BY <2>2, <2>3 DEF table, m, n
  <1> DEFINE n == Len(call.table)
             k == call.offset
  <1>4. n \in Nat /\ k \in Nat
    BY <1>1
  <1>5. Len(Rest) = (IF k < n THEN n - k ELSE 0) /\ Len(Rest) \in 0 .. n
    <2>1. Len(Rest) = IF k + 1 <= n THEN n - (k + 1) + 1 ELSE 0
      BY <1>3
    <2> HIDE DEF n, k
    <2>. QED  BY <1>4, <2>1
  <1>6. \A i \in 1 .. Len(Rest) : Rest[i] = call.table[k + i]
    <2>1. \A i \in 1 .. n - (k + 1) + 1 : Rest[i] = call.table[k + 1 + i - 1]
      BY <1>3
    <2> HIDE DEF n, k
    <2>2. ASSUME NEW i \in 1 .. Len(Rest) PROVE Rest[i] = call.table[k + i]
      <3>1. i \in 1 .. n - (k + 1) + 1 /\ k + 1 + i - 1 = k + i
        BY <1>4, <1>5
      <3>. QED  BY <2>1, <3>1
    <2>. QED  BY <2>2
  <1>. QED  BY <1>1, <1>3, <1>5, <1>6

LEMMA InitPage == Init => PageInv
  <1>. SUFFICES ASSUME Init PROVE PageInv
    OBVIOUS
  <1>1. call \in Calls
    BY DEF Init
  <1>2. TypeOK
    <2>1. /\ next \in 1 .. (Len(call.table) + 1) /\ 0 \in 0 .. Len(call.table)
          /\ << >> \in Seq(Rows) /\ ColumnBytes \in Nat
      BY <1>1, CallTypes, PagingAssumption DEF Init
    <2>2. /\ pc \in {"scan", "probe", "respond", "answered", "failed"}
          /\ touched \subseteq 0 .. Len(call.table)
          /\ truncated \in BOOLEAN /\ consumed \in BOOLEAN
      BY Zenon DEF Init
    <2>3. reserved \in 0 .. 1
      BY DEF Init
    <2>4. /\ returned_rows = << >> /\ used_bytes = ColumnBytes /\ initial = 0
      BY DEF Init
    <2>. QED  BY <1>1, <2>1, <2>2, <2>3, <2>4 DEF TypeOK
  <1>3. PageOfRest
    BY <1>1, CallTypes, TakeNone DEF Init, PageOfRest, PageSize
  <1>4. ScanInv
    BY <1>1, CallTypes, BytesEmpty, PagingAssumption
    DEF Init, ScanInv, Untouched, PageSize, Collected
  <1>. QED  BY <1>2, <1>3, <1>4 DEF Init, PageInv, ScannedInv, TriedInv

LEMMA SkipInv ==
    ASSUME PageInv, SkipRow
    PROVE  PageInv'
  <1>1. /\ next' = next + 1 /\ next <= Len(call.table) /\ next <= call.offset /\ pc = "scan"
        /\ UNCHANGED << call, pc, returned_rows, used_bytes, truncated, initial,
                        touched, consumed, reserved >>
    BY DEF SkipRow
  <1>2. next \in Nat /\ call \in Calls
    BY CallTypes DEF PageInv, TypeOK
  <1>3. TypeOK'
    BY <1>1, <1>2, CallTypes DEF PageInv, TypeOK
  <1>4. PageOfRest' /\ ScannedInv' /\ TriedInv'
    BY <1>1 DEF PageInv, PageOfRest, PageSize, Rest, ScannedInv, TriedInv, MaxRows, MaxBytes
  <1>5. ScanInv'
    BY <1>1, <1>2, CallTypes DEF PageInv, ScanInv, Untouched, PageSize, Rest, MaxRows, MaxBytes
  <1>. QED  BY <1>3, <1>4, <1>5 DEF PageInv

(* The scan between two rows: the next row is the one after the page.      *)
LEMMA NextRow ==
    ASSUME PageInv, pc = "scan", next > call.offset
    PROVE  /\ PageSize = next - 1 - call.offset /\ PageSize \in Nat
           /\ next <= Len(call.table) <=> PageSize < Len(Rest)
           /\ PageSize < Len(Rest) => Rest[PageSize + 1] = call.table[next]
  <1>1. /\ next \in 1 .. (Len(call.table) + 1) /\ call \in Calls
        /\ PageSize = next - 1 - call.offset /\ PageSize \in 0 .. Len(Rest)
    BY DEF PageInv, TypeOK, ScanInv, PageOfRest
  <1>2. next <= Len(call.table) <=> PageSize < Len(Rest)
    BY <1>1, CallTypes
  <1>3. PageSize < Len(Rest) => Rest[PageSize + 1] = call.table[next]
    <2>1. PageSize < Len(Rest) => PageSize + 1 \in 1 .. Len(Rest) /\ call.offset + (PageSize + 1) = next
      BY <1>1, CallTypes
    <2>. QED  BY <1>1, <2>1, CallTypes
  <1>. QED  BY <1>1, <1>2, <1>3

LEMMA KeepInv ==
    ASSUME PageInv, KeepRow
    PROVE  PageInv'
  <1> DEFINE row == Rest[PageSize + 1]
  <1>1. call \in Calls /\ next \in 1 .. (Len(call.table) + 1) /\ used_bytes \in Nat
    BY DEF PageInv, TypeOK
  <1>2. /\ PageSize = next - 1 - call.offset /\ PageSize \in Nat /\ PageSize < Len(Rest)
        /\ row = call.table[next]
    BY NextRow DEF KeepRow
  <1>3. /\ returned_rows' = Append(returned_rows, row)
        /\ used_bytes' = used_bytes + RowBytes[row]
        /\ next' = next + 1 /\ next <= Len(call.table) /\ next > call.offset /\ pc = "scan"
        /\ PageSize < MaxRows /\ used_bytes + RowBytes[row] <= MaxBytes
        /\ UNCHANGED << call, pc, truncated, initial, touched, consumed, reserved >>
    BY <1>2 DEF KeepRow, RowFits, PageSize, MaxRows, MaxBytes
  <1>4. UNCHANGED << Rest, MaxRows, MaxBytes >>
    BY <1>3 DEF Rest, MaxRows, MaxBytes
  <1>5. /\ row \in Rows /\ returned_rows' = Take(Rest, PageSize + 1)
        /\ Bytes(returned_rows') = Bytes(returned_rows) + RowBytes[row]
    BY <1>1, <1>2, <1>3, CallTypes, TakeNext DEF PageInv, PageOfRest
  <1>6. PageSize + 1 \in 0 .. Len(Rest)
    BY <1>1, <1>2, CallTypes
  <1>7. PageSize' = PageSize + 1 /\ returned_rows' \in Seq(Rows)
    BY <1>1, <1>5, <1>6, CallTypes, TakeProperties DEF PageSize
  <1>8. used_bytes' \in Nat
    BY <1>1, <1>3, <1>5, PagingAssumption
  <1>9. TypeOK'
    <2>1. next' \in 1 .. (Len(call.table) + 1)
      BY <1>1, <1>3, CallTypes
    <2>. QED  BY <1>3, <1>7, <1>8, <2>1 DEF PageInv, TypeOK
  <1>10. PageOfRest'
    BY <1>4, <1>5, <1>6, <1>7 DEF PageOfRest
  <1>11. used_bytes' = ColumnBytes + Bytes(returned_rows')
    <2>1. used_bytes = ColumnBytes + Bytes(returned_rows) /\ Bytes(returned_rows) \in Nat
      BY <1>1, <1>3, CallTypes, BytesType DEF PageInv, ScanInv, PageOfRest
    <2>. QED  BY <1>3, <1>5, <2>1, PagingAssumption
  <1>12. PageSize' \in Collected(Rest, MaxRows, MaxBytes)
    BY <1>1, <1>2, <1>3, <1>5, <1>6, <1>7, <1>11, CallTypes DEF Collected
  <1>13. ScanInv'
    <2>1. Untouched' /\ truncated' = FALSE
      BY <1>3 DEF PageInv, ScanInv, Untouched
    <2>2. PageSize' = IF next' > call'.offset THEN next' - 1 - call'.offset ELSE 0
      <3>1. call.offset \in Nat /\ next \in Nat
        BY <1>1, CallTypes
      <3>2. /\ next' = next + 1 /\ next > call.offset /\ call' = call
            /\ PageSize' = next - 1 - call.offset + 1
        BY <1>2, <1>3, <1>7
      <3>. QED  BY <3>1, <3>2
    <2>3. PageSize' \in Collected(Rest', MaxRows', MaxBytes')
      BY <1>4, <1>12
    <2>. QED  BY <1>11, <2>1, <2>2, <2>3 DEF ScanInv
  <1>14. ScannedInv' /\ TriedInv'
    BY <1>3 DEF PageInv, ScannedInv, TriedInv
  <1>. QED  BY <1>9, <1>10, <1>13, <1>14 DEF PageInv

(* The scan ends when no row more can be collected.                        *)
LEMMA EndScanInv ==
    ASSUME PageInv, EndScan
    PROVE  PageInv'
  <1>1. /\ call \in Calls /\ next \in 1 .. (Len(call.table) + 1) /\ used_bytes \in Nat
        /\ PageSize \in 0 .. Len(Rest)
    BY DEF PageInv, TypeOK, PageOfRest
  <1>2. /\ pc = "scan" /\ pc' = "probe" /\ initial' = PageSize
        /\ UNCHANGED << call, next, returned_rows, used_bytes, touched, consumed, reserved >>
    BY DEF EndScan, PageSize
  <1>3. UNCHANGED << Rest, MaxRows, MaxBytes, PageSize >>
    BY <1>2 DEF Rest, MaxRows, MaxBytes, PageSize
  <1>4. /\ PageSize \in Collected(Rest, MaxRows, MaxBytes) /\ Untouched /\ truncated = FALSE
        /\ used_bytes = ColumnBytes + Bytes(Take(Rest, PageSize))
    BY <1>2 DEF PageInv, ScanInv, PageOfRest
  <1>5. \/ PageSize = Len(Rest) /\ truncated' = FALSE
        \/ /\ PageSize < Len(Rest) /\ truncated' = TRUE
           /\ ~(PageSize < MaxRows /\ used_bytes + RowBytes[Rest[PageSize + 1]] <= MaxBytes)
    <2>1. CASE next > Len(call.table) /\ UNCHANGED truncated
      <3>1. CASE next > call.offset
        BY <1>1, <1>2, <1>4, <2>1, <3>1, NextRow, CallTypes
      <3>2. CASE ~(next > call.offset)
        BY <1>1, <1>2, <1>4, <2>1, <3>2, CallTypes DEF PageInv, ScanInv
      <3>. QED  BY <3>1, <3>2
    <2>2. CASE next <= Len(call.table) /\ next > call.offset /\ ~RowFits /\ truncated' = TRUE
      BY <1>1, <1>2, <2>2, NextRow, CallTypes DEF RowFits, PageSize, MaxRows, MaxBytes
    <2>. QED  BY <2>1, <2>2 DEF EndScan
  <1>6. PageSize + 1 \notin Collected(Rest, MaxRows, MaxBytes)
    <2>1. CASE PageSize = Len(Rest)
      BY <1>1, <2>1 DEF Collected
    <2>2. CASE /\ PageSize < Len(Rest)
               /\ ~(PageSize < MaxRows /\ used_bytes + RowBytes[Rest[PageSize + 1]] <= MaxBytes)
      <3>1. /\ Rest[PageSize + 1] \in Rows
            /\ Bytes(Take(Rest, PageSize + 1)) = Bytes(Take(Rest, PageSize)) + RowBytes[Rest[PageSize + 1]]
        BY <1>1, <2>2, CallTypes, TakeNext
      <3>2. Bytes(Take(Rest, PageSize)) \in Nat /\ RowBytes[Rest[PageSize + 1]] \in Nat
        BY <1>1, <3>1, CallTypes, BytesType, PagingAssumption
      <3>3. ColumnBytes \in Nat /\ MaxRows \in Nat /\ MaxBytes \in Nat /\ PageSize \in Nat
        BY <1>1, CallTypes, PagingAssumption
      <3>4. ~ /\ PageSize + 1 <= MaxRows
              /\ ColumnBytes + Bytes(Take(Rest, PageSize + 1)) <= MaxBytes
        BY <1>4, <2>2, <3>1, <3>2, <3>3
      <3>. QED  BY <3>3, <3>4 DEF Collected
    <2>. QED  BY <1>5, <2>1, <2>2
  <1>7. \A k \in Collected(Rest, MaxRows, MaxBytes) : k <= PageSize
    BY <1>1, <1>6, CallTypes, CollectedAtMost
  <1>8. ScannedInv'
    <2>1. PageSize \in Nat /\ Len(Rest) \in Nat
      BY <1>1, CallTypes
    <2>2. truncated' = (PageSize < Len(Rest))
      <3>1. CASE PageSize = Len(Rest) /\ truncated' = FALSE
        <4>1. (PageSize < Len(Rest)) = FALSE
          BY <2>1, <3>1
        <4>. QED  BY <3>1, <4>1
      <3>2. CASE PageSize < Len(Rest) /\ truncated' = TRUE
        BY <3>2
      <3>. QED  BY <1>5, <3>1, <3>2
    <2>3. PageSize <= PageSize
      BY <2>1
    <2>. QED  BY <1>2, <1>3, <1>4, <1>7, <2>2, <2>3 DEF ScannedInv, Truncated
  <1>9. TriedInv'
    <2>1. /\ PageSize \in Nat
          /\ \A k \in Collected(Rest, MaxRows, MaxBytes) : k \in Nat /\ ~(k > PageSize)
      BY <1>1, <1>7 DEF Collected
    <2>2. LargerOverran(PageSize)
      BY <2>1 DEF LargerOverran
    <2>3. {} \in GivenUp(Rest, MaxRows, MaxBytes, PageSize)
      BY <2>1 DEF GivenUp, MayProbe, MustProbe
    <2>4. LargerOverran(PageSize)'
      BY <1>3, <2>2 DEF LargerOverran
    <2>. QED  BY <1>2, <1>3, <1>4, <2>3, <2>4 DEF TriedInv, Untouched
  <1>10. TypeOK'
    <2>1. PageSize \in 0 .. Len(call.table)
      BY <1>1, CallTypes
    <2>2. truncated' \in BOOLEAN
      BY <1>5
    <2>3. pc' \in {"scan", "probe", "respond", "answered", "failed"}
      BY <1>2
    <2>. QED  BY <1>2, <2>1, <2>2, <2>3 DEF PageInv, TypeOK
  <1>11. PageOfRest' /\ ScanInv'
    BY <1>2, <1>3 DEF PageInv, PageOfRest, ScanInv
  <1>. QED  BY <1>8, <1>9, <1>10, <1>11 DEF PageInv

(* What the code measures are the bytes of probe and response.             *)
LEMMA EncodedPage ==
    ASSUME PageInv, pc # "scan"
    PROVE  /\ EncodedProbe = ProbeBytes(Rest, PageSize) /\ EncodedProbe \in Nat
           /\ EncodedResponse = ResponseBytes(Rest, PageSize) /\ EncodedResponse \in Nat
           /\ EncodedProbe <= EncodedResponse
           /\ PageSize \in Collected(Rest, MaxRows, MaxBytes)
           /\ PageSize \in Nat /\ PageSize <= Len(Rest)
           /\ call \in Calls
  <1>1. /\ PageSize \in 0 .. Len(Rest) /\ returned_rows = Take(Rest, PageSize)
        /\ truncated = Truncated(Rest, PageSize) /\ PageSize <= initial
        /\ initial \in Collected(Rest, MaxRows, MaxBytes) /\ call \in Calls
    BY DEF PageInv, PageOfRest, ScannedInv, TypeOK
  <1>2. /\ EncodedProbe = ProbeBytes(Rest, PageSize)
        /\ EncodedResponse = ResponseBytes(Rest, PageSize)
    BY <1>1 DEF EncodedProbe, EncodedResponse, ProbeBytes, ResponseBytes
  <1>3. EncodedProbe \in Nat
    <2>1. Bytes(returned_rows) \in Nat
      BY <1>1, CallTypes, BytesType
    <2>. QED  BY <2>1, PagingAssumption DEF EncodedProbe
  <1>4. EncodedResponse \in Nat /\ EncodedProbe <= EncodedResponse
    BY <1>3, PagingAssumption DEF EncodedResponse
  <1>5. PageSize \in Collected(Rest, MaxRows, MaxBytes)
    <2>1. PageSize \in 0 .. initial
      BY <1>1 DEF Collected
    <2>. QED  BY <1>1, <2>1, CallTypes, CollectedDownwards
  <1>. QED  BY <1>1, <1>2, <1>3, <1>4, <1>5, CallTypes

(* A row is dropped: the next size below, or the end when there is none.   *)
LEMMA PopPage ==
    ASSUME PageInv, pc # "scan", PopRow, UNCHANGED call
    PROVE  /\ UNCHANGED << Rest, MaxRows, MaxBytes >>
           /\ \/ /\ PageSize = 0 /\ pc' = "failed"
                 /\ UNCHANGED << returned_rows, truncated, PageSize >>
              \/ /\ PageSize > 0 /\ pc' = "probe" /\ truncated' = TRUE
                 /\ PageSize' = PageSize - 1 /\ returned_rows' = Take(Rest, PageSize')
           /\ returned_rows' \in Seq(Rows) /\ truncated' \in BOOLEAN
           /\ PageOfRest' /\ truncated' = Truncated(Rest, PageSize') /\ PageSize' <= PageSize
  <1>1. UNCHANGED << Rest, MaxRows, MaxBytes >>
    BY DEF Rest, MaxRows, MaxBytes
  <1>2. /\ PageSize \in 0 .. Len(Rest) /\ returned_rows = Take(Rest, PageSize)
        /\ truncated = Truncated(Rest, PageSize) /\ returned_rows \in Seq(Rows)
        /\ truncated \in BOOLEAN /\ Rest \in Seq(Rows) /\ Len(Rest) \in Nat
    BY CallTypes DEF PageInv, PageOfRest, ScannedInv, TypeOK
  <1>3. CASE returned_rows = << >>
    <2>1. PageSize = 0 /\ pc' = "failed" /\ UNCHANGED << returned_rows, truncated >>
      BY <1>3 DEF PopRow, PageSize
    <2>2. UNCHANGED PageSize
      BY <2>1 DEF PageSize
    <2>. QED  BY <1>1, <1>2, <2>1, <2>2 DEF PageOfRest
  <1>4. CASE returned_rows # << >>
    <2>1. PageSize # 0
      BY <1>2, <1>4, EmptySeq DEF PageSize
    <2>2. PageSize \in 1 .. Len(Rest) /\ PageSize - 1 \in 0 .. Len(Rest)
      BY <1>2, <2>1
    <2>3. /\ pc' = "probe" /\ truncated' = TRUE
          /\ returned_rows' = Take(returned_rows, PageSize - 1)
      BY <1>4 DEF PopRow, PageSize
    <2>4. returned_rows' = Take(Rest, PageSize - 1)
      BY <1>2, <2>2, <2>3, TakePrevious
    <2>5. returned_rows' \in Seq(Rows) /\ PageSize' = PageSize - 1
      BY <1>2, <2>2, <2>4, TakeProperties DEF PageSize
    <2>6. (PageSize - 1 < Len(Rest)) = TRUE /\ PageSize > 0 /\ PageSize - 1 <= PageSize
      BY <1>2, <2>2
    <2>. QED  BY <1>1, <2>2, <2>3, <2>4, <2>5, <2>6 DEF PageOfRest, Truncated
  <1>. QED  BY <1>3, <1>4

(* What has been tried, one size further down: the store was touched for   *)
(* the size just given up, or was not and need not have been.              *)
LEMMA GivenUpNext ==
    ASSUME NEW rest, NEW max_rows, NEW max_bytes, NEW n \in Nat, NEW tried,
           \/ /\ tried \in GivenUp(rest, max_rows, max_bytes, n)
              /\ n \notin MustProbe(rest, max_rows, max_bytes)
           \/ /\ n \in MayProbe(rest, max_rows, max_bytes) /\ n \in tried
              /\ tried \ {n} \in GivenUp(rest, max_rows, max_bytes, n)
    PROVE  tried \in GivenUp(rest, max_rows, max_bytes, n - 1)
  <1> DEFINE may == MayProbe(rest, max_rows, max_bytes)
             must == MustProbe(rest, max_rows, max_bytes)
             larger(sizes, m) == {k \in sizes : k > m}
  <1>1. \A k \in may \union must : k \in Nat
    BY DEF MayProbe, MustProbe, Collected
  <1>2. \A m, t : /\ t \in GivenUp(rest, max_rows, max_bytes, m)
                     <=> t \subseteq larger(may, m) /\ larger(must, m) \subseteq t
    BY DEF GivenUp
  <1>3. \A k \in Nat : k > n - 1 <=> k > n \/ k = n
    OBVIOUS
  <1> HIDE DEF may, must
  <1>4. CASE /\ tried \in GivenUp(rest, max_rows, max_bytes, n) /\ n \notin must
    <2>1. tried \subseteq larger(may, n) /\ larger(must, n) \subseteq tried
      BY <1>2, <1>4
    <2>2. larger(may, n) \subseteq larger(may, n - 1) /\ larger(must, n - 1) = larger(must, n)
      BY <1>1, <1>3, <1>4
    <2>3. tried \subseteq larger(may, n - 1) /\ larger(must, n - 1) \subseteq tried
      BY <2>1, <2>2
    <2>. QED  BY <1>2, <2>3
  <1>5. CASE n \in may /\ n \in tried /\ tried \ {n} \in GivenUp(rest, max_rows, max_bytes, n)
    <2>1. tried \ {n} \subseteq larger(may, n) /\ larger(must, n) \subseteq tried \ {n}
      BY <1>2, <1>5
    <2>2. n \in larger(may, n - 1) /\ larger(may, n) \subseteq larger(may, n - 1)
      BY <1>1, <1>3, <1>5
    <2>3. larger(must, n - 1) \subseteq larger(must, n) \union {n}
      BY <1>1, <1>3
    <2>4. tried \subseteq larger(may, n - 1) /\ larger(must, n - 1) \subseteq tried
      BY <1>5, <2>1, <2>2, <2>3
    <2>. QED  BY <1>2, <2>4
  <1>. QED  BY <1>4, <1>5 DEF may, must

LEMMA OverranNext ==
    ASSUME NEW n \in Nat, LargerOverran(n), n \in MayOverrun(Rest, MaxBytes)
    PROVE  LargerOverran(n - 1)
  <1>1. \A k \in Collected(Rest, MaxRows, MaxBytes) : k \in Nat
    BY DEF Collected
  <1>2. \A k \in Nat : k > n - 1 => k > n \/ k = n
    OBVIOUS
  <1>. QED  BY <1>1, <1>2 DEF LargerOverran

(* What remains of the invariant when a row is dropped.                    *)
LEMMA PopInv ==
    ASSUME PageInv, pc # "scan", PopRow,
           UNCHANGED << call, next, used_bytes, initial, touched, consumed >>,
           reserved' = 0, PageSize \in MayOverrun(Rest, MaxBytes), LargerOverran(PageSize),
           touched \in GivenUp(Rest, MaxRows, MaxBytes, PageSize - 1)
    PROVE  PageInv'
  <1>1. PageSize \in Nat /\ call \in Calls /\ PageSize <= Len(Rest)
    BY EncodedPage
  <1>2. /\ UNCHANGED << Rest, MaxRows, MaxBytes >>
        /\ returned_rows' \in Seq(Rows) /\ truncated' \in BOOLEAN
        /\ PageOfRest' /\ truncated' = Truncated(Rest, PageSize') /\ PageSize' <= PageSize
        /\ PageSize' \in Nat
    BY <1>1, PopPage DEF PageOfRest
  <1>3. \/ PageSize = 0 /\ pc' = "failed"
        \/ PageSize > 0 /\ pc' = "probe" /\ PageSize' = PageSize - 1
    BY PopPage
  <1>4. TypeOK'
    <2>1. pc' \in {"scan", "probe", "respond", "answered", "failed"}
      BY <1>3
    <2>2. reserved' \in 0 .. 1
      OBVIOUS
    <2>. QED  BY <1>2, <2>1, <2>2 DEF PageInv, TypeOK
  <1>5. ScanInv'
    BY <1>3 DEF ScanInv
  <1>6. ScannedInv'
    <2>1. /\ initial \in Collected(Rest, MaxRows, MaxBytes) /\ initial \in Nat
          /\ \A k \in Collected(Rest, MaxRows, MaxBytes) : k <= initial
          /\ PageSize <= initial
      BY DEF PageInv, ScannedInv, Collected
    <2>2. PageSize' <= initial
      BY <1>1, <1>2, <2>1
    <2>. QED  BY <1>2, <2>1, <2>2 DEF ScannedInv
  <1>7. TriedInv'
    <2>1. LargerOverran(PageSize - 1)
      BY <1>1, OverranNext
    <2>2. \A n : LargerOverran(n)' <=> LargerOverran(n)
      BY <1>2 DEF LargerOverran
    <2>3. consumed' = (touched' # {})
      BY DEF PageInv, TriedInv
    <2>4. CASE PageSize = 0 /\ pc' = "failed"
      <3>1. PageSize - 1 = -1
        BY <2>4
      <3>2. LargerOverran(-1)'
        <4>1. \A k \in Collected(Rest, MaxRows, MaxBytes) : k > -1 => k \in MayOverrun(Rest, MaxBytes)
          BY <2>1, <3>1 DEF LargerOverran
        <4>. QED  BY <1>2, <4>1 DEF LargerOverran
      <3>3. touched' \in GivenUp(Rest', MaxRows', MaxBytes', -1)
        BY <1>2, <3>1
      <3>. QED  BY <2>3, <2>4, <3>2, <3>3 DEF TriedInv
    <2>5. CASE pc' = "probe" /\ PageSize' = PageSize - 1
      <3>1. LargerOverran(PageSize)'
        <4>1. \A k \in Collected(Rest, MaxRows, MaxBytes) :
                 k > PageSize' => k \in MayOverrun(Rest, MaxBytes)
          BY <2>1, <2>5 DEF LargerOverran
        <4>. QED  BY <1>2, <4>1 DEF LargerOverran
      <3>2. touched' \in GivenUp(Rest', MaxRows', MaxBytes', PageSize')
        BY <1>2, <2>5
      <3>. QED  BY <2>3, <2>5, <3>1, <3>2 DEF TriedInv
    <2>. QED  BY <1>3, <2>4, <2>5
  <1>. QED  BY <1>2, <1>4, <1>5, <1>6, <1>7 DEF PageInv

LEMMA ProbeTooLargeInv ==
    ASSUME PageInv, ProbeTooLarge
    PROVE  PageInv'
  <1>1. PICK extra \in 0 .. Jitter : EncodedProbe + extra > MaxBytes
    BY DEF ProbeTooLarge, MaxBytes
  <1>2. /\ pc = "probe" /\ PopRow
        /\ UNCHANGED << call, next, used_bytes, initial, touched, consumed, reserved >>
    BY DEF ProbeTooLarge
  <1>3. /\ EncodedProbe = ProbeBytes(Rest, PageSize) /\ EncodedProbe \in Nat /\ MaxBytes \in Nat
        /\ EncodedResponse = ResponseBytes(Rest, PageSize) /\ EncodedResponse \in Nat
        /\ EncodedProbe <= EncodedResponse
        /\ PageSize \in Nat /\ PageSize <= Len(Rest) /\ call \in Calls
    BY <1>2, EncodedPage, CallTypes
  <1>4. Jitter \in Nat
    BY PagingAssumption
  <1>5. EncodedProbe + Jitter > MaxBytes /\ EncodedResponse + Jitter > MaxBytes
    BY <1>1, <1>3, <1>4
  <1>6. PageSize \notin MustProbe(Rest, MaxRows, MaxBytes)
    BY <1>3, <1>4, <1>5 DEF MustProbe
  <1>7. PageSize \in MayOverrun(Rest, MaxBytes)
    <2>1. PageSize \in 0 .. Len(Rest)
      BY <1>3, CallTypes
    <2>. QED  BY <1>3, <1>5, <2>1 DEF MayOverrun
  <1>8. /\ touched \in GivenUp(Rest, MaxRows, MaxBytes, PageSize)
        /\ LargerOverran(PageSize) /\ reserved = 0
    BY <1>2 DEF PageInv, TriedInv
  <1>9. touched \in GivenUp(Rest, MaxRows, MaxBytes, PageSize - 1)
    BY <1>3, <1>6, <1>8, GivenUpNext
  <1>. QED  BY <1>2, <1>7, <1>8, <1>9, PopInv

LEMMA ProbeFitsInv ==
    ASSUME PageInv, ProbeFits
    PROVE  PageInv'
  <1>1. PICK extra \in 0 .. Jitter : EncodedProbe + extra <= MaxBytes
    BY DEF ProbeFits, MaxBytes
  <1>2. /\ pc = "probe" /\ pc' = "respond"
        /\ consumed' = TRUE /\ reserved' = reserved + (IF truncated THEN 1 ELSE 0)
        /\ touched' = touched \union {PageSize}
        /\ UNCHANGED << call, next, returned_rows, used_bytes, truncated, initial >>
    BY DEF ProbeFits, PageSize
  <1>3. UNCHANGED << Rest, MaxRows, MaxBytes, PageSize >>
    BY <1>2 DEF Rest, MaxRows, MaxBytes, PageSize
  <1>4. PageSize \in MayProbe(Rest, MaxRows, MaxBytes) /\ PageSize \in 0 .. Len(call.table)
    <2>1. /\ EncodedProbe = ProbeBytes(Rest, PageSize) /\ EncodedProbe \in Nat
          /\ PageSize \in Collected(Rest, MaxRows, MaxBytes)
          /\ PageSize \in Nat /\ PageSize <= Len(Rest) /\ call \in Calls
      BY <1>2, EncodedPage
    <2>2. EncodedProbe <= MaxBytes
      BY <1>1, <2>1, CallTypes, PagingAssumption
    <2>. QED  BY <2>1, <2>2, CallTypes DEF MayProbe
  <1>5. /\ touched \in GivenUp(Rest, MaxRows, MaxBytes, PageSize)
        /\ LargerOverran(PageSize) /\ reserved = 0
    BY <1>2 DEF PageInv, TriedInv
  <1>6. PageSize \in touched' /\ touched' \ {PageSize} = touched
    <2>1. \A k \in touched : k > PageSize
      BY <1>5 DEF GivenUp
    <2>2. PageSize \in Nat
      BY <1>4, CallTypes DEF PageInv, TypeOK
    <2>3. PageSize \notin touched
      BY <2>1, <2>2
    <2>. QED  BY <1>2, <2>3
  <1>7. reserved' = (IF truncated THEN 1 ELSE 0) /\ reserved' \in 0 .. 1
    BY <1>2, <1>5
  <1>8. TypeOK'
    <2>1. pc' \in {"scan", "probe", "respond", "answered", "failed"} /\ consumed' \in BOOLEAN
      BY <1>2
    <2>2. touched' \subseteq 0 .. Len(call.table)
      BY <1>2, <1>4 DEF PageInv, TypeOK
    <2>. QED  BY <1>2, <1>7, <2>1, <2>2 DEF PageInv, TypeOK
  <1>9. PageOfRest' /\ ScanInv' /\ ScannedInv'
    BY <1>2, <1>3 DEF PageInv, PageOfRest, ScanInv, ScannedInv
  <1>10. TriedInv'
    <2>1. consumed' = (touched' # {})
      BY <1>2
    <2>2. LargerOverran(PageSize)'
      BY <1>3, <1>5 DEF LargerOverran
    <2>. QED  BY <1>2, <1>3, <1>4, <1>5, <1>6, <1>7, <2>1, <2>2 DEF TriedInv
  <1>. QED  BY <1>8, <1>9, <1>10 DEF PageInv

LEMMA RespondInv ==
    ASSUME PageInv, Respond
    PROVE  PageInv'
  <1>1. PICK extra \in 0 .. Jitter :
          \/ /\ EncodedResponse + extra <= MaxBytes /\ pc' = "answered"
             /\ UNCHANGED << returned_rows, truncated, reserved >>
          \/ /\ ~(EncodedResponse + extra <= MaxBytes)
             /\ PopRow /\ reserved' = 0
    BY DEF Respond, MaxBytes
  <1>2. /\ pc = "respond"
        /\ UNCHANGED << call, next, used_bytes, initial, touched, consumed >>
    BY DEF Respond
  <1>3. /\ EncodedResponse = ResponseBytes(Rest, PageSize) /\ EncodedResponse \in Nat
        /\ MaxBytes \in Nat /\ Jitter \in Nat
        /\ PageSize \in Nat /\ PageSize <= Len(Rest) /\ call \in Calls
    BY <1>2, EncodedPage, CallTypes, PagingAssumption
  <1>4. /\ consumed = (touched # {}) /\ PageSize \in MayProbe(Rest, MaxRows, MaxBytes)
        /\ PageSize \in touched /\ touched \ {PageSize} \in GivenUp(Rest, MaxRows, MaxBytes, PageSize)
        /\ LargerOverran(PageSize)
        /\ reserved = IF truncated THEN 1 ELSE 0
    BY <1>2 DEF PageInv, TriedInv
  <1>5. CASE /\ EncodedResponse + extra <= MaxBytes /\ pc' = "answered"
             /\ UNCHANGED << returned_rows, truncated, reserved >>
    <2>1. UNCHANGED << Rest, MaxRows, MaxBytes, PageSize >>
      BY <1>2, <1>5 DEF Rest, MaxRows, MaxBytes, PageSize
    <2>2. pc' \in {"scan", "probe", "respond", "answered", "failed"}
      BY <1>5
    <2>3. TypeOK'
      BY <1>2, <1>5, <2>2 DEF PageInv, TypeOK
    <2>4. PageOfRest' /\ ScanInv' /\ ScannedInv'
      BY <1>2, <1>5, <2>1 DEF PageInv, PageOfRest, ScanInv, ScannedInv
    <2>5. TriedInv'
      <3>1. ResponseBytes(Rest, PageSize) <= MaxBytes
        BY <1>3, <1>5
      <3>2. LargerOverran(PageSize)'
        BY <1>4, <2>1 DEF LargerOverran
      <3>. QED  BY <1>2, <1>4, <1>5, <2>1, <3>1, <3>2 DEF TriedInv
    <2>. QED  BY <2>3, <2>4, <2>5 DEF PageInv
  <1>6. CASE ~(EncodedResponse + extra <= MaxBytes) /\ PopRow /\ reserved' = 0
    <2>1. PageSize \in MayOverrun(Rest, MaxBytes)
      <3>1. ResponseBytes(Rest, PageSize) + Jitter > MaxBytes
        BY <1>3, <1>6
      <3>2. PageSize \in 0 .. Len(Rest)
        BY <1>3, CallTypes
      <3>. QED  BY <3>1, <3>2 DEF MayOverrun
    <2>2. touched \in GivenUp(Rest, MaxRows, MaxBytes, PageSize - 1)
      BY <1>3, <1>4, GivenUpNext
    <2>. QED  BY <1>2, <1>4, <1>6, <2>1, <2>2, PopInv
  <1>. QED  BY <1>1, <1>5, <1>6

LEMMA PageInvInductive == PageInv /\ [Next]_vars => PageInv'
  <1>. SUFFICES ASSUME PageInv, [Next]_vars
                PROVE  PageInv'
    OBVIOUS
  <1>1. CASE SkipRow
    BY <1>1, SkipInv
  <1>2. CASE KeepRow
    BY <1>2, KeepInv
  <1>3. CASE EndScan
    BY <1>3, EndScanInv
  <1>4. CASE ProbeTooLarge
    BY <1>4, ProbeTooLargeInv
  <1>5. CASE ProbeFits
    BY <1>5, ProbeFitsInv
  <1>6. CASE Respond
    BY <1>6, RespondInv
  <1>7. CASE UNCHANGED vars
    BY <1>7 DEF vars, PageInv, TypeOK, PageOfRest, ScanInv, ScannedInv, TriedInv, Untouched,
                LargerOverran, PageSize, MaxRows, MaxBytes, Rest
  <1>. QED  BY <1>1, <1>2, <1>3, <1>4, <1>5, <1>6, <1>7 DEF Next, Done

THEOREM PageInvCorrect == Spec => []PageInv
  BY InitPage, PageInvInductive, PTL DEF Spec

-----------------------------------------------------------------------------
(* The theorems                                                            *)

(* TypeOK of PagingLoop: above all, a call has never more than one cursor  *)
(* in the store that it has not taken back.                                *)
THEOREM TypeCorrect == Spec => []TypeOK
  <1>1. PageInv => TypeOK
    BY DEF PageInv
  <1>. QED  BY <1>1, PageInvCorrect, PTL

(* The loops of sql_query compute what Paging says: the answered page is a *)
(* prefix of the rest, of a size Paging allows, truncated exactly when     *)
(* rows are missing; a call fails only when no size could be sent.         *)
THEOREM PageCorrect == Spec => []PageIsAllowed
  <1>1. PageInv => PageIsAllowed
    <2>. SUFFICES ASSUME PageInv PROVE PageIsAllowed
      OBVIOUS
    <2>1. CASE pc = "answered"
      <3>1. /\ PageSize \in touched
            /\ touched \ {PageSize} \in GivenUp(Rest, MaxRows, MaxBytes, PageSize)
            /\ ResponseBytes(Rest, PageSize) <= MaxBytes /\ LargerOverran(PageSize)
            /\ returned_rows = Take(Rest, PageSize) /\ truncated = Truncated(Rest, PageSize)
        BY <2>1 DEF PageInv, PageOfRest, ScannedInv, TriedInv
      <3>2. PageSize \in Collected(Rest, MaxRows, MaxBytes)
        BY <2>1, EncodedPage
      <3>3. PageSize \in PageSizes(Rest, MaxRows, MaxBytes)
        BY <3>1, <3>2 DEF PageSizes, LargerOverran
      <3>. QED  BY <2>1, <3>1, <3>3 DEF PageIsAllowed, PageSize, MaxRows, MaxBytes
    <2>2. CASE pc = "failed"
      <3>1. /\ touched \in GivenUp(Rest, MaxRows, MaxBytes, -1)
            /\ LargerOverran(-1) /\ consumed = (touched # {})
        BY <2>2 DEF PageInv, TriedInv
      <3>2. \A k \in Collected(Rest, MaxRows, MaxBytes) : k > -1
        BY DEF Collected
      <3>3. MayExceedLimit(Rest, MaxRows, MaxBytes)
        BY <3>1, <3>2 DEF MayExceedLimit, LargerOverran
      <3>. QED  BY <2>2, <3>1, <3>3 DEF PageIsAllowed, MaxRows, MaxBytes
    <2>3. CASE pc \notin {"answered", "failed"}
      BY <2>3 DEF PageIsAllowed
    <2>. QED  BY <2>1, <2>2, <2>3
  <1>. QED  BY <1>1, PageInvCorrect, PTL

(* A call that ends leaves a cursor in the store exactly when its answer   *)
(* hands that cursor out.                                                  *)
THEOREM OrphanCorrect == Spec => []NoOrphanCursor
  <1>1. PageInv => NoOrphanCursor
    <2>. SUFFICES ASSUME PageInv PROVE NoOrphanCursor
      OBVIOUS
    <2>1. truncated \in BOOLEAN
      BY DEF PageInv, TypeOK
    <2>2. CASE pc = "answered"
      <3>1. reserved = IF truncated THEN 1 ELSE 0
        BY <2>2 DEF PageInv, TriedInv
      <3>. QED  BY <2>1, <2>2, <3>1 DEF NoOrphanCursor
    <2>3. CASE pc = "failed"
      BY <2>3 DEF PageInv, TriedInv, NoOrphanCursor
    <2>4. CASE pc \notin {"answered", "failed"}
      BY <2>4 DEF NoOrphanCursor
    <2>. QED  BY <2>2, <2>3, <2>4
  <1>. QED  BY <1>1, PageInvCorrect, PTL
=============================================================================
