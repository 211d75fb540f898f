------------------------- MODULE AtomicCallsProofs --------------------------
(***************************************************************************)
(* Imports are whole in every behaviour of AtomicCalls.                    *)
(***************************************************************************)
EXTENDS AtomicCalls, TLAPS

(* The rows of c in set are those of a whole import, or none.              *)
WholeIn(set, c) ==
    \/ set \intersect RowsOf(c, MaxStatements) = {}
    \/ /\ answers[c] \in {"ok", "lost"}
       /\ set \intersect RowsOf(c, MaxStatements) = RowsOf(c, requests[c].size)

IsImport(c) == requests[c] # NoRequest /\ requests[c].tool = "db_import"

(* Calls that have not been made or answered have no rows, but for the     *)
(* tools that are not units.                                               *)
Whole ==
    \A c \in Calls :
        /\ requests[c] = NoRequest =>
             /\ answers[c] = "none"
             /\ file \intersect RowsOf(c, MaxStatements) = {}
             /\ content \intersect RowsOf(c, MaxStatements) = {}
        /\ IsImport(c) => WholeIn(file, c) /\ WholeIn(content, c)

Inv == TypeOK /\ Whole

LEMMA InitInv == CallsAssumption /\ Init => Inv
  BY DEF CallsAssumption, Init, Inv, TypeOK, Whole, WholeIn, IsImport, RowSets

LEMMA WrittenRows ==
  ASSUME CallsAssumption, NEW old, NEW request, NEW c, NEW n \in 0 .. MaxStatements
  PROVE  /\ \A d : d # c =>
              LET rows == Written(old, request, c, n) \intersect RowsOf(d, MaxStatements)
              IN rows = {} \/ rows = old \intersect RowsOf(d, MaxStatements)
         /\ old \intersect RowsOf(c, MaxStatements) = {} =>
              Written(old, request, c, n) \intersect RowsOf(c, MaxStatements) = RowsOf(c, n)
  BY DEF CallsAssumption, Written, RowsOf

LEMMA WrittenType ==
  ASSUME CallsAssumption, NEW old \in RowSets, NEW request, NEW c \in Calls,
         NEW n \in 0 .. MaxStatements
  PROVE  Written(old, request, c, n) \in RowSets
  BY DEF CallsAssumption, Written, RowsOf, RowSets

(* A step that leaves the rows of d as they are, takes them from the other *)
(* of file and content, or removes them.                                   *)
LEMMA KeptWhole ==
  ASSUME Inv, NEW d \in Calls,
         requests'[d] = requests[d], answers'[d] = answers[d],
         LET mine == RowsOf(d, MaxStatements)
         IN \A rows \in {file', content'} :
               rows \intersect mine \in {{}, file \intersect mine, content \intersect mine}
  PROVE  /\ requests'[d] = NoRequest =>
              /\ answers'[d] = "none"
              /\ file' \intersect RowsOf(d, MaxStatements) = {}
              /\ content' \intersect RowsOf(d, MaxStatements) = {}
         /\ IsImport(d)' => WholeIn(file, d)' /\ WholeIn(content, d)'
  BY DEF Inv, Whole, IsImport, WholeIn, RowsOf

LEMMA NextInv == CallsAssumption /\ Inv /\ [Next]_vars => Inv'
  <1> SUFFICES ASSUME CallsAssumption, Inv, [Next]_vars PROVE Inv'
    OBVIOUS
  <1> USE DEF Pending, Answer
  <1>1. ASSUME NEW c \in Calls, Submit(c) PROVE Inv'
    <2>1. TypeOK'
      BY <1>1 DEF Submit, Inv, TypeOK
    <2>2. Whole'
      BY <1>1 DEF Submit, Inv, TypeOK, Whole, WholeIn, IsImport
    <2> QED
      BY <2>1, <2>2 DEF Inv
  <1>2. ASSUME NEW c \in Calls, Applied(c) PROVE Inv'
    <2> DEFINE request == requests[c]
               new == Written(content, request, c, request.size)
    <2>1. /\ request \in Requests /\ answers[c] = "none"
          /\ file' = new /\ content' = new
          /\ UNCHANGED << txn, requests >>
          /\ answers' \in {[answers EXCEPT ![c] = "ok"], [answers EXCEPT ![c] = "lost"]}
      BY <1>2 DEF Applied, Inv, TypeOK
    <2>2. request.size \in 0 .. MaxStatements
      BY <2>1, CallsAssumption DEF CallsAssumption, Requests
    <2>3. TypeOK'
      BY <2>1, <2>2, WrittenType DEF Inv, TypeOK
    <2>4. ASSUME NEW d \in Calls, d # c
          PROVE  /\ requests'[d] = requests[d] /\ answers'[d] = answers[d]
                 /\ \A rows \in {file', content'} :
                      rows \intersect RowsOf(d, MaxStatements)
                        \in {{}, content \intersect RowsOf(d, MaxStatements)}
      BY <2>1, <2>2, <2>4, WrittenRows DEF Inv, TypeOK
    <2>5. IsImport(c) => new \intersect RowsOf(c, MaxStatements) = RowsOf(c, request.size)
      BY <2>1, <2>2, WrittenRows DEF Inv, Whole, WholeIn
    <2>6. answers'[c] \in {"ok", "lost"}
      BY <2>1 DEF Inv, TypeOK
    <2>7. request # NoRequest
      BY <1>2 DEF Applied
    <2> HIDE DEF new, request
    <2>8. Whole'
      BY <2>1, <2>4, <2>5, <2>6, <2>7, KeptWhole DEF Whole, WholeIn, IsImport, request
    <2> QED
      BY <2>3, <2>8 DEF Inv
  <1>3. ASSUME NEW c \in Calls, Refused(c) PROVE Inv'
    <2>1. TypeOK'
      BY <1>3 DEF Refused, Inv, TypeOK
    <2>2. Whole'
      BY <1>3 DEF Refused, Inv, TypeOK, Whole, WholeIn, IsImport
    <2> QED
      BY <2>1, <2>2 DEF Inv
  <1>4. ASSUME NEW c \in Calls, LeftOpen(c) PROVE Inv'
    <2>1. PICK n \in 0 .. requests[c].size : content' = Written(content, requests[c], c, n)
      BY <1>4 DEF LeftOpen
    <2>2. requests[c] \in Requests /\ UNCHANGED << file, requests >>
      BY <1>4 DEF LeftOpen, Inv, TypeOK
    <2>3. n \in 0 .. MaxStatements
      BY <2>1, <2>2, CallsAssumption DEF CallsAssumption, Requests
    <2>4. TypeOK'
      BY <1>4, <2>1, <2>3, WrittenType DEF LeftOpen, Inv, TypeOK
    <2>5. ASSUME NEW d \in Calls, d # c
          PROVE  /\ requests'[d] = requests[d] /\ answers'[d] = answers[d]
                 /\ content' \intersect RowsOf(d, MaxStatements)
                      \in {{}, content \intersect RowsOf(d, MaxStatements)}
      BY <1>4, <2>1, <2>3, <2>5, WrittenRows DEF LeftOpen, Inv, TypeOK
    <2>6. requests'[c] # NoRequest /\ ~IsImport(c)'
      BY <1>4 DEF LeftOpen, MayLeaveOpen, IsImport
    <2>7. Whole'
      BY <2>2, <2>5, <2>6, KeptWhole DEF Whole
    <2> QED
      BY <2>4, <2>7 DEF Inv
  <1>5. ASSUME NEW c \in Calls, Stepped(c) PROVE Inv'
    <2>1. PICK n \in 1 .. requests[c].size : content' = content \union {<<c, n>>}
      BY <1>5 DEF Stepped
    <2>2. /\ requests[c] \in Requests /\ requests[c] # NoRequest
          /\ requests[c].tool # "db_import"
          /\ UNCHANGED << txn, requests, answers >>
          /\ file' = content' \/ file' = file
      BY <1>5 DEF Stepped, Inv, TypeOK, Units
    <2>3. <<c, n>> \in Calls \X (1 .. MaxStatements)
      BY <2>1, <2>2, CallsAssumption DEF CallsAssumption, Requests
    <2>4. TypeOK'
      BY <2>1, <2>2, <2>3 DEF Inv, TypeOK, RowSets
    <2>5. ASSUME NEW d \in Calls, d # c
          PROVE  content' \intersect RowsOf(d, MaxStatements)
                   = content \intersect RowsOf(d, MaxStatements)
      BY <2>1, <2>5 DEF RowsOf
    <2>6. Whole'
      BY <2>2, <2>5, KeptWhole DEF Whole, IsImport
    <2> QED
      BY <2>4, <2>6 DEF Inv
  <1>6. ASSUME NEW c \in Calls, Finished(c) \/ AbortedTransaction(c) PROVE Inv'
    <2>1. TypeOK'
      BY <1>6 DEF Finished, AbortedTransaction, Inv, TypeOK
    <2>2. Whole'
      BY <1>6 DEF Finished, AbortedTransaction, Inv, TypeOK, Whole, WholeIn, IsImport, Units
    <2> QED
      BY <2>1, <2>2 DEF Inv
  <1>7. CASE StartedTransaction \/ Commit \/ Rollback
    <2>1. TypeOK'
      BY <1>7 DEF StartedTransaction, Commit, Rollback, Inv, TypeOK
    <2>2. Whole'
      BY <1>7 DEF StartedTransaction, Commit, Rollback, Inv, Whole, WholeIn, IsImport
    <2> QED
      BY <2>1, <2>2 DEF Inv
  <1>8. CASE Disconnect
    <2>1. TypeOK'
      BY <1>8 DEF Disconnect, Inv, TypeOK
    <2>2. Whole'
      BY <1>8 DEF Disconnect, Inv, TypeOK, Whole, WholeIn, IsImport
    <2> QED
      BY <2>1, <2>2 DEF Inv
  <1>9. CASE UNCHANGED vars
    BY <1>9 DEF vars, Inv, TypeOK, Whole, WholeIn, IsImport
  <1> QED
    BY <1>1, <1>2, <1>3, <1>4, <1>5, <1>6, <1>7, <1>8, <1>9 DEF Next

LEMMA InvWhole == Inv => ImportsAreWhole
  BY DEF Inv, Whole, WholeIn, IsImport, ImportsAreWhole

(* Whatever calls, commits, rollbacks and disconnections follow each other, *)
(* no part of an import is ever seen, let alone kept.                      *)
THEOREM ImportsWhole ==
  ASSUME CallsAssumption PROVE Spec => []ImportsAreWhole
  BY InitInv, NextInv, InvWhole, PTL DEF Spec
=============================================================================
