--------------------------- MODULE DispatchProofs ---------------------------
(***************************************************************************)
(* Proofs about Dispatch, for any clients, databases, requests and numbers *)
(* of polls: the inductive invariant of the two locks, that the second is  *)
(* never waited for, and that calls are serial; then, with what a call     *)
(* holds of the file and of the models, that units close their             *)
(* transaction, ready models stay loaded, and own locks outlast waits.     *)
(***************************************************************************)
EXTENDS Dispatch, SequenceTheorems, TLAPS

(* Whoever is between lock and unlock holds the lock, and nobody else; a   *)
(* closure at work has seen the present version and has not answered.      *)
LockInv ==
    /\ \A c \in Clients : pc[c] \in Locked <=> registry = c
    /\ \A c \in Clients : pc[c] \in Working <=> cursors = c
    /\ \A c \in Clients : pc[c] \in Working \ {"unlock cursors"} => seen[c] = version
    /\ \A c \in Clients : answers[c] \notin {"none", "again"} =>
                            pc[c] \in {"unlock cursors", "unlock registry"}
    /\ \A c \in Clients : pc[c] = "idle" => answers[c] = "none"

(* The queue for the registry: calls that wait for it, each once.          *)
WaitInv ==
    /\ \A i \in 1 .. Len(waiters) : pc[waiters[i]] = "registry"
    /\ \A i, j \in 1 .. Len(waiters) : waiters[i] = waiters[j] => i = j

(* The part of the types the locks depend on.                              *)
LockTypes ==
    /\ pc \in [Clients -> Places]
    /\ answers \in [Clients -> Results \union {"none"}]
    /\ seen \in [Clients -> 0 .. Versions - 1]
    /\ version \in 0 .. Versions - 1
    /\ waiters \in Seq(Clients)
    /\ registry \in Clients \union {NoClient} /\ cursors \in Clients \union {NoClient}

IInv == LockTypes /\ LockInv /\ WaitInv

USE DEF Places, OnThread, Locked, Working, Results

-----------------------------------------------------------------------------
LEMMA LaterVersion ==
    ASSUME NEW v \in 0 .. Versions - 1
    PROVE  (v + 1) % Versions \in 0 .. Versions - 1
  BY DispatchAssumption

(* Who waits for the registry is a client, at another place than a call    *)
(* that does not wait for it.                                              *)
LEMMA WaitersElsewhere ==
    ASSUME LockTypes, WaitInv, NEW c \in Clients, pc[c] # "registry"
    PROVE  \A i \in 1 .. Len(waiters) : waiters[i] \in Clients /\ waiters[i] # c
  <1>1. \A i \in 1 .. Len(waiters) : waiters[i] \in Clients
    BY ElementOfSeq DEF LockTypes
  <1>2. \A i \in 1 .. Len(waiters) : waiters[i] # c
    BY DEF WaitInv
  <1>. QED  BY <1>1, <1>2

(* A call that moves and does not wait for the registry leaves its queue   *)
(* as it is.                                                               *)
LEMMA WaitKeeps ==
    ASSUME LockTypes, WaitInv, NEW c \in Clients, pc[c] # "registry",
           NEW place \in Places, Go(c, place), UNCHANGED waiters
    PROVE  WaitInv'
  <1>1. \A i \in 1 .. Len(waiters) : waiters[i] \in Clients /\ waiters[i] # c
    BY WaitersElsewhere
  <1>. QED  BY <1>1 DEF LockTypes, WaitInv, Go

(* A closure that ends its work, with or without effect.                   *)
LEMMA EffectKeeps ==
    ASSUME IInv, NEW c \in Clients, pc[c] \in Working \ {"unlock cursors"},
           NEW result \in Effects, Effect(c, result)
    PROVE  IInv'
  <1>1. LockTypes'
    BY LaterVersion DEF IInv, LockTypes, Effect, Effects, Finish, Go, lockVars
  <1>2. LockInv'
    BY DispatchAssumption DEF IInv, LockTypes, LockInv, Effect, Effects, Finish, Go, lockVars
  <1>3. WaitInv'
    BY WaitKeeps DEF IInv, Effect, Effects, Finish, lockVars
  <1>. QED  BY <1>1, <1>2, <1>3 DEF IInv

LEMMA FailKeeps ==
    ASSUME IInv, NEW c \in Clients, pc[c] \in Working \ {"unlock cursors"},
           NEW result \in Results, Fail(c, result)
    PROVE  IInv'
  <1>1. LockTypes' /\ LockInv'
    BY DispatchAssumption DEF IInv, LockTypes, LockInv, Fail, Finish, Go, lockVars, dataVars
  <1>2. WaitInv'
    BY WaitKeeps DEF IInv, Fail, Finish, lockVars
  <1>. QED  BY <1>1, <1>2 DEF IInv

(* A closure that goes on working.                                         *)
LEMMA GoKeeps ==
    ASSUME IInv, NEW c \in Clients, pc[c] \in Working \ {"unlock cursors"},
           NEW place \in Working \ {"unlock cursors"}, Go(c, place),
           UNCHANGED << answers, lockVars, dataVars >>
    PROVE  IInv'
  <1>1. LockTypes' /\ LockInv'
    BY DispatchAssumption DEF IInv, LockTypes, LockInv, Go, lockVars, dataVars
  <1>2. WaitInv'
    BY WaitKeeps DEF IInv, lockVars
  <1>. QED  BY <1>1, <1>2 DEF IInv

LEMMA UnchangedKeeps ==
    ASSUME IInv, UNCHANGED << callVars, lockVars, dataVars >>
    PROVE  IInv'
  BY DEF IInv, LockTypes, LockInv, WaitInv, callVars, lockVars, dataVars

-----------------------------------------------------------------------------
(* The steps on the way to the locks and back                              *)

LEMMA SubmitKeeps ==
    ASSUME IInv, NEW c \in Clients, Submit(c)
    PROVE  IInv'
  <1>1. pc[c] = "idle" /\ Go(c, "spawned") /\ UNCHANGED << answers, lockVars, dataVars >>
    BY DEF Submit
  <1>2. LockTypes'
    BY <1>1 DEF IInv, LockTypes, Go, lockVars, dataVars
  <1>3. LockInv'
    BY <1>1, DispatchAssumption DEF IInv, LockTypes, LockInv, Go, lockVars, dataVars
  <1>4. WaitInv'
    BY <1>1, WaitKeeps DEF IInv, lockVars
  <1>. QED  BY <1>2, <1>3, <1>4 DEF IInv

LEMMA StartThreadKeeps ==
    ASSUME IInv, NEW c \in Clients, StartThread(c)
    PROVE  IInv'
  <1>1. /\ pc[c] = "spawned" /\ Go(c, "registry") /\ waiters' = Append(waiters, c)
        /\ UNCHANGED << answers, registry, cursors, dataVars >>
    BY DEF StartThread
  <1>2. waiters' \in Seq(Clients) /\ Len(waiters') = Len(waiters) + 1
        /\ Len(waiters) \in Nat
        /\ waiters'[Len(waiters) + 1] = c
        /\ \A i \in 1 .. Len(waiters) : waiters'[i] = waiters[i]
    <2>1. waiters \in Seq(Clients)
      BY DEF IInv, LockTypes
    <2>2. Len(waiters) \in Nat
      BY <2>1, LenProperties
    <2>3. /\ Append(waiters, c) \in Seq(Clients)
          /\ Len(Append(waiters, c)) = Len(waiters) + 1
          /\ Append(waiters, c)[Len(waiters) + 1] = c
          /\ \A i \in 1 .. Len(waiters) : Append(waiters, c)[i] = waiters[i]
      BY <2>1, AppendProperties
    <2>. QED  BY <1>1, <2>2, <2>3, Zenon
  <1>3. LockTypes'
    BY <1>1, <1>2 DEF IInv, LockTypes, Go, dataVars
  <1>4. LockInv'
    BY <1>1, DispatchAssumption DEF IInv, LockTypes, LockInv, Go, dataVars
  <1>5. \A i \in 1 .. Len(waiters) : waiters[i] \in Clients /\ waiters[i] # c
    BY <1>1, WaitersElsewhere DEF IInv
  <1>6. \A i \in 1 .. Len(waiters') : i \in 1 .. Len(waiters) \/ i = Len(waiters) + 1
    BY <1>2
  <1>7. \A i \in 1 .. Len(waiters') : pc'[waiters'[i]] = "registry"
    <2>1. pc'[c] = "registry" /\ \A d \in Clients : d # c => pc'[d] = pc[d]
      BY <1>1 DEF IInv, LockTypes, Go
    <2>2. \A i \in 1 .. Len(waiters) : pc'[waiters'[i]] = "registry"
      BY <1>2, <1>5, <2>1 DEF IInv, WaitInv
    <2>. QED  BY <1>2, <1>6, <2>1, <2>2
  <1>8. \A i, j \in 1 .. Len(waiters') : waiters'[i] = waiters'[j] => i = j
    BY <1>2, <1>5, <1>6 DEF IInv, WaitInv
  <1>. QED  BY <1>3, <1>4, <1>7, <1>8 DEF IInv, WaitInv

LEMMA LockRegistryKeeps ==
    ASSUME IInv, NEW c \in Clients, LockRegistry(c)
    PROVE  pc[c] = "registry" /\ IInv'
  <1>1. /\ waiters # << >> /\ c = Head(waiters) /\ registry = NoClient
        /\ registry' = c /\ waiters' = Tail(waiters) /\ Go(c, "cursors")
        /\ UNCHANGED << answers, cursors, dataVars >>
    BY DEF LockRegistry
  <1>2. waiters \in Seq(Clients) /\ Len(waiters) \in Nat \ {0}
    BY <1>1, EmptySeq DEF IInv, LockTypes
  <1>3. c = waiters[1] /\ waiters' \in Seq(Clients) /\ Len(waiters') = Len(waiters) - 1
        /\ \A i \in 1 .. Len(waiters') : i + 1 \in 2 .. Len(waiters) /\ waiters'[i] = waiters[i + 1]
    BY <1>1, <1>2
  <1>4. pc[c] = "registry"
    BY <1>2, <1>3 DEF IInv, WaitInv
  <1>5. LockTypes'
    BY <1>1, <1>3 DEF IInv, LockTypes, Go, dataVars
  <1>6. LockInv'
    BY <1>1, <1>4, DispatchAssumption DEF IInv, LockTypes, LockInv, Go, dataVars
  <1>7. \A i \in 1 .. Len(waiters') : waiters'[i] \in Clients /\ waiters'[i] # c
                                       /\ pc[waiters'[i]] = "registry"
    <2>. SUFFICES ASSUME NEW i \in 1 .. Len(waiters')
                  PROVE  waiters[i + 1] \in Clients /\ waiters[i + 1] # waiters[1]
                         /\ pc[waiters[i + 1]] = "registry"
      BY <1>3
    <2>1. i \in Nat /\ i + 1 \in 1 .. Len(waiters) /\ 1 \in 1 .. Len(waiters) /\ i + 1 # 1
      BY <1>2, <1>3
    <2>. QED  BY <1>2, <2>1 DEF IInv, WaitInv
  <1>8. \A i \in 1 .. Len(waiters') : pc'[waiters'[i]] = "registry"
    BY <1>1, <1>7 DEF IInv, LockTypes, Go
  <1>9. \A i, j \in 1 .. Len(waiters') : waiters'[i] = waiters'[j] => i = j
    <2>. SUFFICES ASSUME NEW i \in 1 .. Len(waiters'), NEW j \in 1 .. Len(waiters'),
                         waiters[i + 1] = waiters[j + 1]
                  PROVE  i = j
      BY <1>3
    <2>1. i \in Nat /\ j \in Nat /\ i + 1 \in 1 .. Len(waiters) /\ j + 1 \in 1 .. Len(waiters)
      BY <1>2, <1>3
    <2>2. i + 1 = j + 1
      BY <2>1 DEF IInv, WaitInv
    <2>. QED  BY <2>1, <2>2
  <1>. QED  BY <1>4, <1>5, <1>6, <1>8, <1>9 DEF IInv, WaitInv

LEMMA LockCursorsKeeps ==
    ASSUME IInv, NEW c \in Clients, LockCursors(c)
    PROVE  IInv'
  <1>1. /\ pc[c] = "cursors" /\ cursors = NoClient /\ cursors' = c /\ Go(c, "running")
        /\ seen' = [seen EXCEPT ![c] = version] /\ UNCHANGED << answers, waiters, registry, version >>
    BY DEF LockCursors
  <1>2. LockTypes'
    BY <1>1 DEF IInv, LockTypes, Go, dataVars
  <1>3. LockInv'
    BY <1>1, DispatchAssumption DEF IInv, LockTypes, LockInv, Go, dataVars
  <1>4. WaitInv'
    BY <1>1, WaitKeeps DEF IInv
  <1>. QED  BY <1>2, <1>3, <1>4 DEF IInv

LEMMA UnlockCursorsKeeps ==
    ASSUME IInv, NEW c \in Clients, UnlockCursors(c)
    PROVE  IInv'
  <1>1. /\ pc[c] = "unlock cursors" /\ cursors' = NoClient /\ Go(c, "unlock registry")
        /\ UNCHANGED << answers, waiters, registry, dataVars >>
    BY DEF UnlockCursors
  <1>2. LockTypes'
    BY <1>1 DEF IInv, LockTypes, Go, dataVars
  <1>3. LockInv'
    BY <1>1, DispatchAssumption DEF IInv, LockTypes, LockInv, Go, dataVars
  <1>4. WaitInv'
    BY <1>1, WaitKeeps DEF IInv
  <1>. QED  BY <1>2, <1>3, <1>4 DEF IInv

LEMMA EndTypes == 0 \in 0 .. Versions - 1
  BY DispatchAssumption

LEMMA UnlockRegistryKeeps ==
    ASSUME IInv, NEW c \in Clients, UnlockRegistry(c)
    PROVE  IInv'
  <1>1. /\ pc[c] = "unlock registry" /\ registry' = NoClient /\ UNCHANGED << waiters, cursors, version >>
        /\ seen' = [seen EXCEPT ![c] = 0]
    BY DEF UnlockRegistry
  <1>2. \/ answers[c] = "again" /\ Go(c, "sleeping") /\ UNCHANGED answers
        \/ answers[c] # "again" /\ End(c)
    BY DEF UnlockRegistry
  <1>3. CASE answers[c] = "again" /\ Go(c, "sleeping") /\ UNCHANGED answers
    <2>1. LockTypes'
      BY <1>1, <1>3, EndTypes DEF IInv, LockTypes, Go
    <2>2. LockInv'
      BY <1>1, <1>3, DispatchAssumption DEF IInv, LockTypes, LockInv, Go
    <2>3. WaitInv'
      BY <1>1, <1>3, WaitKeeps DEF IInv
    <2>. QED  BY <2>1, <2>2, <2>3 DEF IInv
  <1>4. CASE End(c)
    <2>1. LockTypes'
      BY <1>1, <1>4, EndTypes DEF IInv, LockTypes, End, Go
    <2>2. LockInv'
      BY <1>1, <1>4, DispatchAssumption DEF IInv, LockTypes, LockInv, End, Go
    <2>3. WaitInv'
      BY <1>1, <1>4, WaitKeeps DEF IInv, End
    <2>. QED  BY <2>1, <2>2, <2>3 DEF IInv
  <1>. QED  BY <1>2, <1>3, <1>4

LEMMA WakeKeeps ==
    ASSUME IInv, NEW c \in Clients, Wake(c)
    PROVE  IInv'
  <1>1. pc[c] = "sleeping" /\ Go(c, "spawned") /\ UNCHANGED << answers, lockVars, dataVars >>
    BY DEF Wake
  <1>2. LockTypes' /\ LockInv'
    BY <1>1, DispatchAssumption DEF IInv, LockTypes, LockInv, Go, lockVars, dataVars
  <1>3. WaitInv'
    BY <1>1, WaitKeeps DEF IInv, lockVars
  <1>. QED  BY <1>2, <1>3 DEF IInv

LEMMA DisconnectKeeps ==
    ASSUME IInv, NEW c \in Clients, Disconnect(c)
    PROVE  IInv'
  <1>1. pc[c] = "sleeping" /\ End(c) /\ UNCHANGED << lockVars, version, seen >>
    BY DEF Disconnect, dataVars
  <1>2. LockTypes'
    BY <1>1, EndTypes DEF IInv, LockTypes, End, Go, lockVars
  <1>3. LockInv'
    BY <1>1, DispatchAssumption DEF IInv, LockTypes, LockInv, End, Go, lockVars
  <1>4. WaitInv'
    BY <1>1, WaitKeeps DEF IInv, End, lockVars
  <1>. QED  BY <1>2, <1>3, <1>4 DEF IInv

LEMMA CrashKeeps ==
    ASSUME IInv, Crash
    PROVE  IInv'
  <1>1. LockTypes'
    BY EndTypes, EmptySeq DEF IInv, LockTypes, Crash
  <1>2. LockInv'
    BY DispatchAssumption DEF IInv, LockTypes, LockInv, Crash
  <1>3. WaitInv'
    BY DEF Crash, WaitInv
  <1>. QED  BY <1>1, <1>2, <1>3 DEF IInv

-----------------------------------------------------------------------------
(* The work of a closure, and the invariant                                *)

LEMMA WorkPlaces ==
    ASSUME NEW c \in Clients, Work(c)
    PROVE  pc[c] \in Working \ {"unlock cursors"}
  BY DEF Work, DbWork, DropConnection, Block, BusyTimeout, Execute, ExecuteUnit, LeaveBatchOpen,
         BeginTransaction, BeginFails, CommitTransaction, EmbedUnit, EmbedQuery, Rank,
         VectorStatus, Poll, At, AtFile

(* Work ends with or without effect, sends a wait to sleep, or goes on.    *)
LEMMA WorkEndsOrGoesOn ==
    ASSUME NEW c \in Clients, Work(c)
    PROVE  \/ \E result \in Effects : Effect(c, result)
           \/ \E result \in {"error", "busy", "internal"} : Fail(c, result)
           \/ \E place \in {"file", "unit", "ranking"} :
                 Go(c, place) /\ UNCHANGED << answers, lockVars, dataVars >>
           \/ Go(c, "unlock cursors") /\ answers' = [answers EXCEPT ![c] = "again"]
              /\ UNCHANGED << lockVars, dataVars >>
  <1>1. \A b : \A o \in Inferred(b) : o.result \in {"ok", "error", "internal"}
    BY DEF Inferred, Unconfigured
  <1>. USE DEF Succeed, Effects
  <1>2. CASE DbWork(c) \/ DropConnection(c)
    BY <1>2 DEF DbWork, DropConnection
  <1>3. CASE Block(c)
    BY <1>3 DEF Block
  <1>4. CASE BusyTimeout(c)
    BY <1>4 DEF BusyTimeout
  <1>5. CASE Execute(c)
    BY <1>5 DEF Execute
  <1>14. CASE ExecuteUnit(c) \/ LeaveBatchOpen(c)
    BY <1>14 DEF ExecuteUnit, LeaveBatchOpen
  <1>6. CASE BeginTransaction(c)
    BY <1>6 DEF BeginTransaction
  <1>7. CASE BeginFails(c)
    BY <1>7 DEF BeginFails
  <1>8. CASE CommitTransaction(c)
    BY <1>8 DEF CommitTransaction
  <1>9. CASE EmbedUnit(c)
    <2>1. PICK o \in Inferred("embedding") : IF o.result = "ok" THEN Succeed(c) ELSE Fail(c, o.result)
      BY <1>9 DEF EmbedUnit
    <2>. QED  BY <1>1, <2>1
  <1>10. CASE EmbedQuery(c)
    <2>1. PICK o \in Inferred("embedding") :
            IF o.result # "ok" THEN Fail(c, o.result)
            ELSE Go(c, "ranking") /\ UNCHANGED << answers, lockVars, dataVars >>
      BY <1>10 DEF EmbedQuery
    <2>. QED  BY <1>1, <2>1
  <1>11. CASE Rank(c)
    <2>1. PICK o \in Inferred("reranker") \union NotAsked :
            IF o.result = "internal" THEN Fail(c, o.result) ELSE Succeed(c)
      BY <1>11 DEF Rank
    <2>. QED  BY <2>1
  <1>12. CASE VectorStatus(c)
    BY <1>12 DEF VectorStatus
  <1>13. CASE Poll(c)
    BY <1>13 DEF Poll
  <1>. QED  BY <1>2, <1>3, <1>4, <1>5, <1>6, <1>7, <1>8, <1>9, <1>10, <1>11, <1>12, <1>13, <1>14 DEF Work

(* A wait that will poll again.                                            *)
LEMMA AgainKeeps ==
    ASSUME IInv, NEW c \in Clients, pc[c] \in Working \ {"unlock cursors"},
           Go(c, "unlock cursors"), answers' = [answers EXCEPT ![c] = "again"],
           UNCHANGED << lockVars, dataVars >>
    PROVE  IInv'
  <1>1. LockTypes' /\ LockInv'
    BY DispatchAssumption DEF IInv, LockTypes, LockInv, Go, lockVars, dataVars
  <1>2. WaitInv'
    BY WaitKeeps DEF IInv, lockVars
  <1>. QED  BY <1>1, <1>2 DEF IInv

LEMMA WorkKeeps ==
    ASSUME IInv, NEW c \in Clients, Work(c)
    PROVE  IInv'
  BY WorkPlaces, WorkEndsOrGoesOn, EffectKeeps, FailKeeps, GoKeeps, AgainKeeps

LEMMA InitLocks == Init => IInv
  BY EndTypes, EmptySeq, DispatchAssumption DEF Init, IInv, LockTypes, LockInv, WaitInv

LEMMA StepKeeps == IInv /\ [Next]_vars => IInv'
  <1>. SUFFICES ASSUME IInv, [Next]_vars PROVE IInv'
    OBVIOUS
  <1>1. CASE UNCHANGED vars
    BY <1>1, UnchangedKeeps DEF vars
  <1>2. CASE Start \/ Unpack \/ OtherProgram
    BY <1>2, UnchangedKeeps DEF Start, Unpack, OtherProgram
  <1>3. CASE Crash
    BY <1>3, CrashKeeps
  <1>4. ASSUME NEW c \in Clients, Submit(c) \/ CallStep(c) \/ Disconnect(c)
        PROVE  IInv'
    BY <1>4, SubmitKeeps, StartThreadKeeps, LockRegistryKeeps, LockCursorsKeeps, WorkKeeps,
       UnlockCursorsKeeps, UnlockRegistryKeeps, WakeKeeps, DisconnectKeeps DEF CallStep
  <1>. QED  BY <1>1, <1>2, <1>3, <1>4 DEF Next

(* Both locks are held by exactly the call whose closure is between lock   *)
(* and unlock, and a closure works on the present state.                   *)
THEOREM LocksCorrect == Spec => []IInv
  <1>. QED  BY InitLocks, StepKeeps, PTL DEF Spec

(* The lock of the cursors is never waited for (mcp.rs, run_blocking).     *)
THEOREM CursorsCorrect == Spec => []CursorsAreFree
  <1>1. IInv => CursorsAreFree
    BY DispatchAssumption DEF IInv, LockTypes, LockInv, CursorsAreFree
  <1>. QED  BY <1>1, LocksCorrect, PTL

-----------------------------------------------------------------------------
(* Calls are serial                                                        *)

USE DEF Effects

Calls == [c \in Clients |-> IF pc[c] = "idle" THEN "none"
                           ELSE IF answers[c] \in Effects THEN "applied" ELSE "made"]

Same == Calls' = Calls /\ version' = version

(* Moving on the way of a closure is no step of the abstract call.         *)
LEMMA MoveIsStutter ==
    ASSUME LockTypes, NEW c \in Clients, pc[c] # "idle",
           NEW place \in Places \ {"idle"}, Go(c, place), UNCHANGED << answers, version >>
    PROVE  Same
  BY DEF LockTypes, Go, Calls, Same

(* So is an answer that is not the successful one.                         *)
LEMMA AnswerIsStutter ==
    ASSUME LockTypes, NEW c \in Clients, pc[c] # "idle", answers[c] \notin Effects,
           Go(c, "unlock cursors"), NEW result \in Results \ Effects,
           answers' = [answers EXCEPT ![c] = result], UNCHANGED version
    PROVE  Same
  BY DEF LockTypes, Go, Calls, Same

LEMMA SubmitMakes ==
    ASSUME IInv, NEW c \in Clients, Submit(c)
    PROVE  Serial!Make(c)
  <1>1. pc[c] = "idle" /\ Go(c, "spawned") /\ UNCHANGED << answers, version >>
    BY DEF Submit, dataVars
  <1>2. answers[c] = "none"
    BY <1>1 DEF IInv, LockInv
  <1>. QED  BY <1>1, <1>2 DEF IInv, LockTypes, Go, Serial!Make

LEMMA EffectApplies ==
    ASSUME IInv, NEW c \in Clients, pc[c] \in Working \ {"unlock cursors"},
           NEW result \in Effects, Effect(c, result)
    PROVE  Serial!Apply(c)
  <1>1. pc[c] # "idle" /\ answers[c] \notin Effects /\ seen[c] = version
    BY DEF IInv, LockInv
  <1>2. /\ Go(c, "unlock cursors") /\ answers' = [answers EXCEPT ![c] = result]
        /\ version' = (seen[c] + 1) % Versions
    BY DEF Effect, Finish
  <1>. QED  BY <1>1, <1>2 DEF IInv, LockTypes, Go, Serial!Apply

LEMMA EndEnds ==
    ASSUME IInv, NEW c \in Clients, End(c), UNCHANGED version
    PROVE  Serial!End({c})
  BY DEF IInv, LockTypes, End, Go, Serial!End

LEMMA WorkIsSerial ==
    ASSUME IInv, NEW c \in Clients, Work(c)
    PROVE  Serial!Apply(c) \/ Same
  <1>1. pc[c] \in Working \ {"unlock cursors"} /\ pc[c] # "idle" /\ answers[c] \notin Effects /\ LockTypes
    BY WorkPlaces DEF IInv, LockInv
  <1>2. ASSUME NEW result \in Effects, Effect(c, result)
        PROVE  Serial!Apply(c)
    BY <1>1, <1>2, EffectApplies
  <1>3. ASSUME NEW result \in {"error", "busy", "internal"}, Fail(c, result)
        PROVE  Same
    BY <1>1, <1>3, AnswerIsStutter DEF Fail, Finish, dataVars
  <1>4. ASSUME NEW place \in {"file", "unit", "ranking"}, Go(c, place),
               UNCHANGED << answers, lockVars, dataVars >>
        PROVE  Same
    BY <1>1, <1>4, MoveIsStutter DEF dataVars
  <1>5. CASE Go(c, "unlock cursors") /\ answers' = [answers EXCEPT ![c] = "again"]
             /\ UNCHANGED << lockVars, dataVars >>
    BY <1>1, <1>5, AnswerIsStutter DEF dataVars
  <1>. QED  BY <1>2, <1>3, <1>4, <1>5, WorkEndsOrGoesOn

LEMMA CallStepIsSerial ==
    ASSUME IInv, NEW c \in Clients, CallStep(c)
    PROVE  Serial!Apply(c) \/ Serial!End({c}) \/ Same
  <1>. USE DEF dataVars
  <1>1. LockTypes
    BY DEF IInv
  <1>2. CASE StartThread(c)
    BY <1>1, <1>2, MoveIsStutter DEF StartThread
  <1>3. CASE LockRegistry(c)
    BY <1>1, <1>3, MoveIsStutter, LockRegistryKeeps DEF LockRegistry
  <1>4. CASE LockCursors(c)
    BY <1>1, <1>4, MoveIsStutter DEF LockCursors
  <1>5. CASE UnlockCursors(c)
    BY <1>1, <1>5, MoveIsStutter DEF UnlockCursors
  <1>6. CASE UnlockRegistry(c)
    BY <1>1, <1>6, MoveIsStutter, EndEnds DEF UnlockRegistry
  <1>7. CASE Wake(c)
    BY <1>1, <1>7, MoveIsStutter DEF Wake
  <1>8. CASE Work(c)
    BY <1>8, WorkIsSerial
  <1>. QED  BY <1>2, <1>3, <1>4, <1>5, <1>6, <1>7, <1>8 DEF CallStep

LEMMA StepIsSerial ==
    ASSUME IInv, [Next]_vars
    PROVE  Serial!Next \/ Same
  <1>1. CASE UNCHANGED vars
    BY <1>1 DEF vars, callVars, dataVars, Calls, Same
  <1>2. CASE Start \/ Unpack \/ OtherProgram
    BY <1>2 DEF Start, Unpack, OtherProgram, callVars, dataVars, Calls, Same
  <1>3. CASE Crash
    <2>1. Serial!End(Clients)
      BY <1>3 DEF Crash, Serial!End
    <2>. QED  BY <2>1 DEF Serial!Next
  <1>4. ASSUME NEW c \in Clients, Submit(c) \/ CallStep(c) \/ Disconnect(c)
        PROVE  Serial!Next \/ Same
    <2>1. Disconnect(c) => Serial!End({c})
      BY EndEnds DEF Disconnect, dataVars
    <2>. QED  BY <1>4, <2>1, SubmitMakes, CallStepIsSerial DEF Serial!Next
  <1>. QED  BY <1>1, <1>2, <1>3, <1>4 DEF Next

(* Calls take effect in one step each, on the state earlier ones have left *)
(* (run_blocking): the way of a closure implements SerialCalls.            *)
THEOREM SerialCorrect == Spec => CallsAreSerial
  <1>1. Init => Serial!Init
    BY DEF Init, Serial!Init
  <1>2. IInv /\ [Next]_vars => [Serial!Next]_<< Calls, version >>
    BY StepIsSerial DEF Same
  <1>. QED  BY <1>1, <1>2, LocksCorrect, PTL DEF Spec, CallsAreSerial, Serial!Spec, Calls

-----------------------------------------------------------------------------
(* Transactions, models and waits for the file                             *)

(* A call has a request; before the process serves there are none, and     *)
(* nothing is known to be ready.                                           *)
ServedInv ==
    /\ requests \in [Clients -> Requests \union {NoRequest}]
    /\ \A c \in Clients : pc[c] # "idle" => requests[c] \in Requests
    /\ process # "up" => reported = {} /\ \A c \in Clients : pc[c] = "idle"

(* A call waits for others to unlock the file, never for its own database; *)
(* a transaction has an owner.                                             *)
FileInv ==
    /\ \A c \in Clients : pc[c] = "file" => file # Db(c)
    /\ file \in Dbs =>
         opener \in {"client", "panic", "batch"} \/ \E c \in Clients : pc[c] = "unit"

ModelsInv ==
    /\ models \in [Backends -> ModelStates]
    /\ ReadyStaysLoaded

WorkInv == IInv /\ ServedInv /\ FileInv /\ ModelsInv

(* Only one call is under the locks.                                       *)
LEMMA OneUnderLocks ==
    ASSUME IInv, NEW c \in Clients, NEW d \in Clients, pc[c] \in Locked, pc[d] \in Locked
    PROVE  c = d
  BY DEF IInv, LockInv

(* Another step of a call than to wait for the file or to leave a unit.    *)
LEMMA MoveKeeps ==
    ASSUME ServedInv, FileInv, LockTypes, NEW c \in Clients, pc[c] # "unit",
           process = "up", NEW place \in Places \ {"file"}, Go(c, place),
           requests' \in [Clients -> Requests \union {NoRequest}],
           \A d \in Clients \ {c} : requests'[d] = requests[d],
           place # "idle" => requests'[c] \in Requests,
           UNCHANGED << process, fileVars >>
    PROVE  ServedInv' /\ FileInv'
  <1>1. ServedInv'
    BY DEF ServedInv, LockTypes, Go
  <1>2. FileInv'
    BY DEF FileInv, LockTypes, Go, Db, fileVars
  <1>. QED  BY <1>1, <1>2

LEMMA PrewarmedModels ==
    ASSUME NEW b \in Backends, models[b] \in ModelStates, NEW o \in Prewarmed(b)
    PROVE  /\ o.model \in ModelStates
           /\ models[b] # "none" => o.model = models[b]
           /\ b \in Configured /\ o.ok => o.model = "loaded"
  <1>1. CASE b \notin Configured
    <2>1. o = [ok |-> b = "reranker", model |-> models[b]]
      BY <1>1, Zenon DEF Prewarmed
    <2>2. o.model = models[b]
      BY <2>1, Zenon
    <2>. QED  BY <1>1, <2>2
  <1>2. CASE b \in Configured /\ models[b] = "none"
    BY <1>2 DEF Prewarmed, Initialised, ModelStates
  <1>3. CASE b \in Configured /\ models[b] # "none"
    <2>1. o = [ok |-> models[b] = "loaded", model |-> models[b]]
      BY <1>3, Zenon DEF Prewarmed
    <2>2. o.model = models[b] /\ (o.ok => models[b] = "loaded")
      BY <2>1, Zenon
    <2>. QED  BY <1>3, <2>2
  <1>. QED  BY <1>1, <1>2, <1>3

LEMMA InferredModels ==
    ASSUME NEW b \in Backends, models[b] \in ModelStates, NEW o \in Inferred(b)
    PROVE  /\ o.model \in ModelStates
           /\ models[b] \in {"loaded", "poisoned"} => o.model \in {"loaded", "poisoned"}
  <1>1. CASE b \notin Configured
    BY <1>1 DEF Inferred, Unconfigured
  <1>2. CASE b \in Configured
    <2>1. PICK q \in Prewarmed(b) : o.model = q.model \/ o.model = "poisoned"
      BY <1>2 DEF Inferred
    <2>. QED  BY <2>1, PrewarmedModels DEF ModelStates
  <1>. QED  BY <1>1, <1>2

(* An inference changes the state of its model only, and does not unload.  *)
LEMMA InferenceKeeps ==
    ASSUME ModelsInv, NEW b \in Backends, NEW o \in Inferred(b),
           models' = [models EXCEPT ![b] = o.model], UNCHANGED reported
    PROVE  ModelsInv'
  <1>1. /\ o.model \in ModelStates
        /\ models[b] \in {"loaded", "poisoned"} => o.model \in {"loaded", "poisoned"}
    BY InferredModels DEF ModelsInv
  <1>. QED  BY <1>1 DEF ModelsInv, ReadyStaysLoaded

LEMMA StatusKeeps ==
    ASSUME ModelsInv, NEW c \in Clients, VectorStatus(c)
    PROVE  ModelsInv'
  <1>1. PICK prewarm \in BOOLEAN : \E status \in Statuses(prewarm) :
            models' = status.models /\ reported' = IF prewarm THEN status.ready ELSE reported
    BY DEF VectorStatus
  <1>2. CASE prewarm = FALSE
    BY <1>1, <1>2 DEF Statuses, ModelsInv, ReadyStaysLoaded
  <1>3. CASE prewarm = TRUE
    <2>1. PICK status \in Statuses(TRUE) : models' = status.models /\ reported' = status.ready
      BY <1>1, <1>3, Zenon
    <2>2. PICK f \in [Backends -> [ok : BOOLEAN, model : ModelStates]] :
            /\ \A b \in Backends : f[b] \in Prewarmed(b)
            /\ status = [ ready |-> { b \in Configured : f[b].ok },
                          models |-> [b \in Backends |-> f[b].model] ]
      BY Zenon DEF Statuses
    <2>3. /\ \A b \in Backends : f[b] \in Prewarmed(b)
          /\ models' = [b \in Backends |-> f[b].model]
          /\ reported' = { b \in Configured : f[b].ok }
      BY <2>1, <2>2
    <2>4. \A b \in Configured : f[b].ok => f[b].model = "loaded"
      BY <2>3, PrewarmedModels, ConfiguredAssumption DEF ModelsInv
    <2>. QED  BY <2>3, <2>4, ConfiguredAssumption DEF ModelsInv, ReadyStaysLoaded
  <1>. QED  BY <1>2, <1>3

LEMMA WorkServed ==
    ASSUME WorkInv, NEW c \in Clients, pc[c] # "idle"
    PROVE  process = "up" /\ requests[c] \in Requests /\ Db(c) \in Dbs
  BY DispatchAssumption DEF WorkInv, ServedInv, Db

(* Nobody waits for the file while another call works under the locks.     *)
LEMMA NobodyWaits ==
    ASSUME WorkInv, NEW c \in Clients, pc[c] \in Locked,
           NEW place \in Places \ {"file"}, Go(c, place)
    PROVE  \A d \in Clients : pc'[d] # "file"
  BY OneUnderLocks DEF WorkInv, IInv, LockTypes, Go

(* Work that leaves the lock of the file alone.                            *)
LEMMA PlainWork ==
    ASSUME WorkInv, NEW c \in Clients,
           \/ DbWork(c) \/ BusyTimeout(c) \/ Execute(c) \/ ExecuteUnit(c) \/ BeginFails(c)
           \/ EmbedQuery(c) \/ Rank(c) \/ VectorStatus(c) \/ Poll(c)
    PROVE  ServedInv' /\ FileInv'
  <1>1. pc[c] \notin {"unit", "idle"}
    BY DEF DbWork, BusyTimeout, Execute, ExecuteUnit, BeginFails, EmbedQuery, Rank, VectorStatus,
           Poll, At, AtFile
  <1>2. /\ Go(c, "unlock cursors") \/ Go(c, "ranking")
        /\ UNCHANGED << process, requests, fileVars >>
    <2>. USE DEF Succeed, Effect, Fail, Finish
    <2>1. CASE DbWork(c) \/ BusyTimeout(c) \/ Execute(c) \/ ExecuteUnit(c) \/ BeginFails(c)
      BY <2>1 DEF DbWork, BusyTimeout, Execute, ExecuteUnit, BeginFails
    <2>2. CASE EmbedQuery(c)
      BY <2>2 DEF EmbedQuery
    <2>3. CASE Rank(c) \/ VectorStatus(c) \/ Poll(c)
      BY <2>3 DEF Rank, VectorStatus, Poll
    <2>. QED  BY <2>1, <2>2, <2>3
  <1>3. process = "up" /\ requests[c] \in Requests
    BY <1>1, WorkServed
  <1>4. /\ requests' \in [Clients -> Requests \union {NoRequest}]
        /\ \A d \in Clients : requests'[d] = requests[d]
        /\ ServedInv /\ FileInv /\ LockTypes
    BY <1>2 DEF WorkInv, ServedInv, IInv
  <1>. QED  BY <1>1, <1>2, <1>3, <1>4, MoveKeeps

LEMMA BlockWork ==
    ASSUME WorkInv, NEW c \in Clients, Block(c)
    PROVE  ServedInv' /\ FileInv'
  <1>1. /\ pc[c] = "running" /\ Go(c, "file") /\ file # Db(c)
        /\ UNCHANGED << process, requests, fileVars, reported >>
    BY DEF Block, At
  <1>2. ServedInv'
    BY <1>1, WorkServed DEF WorkInv, IInv, LockTypes, ServedInv, Go
  <1>3. FileInv'
    BY <1>1 DEF WorkInv, IInv, LockTypes, FileInv, Go, Db, fileVars
  <1>. QED  BY <1>2, <1>3

(* Work that locks or unlocks the file: it begins with the call as the     *)
(* owner, or leaves the file free, or in a transaction that panicked or is *)
(* a batch's.                                                              *)
LEMMA FileWork ==
    ASSUME WorkInv, NEW c \in Clients,
           \/ BeginTransaction(c) \/ CommitTransaction(c) \/ EmbedUnit(c)
           \/ DropConnection(c) \/ LeaveBatchOpen(c)
    PROVE  ServedInv' /\ FileInv'
  <1>. USE DEF Succeed, Effect, Fail, Finish
  <1>1. pc[c] \in Working
    BY DEF BeginTransaction, CommitTransaction, EmbedUnit, DropConnection, LeaveBatchOpen,
           At, AtFile
  <1>2. /\ Go(c, "unlock cursors") \/ Go(c, "unit")
        /\ UNCHANGED << process, requests, reported >>
    <2>1. CASE BeginTransaction(c) \/ CommitTransaction(c)
      BY <2>1 DEF BeginTransaction, CommitTransaction
    <2>2. CASE EmbedUnit(c)
      BY <2>2 DEF EmbedUnit
    <2>3. CASE DropConnection(c) \/ LeaveBatchOpen(c)
      BY <2>3 DEF DropConnection, LeaveBatchOpen
    <2>. QED  BY <2>1, <2>2, <2>3
  <1>3. \/ file' = "none"
        \/ opener' \in {"client", "panic", "batch"}
        \/ Go(c, "unit")
        \/ UNCHANGED fileVars /\ pc[c] # "unit"
    <2>1. CASE BeginTransaction(c)
      BY <2>1 DEF BeginTransaction
    <2>2. CASE CommitTransaction(c)
      BY <2>2 DEF CommitTransaction, At
    <2>3. CASE EmbedUnit(c)
      BY <2>3 DEF EmbedUnit
    <2>4. CASE DropConnection(c)
      BY <2>4 DEF DropConnection, At
    <2>5. CASE LeaveBatchOpen(c)
      BY <2>5 DEF LeaveBatchOpen
    <2>. QED  BY <2>1, <2>2, <2>3, <2>4, <2>5
  <1>4. ServedInv'
    BY <1>1, <1>2, WorkServed DEF WorkInv, IInv, LockTypes, ServedInv, Go
  <1>5. \A d \in Clients : pc'[d] # "file"
    BY <1>1, <1>2, NobodyWaits
  <1>6. file' \in Dbs =>
          opener' \in {"client", "panic", "batch"} \/ \E d \in Clients : pc'[d] = "unit"
    <2>1. \A d \in Clients \ {c} : pc'[d] = pc[d]
      BY <1>2 DEF WorkInv, IInv, LockTypes, Go
    <2>2. Go(c, "unit") => pc'[c] = "unit"
      BY DEF WorkInv, IInv, LockTypes, Go
    <2>3. CASE UNCHANGED fileVars /\ pc[c] # "unit"
      BY <2>1, <2>3 DEF WorkInv, FileInv, fileVars
    <2>4. file' = "none" => file' \notin Dbs
      BY DispatchAssumption
    <2>. QED  BY <1>3, <2>2, <2>3, <2>4
  <1>. QED  BY <1>4, <1>5, <1>6 DEF FileInv

LEMMA WorkModels ==
    ASSUME WorkInv, NEW c \in Clients, Work(c)
    PROVE  ModelsInv'
  <1>. USE DEF WorkInv, Backends
  <1>1. CASE EmbedUnit(c)
    <2>1. PICK o \in Inferred("embedding") : models' = [models EXCEPT !["embedding"] = o.model]
      BY <1>1 DEF EmbedUnit
    <2>. QED  BY <1>1, <2>1, InferenceKeeps DEF EmbedUnit
  <1>2. CASE EmbedQuery(c)
    <2>1. PICK o \in Inferred("embedding") : models' = [models EXCEPT !["embedding"] = o.model]
      BY <1>2 DEF EmbedQuery
    <2>. QED  BY <1>2, <2>1, InferenceKeeps DEF EmbedQuery
  <1>3. CASE Rank(c)
    <2>1. PICK o \in Inferred("reranker") \union NotAsked :
            models' = [models EXCEPT !["reranker"] = o.model]
      BY <1>3 DEF Rank
    <2>2. UNCHANGED reported
      BY <1>3 DEF Rank
    <2>3. CASE o \in Inferred("reranker")
      BY <2>1, <2>2, <2>3, InferenceKeeps
    <2>4. CASE o \in NotAsked
      <3>1. models' = models
        BY <2>1, <2>4 DEF NotAsked, ModelsInv
      <3>. QED  BY <2>2, <3>1 DEF ModelsInv, ReadyStaysLoaded
    <2>. QED  BY <2>1, <2>3, <2>4
  <1>4. CASE VectorStatus(c)
    BY <1>4, StatusKeeps
  <1>5. CASE ~(EmbedUnit(c) \/ EmbedQuery(c) \/ Rank(c) \/ VectorStatus(c))
    <2>1. UNCHANGED << models, reported >>
      BY <1>5 DEF Work, DbWork, DropConnection, Block, BusyTimeout, Execute, ExecuteUnit,
                  LeaveBatchOpen, BeginTransaction, BeginFails, CommitTransaction, Poll, runtimeVars
    <2>. QED  BY <2>1 DEF ModelsInv, ReadyStaysLoaded
  <1>. QED  BY <1>1, <1>2, <1>3, <1>4, <1>5

(* The steps on the way to the locks and back move their call, and touch   *)
(* neither the file nor the models.                                        *)
LEMMA WayKeeps ==
    ASSUME WorkInv, NEW c \in Clients,
           Submit(c) \/ (CallStep(c) /\ ~Work(c)) \/ Disconnect(c)
    PROVE  ServedInv' /\ FileInv' /\ ModelsInv'
  <1>1. pc[c] # "unit" /\ UNCHANGED << process, fileVars, models, reported >>
    <2>1. LockRegistry(c) => pc[c] = "registry"
      BY LockRegistryKeeps DEF WorkInv
    <2>. QED  BY <2>1 DEF Submit, CallStep, StartThread, LockRegistry, LockCursors, UnlockCursors,
                 UnlockRegistry, Wake, Disconnect, runtimeVars
  <1>2. process = "up"
    <2>1. LockRegistry(c) => pc[c] = "registry"
      BY LockRegistryKeeps DEF WorkInv
    <2>2. Submit(c) \/ pc[c] # "idle"
      BY <2>1 DEF CallStep, StartThread, LockCursors, UnlockCursors, UnlockRegistry, Wake, Disconnect
    <2>. QED  BY <2>2, WorkServed DEF Submit
  <1>3. \E place \in Places \ {"file"} :
          /\ Go(c, place)
          /\ requests' \in [Clients -> Requests \union {NoRequest}]
          /\ \A d \in Clients \ {c} : requests'[d] = requests[d]
          /\ place # "idle" => requests'[c] \in Requests
    <2>. USE DEF WorkInv, ServedInv
    <2>1. CASE Submit(c)
      BY <2>1 DEF Submit
    <2>2. CASE Disconnect(c)
      BY <2>2 DEF Disconnect, End
    <2>3. CASE UnlockRegistry(c)
      BY <2>3 DEF UnlockRegistry, End
    <2>4. CASE StartThread(c) \/ LockRegistry(c) \/ LockCursors(c) \/ UnlockCursors(c) \/ Wake(c)
      <3>1. pc[c] # "idle"
        BY <2>4, LockRegistryKeeps DEF StartThread, LockCursors, UnlockCursors, Wake
      <3>2. requests[c] \in Requests /\ UNCHANGED requests
        BY <2>4, <3>1 DEF StartThread, LockRegistry, LockCursors, UnlockCursors, Wake
      <3>3. \/ Go(c, "registry") \/ Go(c, "cursors") \/ Go(c, "running")
            \/ Go(c, "unlock registry") \/ Go(c, "spawned")
        BY <2>4 DEF StartThread, LockRegistry, LockCursors, UnlockCursors, Wake
      <3>. QED  BY <3>2, <3>3
    <2>. QED  BY <2>1, <2>2, <2>3, <2>4 DEF CallStep
  <1>4. ServedInv' /\ FileInv'
    BY <1>1, <1>2, <1>3, MoveKeeps DEF WorkInv, IInv
  <1>5. ModelsInv'
    BY <1>1 DEF WorkInv, ModelsInv, ReadyStaysLoaded
  <1>. QED  BY <1>4, <1>5

LEMMA StartupModels ==
    ASSUME NEW usable \in BOOLEAN
    PROVE  Startup(usable) \subseteq [Backends -> ModelStates]
  <1>1. NotLoaded \in [Backends -> ModelStates]
    BY DEF NotLoaded, ModelStates
  <1>2. \A r \in Initialised(usable) \union { [ok |-> TRUE, model |-> "none"] } : r.model \in ModelStates
    BY DEF Initialised, ModelStates
  <1>. QED  BY <1>1, <1>2 DEF Startup, ModelStates

(* The process starts without calls and with nothing known to be ready.    *)
LEMMA ProcessKeeps ==
    ASSUME WorkInv, Start \/ Unpack \/ Crash \/ OtherProgram
    PROVE  ServedInv' /\ FileInv' /\ ModelsInv'
  <1>1. CASE Start \/ Unpack
    <2>1. process # "up" /\ UNCHANGED << callVars, fileVars, reported >>
      BY <1>1 DEF Start, Unpack
    <2>2. reported = {} /\ \A c \in Clients : pc[c] = "idle"
      BY <2>1 DEF WorkInv, ServedInv
    <2>3. models' \in [Backends -> ModelStates]
      <3>1. models' = models \/ models' \in Startup(TRUE) \union Startup(FALSE)
        BY <1>1 DEF Start, Unpack, Serve
      <3>. QED  BY <3>1, StartupModels DEF WorkInv, ModelsInv
    <2>. QED  BY <2>1, <2>2, <2>3 DEF WorkInv, ServedInv, FileInv, ModelsInv, ReadyStaysLoaded,
                                      callVars, fileVars, Db
  <1>2. CASE Crash
    <2>1. ServedInv'
      BY <1>2 DEF Crash, ServedInv
    <2>2. FileInv'
      BY <1>2, DispatchAssumption DEF Crash, FileInv
    <2>3. ModelsInv'
      BY <1>2 DEF Crash, ModelsInv, ReadyStaysLoaded, NotLoaded, ModelStates
    <2>. QED  BY <2>1, <2>2, <2>3
  <1>3. CASE OtherProgram
    <2>1. \A c \in Clients : pc[c] = "file" => Db(c) \in Dbs
      BY WorkServed
    <2>2. /\ file' \in {"none", "other"} /\ "none" \notin Dbs /\ "other" \notin Dbs
          /\ UNCHANGED << process, callVars, models, reported >>
      BY <1>3, DispatchAssumption DEF OtherProgram, runtimeVars
    <2>. QED  BY <2>1, <2>2 DEF WorkInv, ServedInv, FileInv, ModelsInv, ReadyStaysLoaded, callVars, Db
  <1>. QED  BY <1>1, <1>2, <1>3

LEMMA WorkInvInductive == WorkInv /\ [Next]_vars => WorkInv'
  <1>. SUFFICES ASSUME WorkInv, [Next]_vars PROVE WorkInv'
    OBVIOUS
  <1>1. IInv'
    BY StepKeeps DEF WorkInv
  <1>2. CASE UNCHANGED vars
    BY <1>1, <1>2 DEF WorkInv, ServedInv, FileInv, ModelsInv, ReadyStaysLoaded, Db,
                      vars, callVars, fileVars, runtimeVars
  <1>3. CASE Start \/ Unpack \/ Crash \/ OtherProgram
    BY <1>1, <1>3, ProcessKeeps DEF WorkInv
  <1>4. ASSUME NEW c \in Clients, Work(c)
        PROVE  WorkInv'
    <2>1. ServedInv' /\ FileInv'
      BY <1>4, PlainWork, BlockWork, FileWork DEF Work
    <2>. QED  BY <1>1, <1>4, <2>1, WorkModels DEF WorkInv
  <1>5. ASSUME NEW c \in Clients, Submit(c) \/ (CallStep(c) /\ ~Work(c)) \/ Disconnect(c)
        PROVE  WorkInv'
    BY <1>1, <1>5, WayKeeps DEF WorkInv
  <1>. QED  BY <1>2, <1>3, <1>4, <1>5 DEF Next

LEMMA WorkInvCorrect == Spec => []WorkInv
  <1>1. Init => WorkInv
    <2>1. Init => ServedInv /\ FileInv
      BY DispatchAssumption DEF Init, ServedInv, FileInv
    <2>2. Init => ModelsInv
      BY DEF Init, ModelsInv, ReadyStaysLoaded, NotLoaded, ModelStates
    <2>. QED  BY <2>1, <2>2, InitLocks DEF WorkInv
  <1>. QED  BY <1>1, WorkInvInductive, PTL DEF Spec

(* Only three things leave a transaction open on the connection all        *)
(* clients share while nobody works: a client's own BEGIN, a panicking     *)
(* inference of vector_upsert, and a required batch that ends without      *)
(* ROLLBACK.  Upserts that fail in any other way, and units that succeed,  *)
(* leave none.                                                             *)
THEOREM UnitsCorrect == Spec => []UnitsCloseTheirTransaction
  <1>1. WorkInv => UnitsCloseTheirTransaction
    BY DEF WorkInv, FileInv, UnitsCloseTheirTransaction
  <1>. QED  BY <1>1, WorkInvCorrect, PTL

(* What vector_status has called ready after a prewarm stays loaded until  *)
(* the process ends or an inference panics.                                *)
THEOREM ModelsCorrect == Spec => []ReadyStaysLoaded
  <1>1. WorkInv => ReadyStaysLoaded
    BY DEF WorkInv, ModelsInv
  <1>. QED  BY <1>1, WorkInvCorrect, PTL

(* A wait for a file that another database of this server has locked ends  *)
(* by the busy timeout only: whoever could unlock it needs the locks the   *)
(* waiting call holds.                                                     *)
THEOREM WaitsCorrect == Spec => OwnLocksOutlastWaits
  <1>1. ASSUME WorkInv, [Next]_vars, NEW c \in Clients,
               pc[c] = "file", file \in Dbs, process' = "up"
        PROVE  UNCHANGED file /\ (pc'[c] # "file" => answers'[c] = "busy")
    <2>1. process = "up" /\ file # Db(c) /\ file \notin {"none", "other"} /\ registry = c
      BY <1>1, WorkServed, DispatchAssumption DEF WorkInv, FileInv, IInv, LockInv
    <2>2. CASE UNCHANGED vars
      BY <1>1, <2>2 DEF vars, callVars, fileVars
    <2>3. CASE Start \/ Unpack \/ Crash \/ OtherProgram
      BY <1>1, <2>1, <2>3 DEF Start, Unpack, Crash, OtherProgram
    <2>4. ASSUME NEW d \in Clients, Submit(d) \/ CallStep(d) \/ Disconnect(d), d # c
          PROVE  UNCHANGED file /\ pc'[c] = pc[c]
      <3>1. pc[d] \notin Locked
        BY <1>1, <2>4, OneUnderLocks DEF WorkInv
      <3>2. ~Work(d) /\ ~LockCursors(d) /\ ~UnlockCursors(d) /\ ~UnlockRegistry(d)
        BY <3>1, WorkPlaces DEF LockCursors, UnlockCursors, UnlockRegistry
      <3>3. ~LockRegistry(d)
        BY <2>1, DispatchAssumption DEF LockRegistry
      <3>4. UNCHANGED file /\ \E place \in Places : Go(d, place)
        BY <2>4, <3>2, <3>3 DEF CallStep, Submit, StartThread, Wake, Disconnect, End, fileVars
      <3>. QED  BY <1>1, <2>4, <3>4 DEF WorkInv, IInv, LockTypes, Go
    <2>5. CASE Submit(c) \/ CallStep(c) \/ Disconnect(c)
      <3>1. ~LockRegistry(c)
        BY <1>1, LockRegistryKeeps DEF WorkInv
      <3>2. BusyTimeout(c)
        BY <1>1, <2>1, <2>5, <3>1
           DEF CallStep, Submit, Disconnect, StartThread, LockCursors, UnlockCursors, UnlockRegistry,
               Wake, Work, DbWork, DropConnection, Block, Execute, ExecuteUnit, LeaveBatchOpen,
               BeginTransaction, BeginFails,
               CommitTransaction, EmbedUnit, EmbedQuery, Rank, VectorStatus, Poll, At, AtFile
      <3>. QED  BY <1>1, <3>2 DEF BusyTimeout, Fail, Finish, WorkInv, IInv, LockTypes, fileVars
    <2>. QED  BY <1>1, <2>2, <2>3, <2>4, <2>5 DEF Next
  <1>2. WorkInv /\ [Next]_vars =>
          [ \A c \in Clients : pc[c] = "file" /\ file \in Dbs /\ process' = "up" =>
              /\ UNCHANGED file
              /\ pc'[c] # "file" => answers'[c] = "busy" ]_vars
    BY <1>1
  <1>. QED  BY <1>2, WorkInvCorrect, PTL DEF Spec, OwnLocksOutlastWaits

-----------------------------------------------------------------------------
(* The other types                                                         *)

OtherTypes ==
    /\ library \in Libraries /\ dylib \in BOOLEAN
    /\ process \in {"down", "unpacking", "up"}
    /\ polls \in [Clients -> 0 .. MaxPolls]
    /\ file \in Dbs \union {"none", "other"}
    /\ opener \in Openers
    /\ reported \subseteq Backends

LEMMA ProcessTypes ==
    ASSUME OtherTypes, Start \/ Unpack \/ Crash \/ OtherProgram
    PROVE  OtherTypes'
  <1>1. 0 \in 0 .. MaxPolls
    BY DispatchAssumption
  <1>2. library' \in Libraries
    BY DEF OtherTypes, Start, Unpack, UnpackPart, UnpackRest, Crash, OtherProgram, Libraries, runtimeVars
  <1>3. dylib' \in BOOLEAN /\ process' \in {"down", "unpacking", "up"}
    <2>1. CASE Start
      BY <2>1 DEF OtherTypes, Start, Serve
    <2>2. CASE Unpack
      BY <2>2 DEF OtherTypes, Unpack, Serve
    <2>3. CASE Crash \/ OtherProgram
      BY <2>3 DEF OtherTypes, Crash, OtherProgram, runtimeVars
    <2>. QED  BY <2>1, <2>2, <2>3
  <1>4. polls' \in [Clients -> 0 .. MaxPolls] /\ opener' \in Openers
    BY <1>1 DEF OtherTypes, Openers, Start, Unpack, Crash, OtherProgram, callVars, fileVars
  <1>5. file' \in Dbs \union {"none", "other"} /\ reported' \subseteq Backends
    BY DEF OtherTypes, Start, Unpack, Crash, OtherProgram, fileVars
  <1>. QED  BY <1>2, <1>3, <1>4, <1>5 DEF OtherTypes

(* A closure works without the process, and counts its polls up to the     *)
(* last.                                                                   *)
LEMMA WorkTypes ==
    ASSUME OtherTypes, NEW c \in Clients, Work(c), Db(c) \in Dbs
    PROVE  OtherTypes'
  <1>. USE DEF Succeed, Effect, Fail, Finish
  <1>1. UNCHANGED << process, library, dylib >>
    BY DEF Work, DbWork, DropConnection, Block, BusyTimeout, Execute, ExecuteUnit, LeaveBatchOpen,
           BeginTransaction, BeginFails, CommitTransaction, EmbedUnit, EmbedQuery, Rank,
           VectorStatus, Poll, runtimeVars
  <1>2. polls' \in [Clients -> 0 .. MaxPolls]
    <2>1. CASE Poll(c)
      <3>1. \/ UNCHANGED polls
            \/ polls[c] < MaxPolls /\ polls' = [polls EXCEPT ![c] = polls[c] + 1]
        BY <2>1 DEF Poll
      <3>. QED  BY <3>1, DispatchAssumption DEF OtherTypes
    <2>2. CASE ~Poll(c)
      <3>1. UNCHANGED polls
        BY <2>2 DEF Work, DbWork, DropConnection, Block, BusyTimeout, Execute, ExecuteUnit,
                    LeaveBatchOpen, BeginTransaction, BeginFails, CommitTransaction, EmbedUnit,
                    EmbedQuery, Rank, VectorStatus
      <3>. QED  BY <3>1 DEF OtherTypes
    <2>. QED  BY <2>1, <2>2
  <1>3. file' \in Dbs \union {"none", "other"} /\ opener' \in Openers
    BY DEF OtherTypes, Openers, Work, DbWork, DropConnection, Block, BusyTimeout, Execute,
           ExecuteUnit, LeaveBatchOpen, BeginTransaction, BeginFails, CommitTransaction,
           EmbedUnit, EmbedQuery, Rank, VectorStatus, Poll, fileVars
  <1>4. reported' \subseteq Backends
    <2>1. CASE VectorStatus(c)
      <3>1. PICK prewarm \in BOOLEAN : \E status \in Statuses(prewarm) :
              reported' = IF prewarm THEN status.ready ELSE reported
        BY <2>1 DEF VectorStatus
      <3>2. \A status \in Statuses(TRUE) : status.ready \subseteq Configured
        BY DEF Statuses
      <3>3. CASE prewarm = TRUE
        BY <3>1, <3>2, <3>3, ConfiguredAssumption
      <3>4. CASE prewarm = FALSE
        BY <3>1, <3>4 DEF OtherTypes
      <3>. QED  BY <3>3, <3>4
    <2>2. CASE ~VectorStatus(c)
      <3>1. UNCHANGED reported
        BY <2>2 DEF Work, DbWork, DropConnection, Block, BusyTimeout, Execute, ExecuteUnit,
                    LeaveBatchOpen, BeginTransaction, BeginFails, CommitTransaction, EmbedUnit,
                    EmbedQuery, Rank, Poll
      <3>. QED  BY <3>1 DEF OtherTypes
    <2>. QED  BY <2>1, <2>2
  <1>. QED  BY <1>1, <1>2, <1>3, <1>4 DEF OtherTypes

LEMMA WayTypes ==
    ASSUME OtherTypes, NEW c \in Clients,
           Submit(c) \/ (CallStep(c) /\ ~Work(c)) \/ Disconnect(c)
    PROVE  OtherTypes'
  <1>1. UNCHANGED << process, fileVars, runtimeVars, reported >>
    BY DEF Submit, CallStep, StartThread, LockRegistry, LockCursors, UnlockCursors,
           UnlockRegistry, Wake, Disconnect
  <1>2. polls' = polls \/ polls' = [polls EXCEPT ![c] = 0]
    BY DEF Submit, CallStep, StartThread, LockRegistry, LockCursors, UnlockCursors,
           UnlockRegistry, Wake, Disconnect, End
  <1>. QED  BY <1>1, <1>2, DispatchAssumption DEF OtherTypes, fileVars, runtimeVars

LEMMA TypesInductive == WorkInv /\ OtherTypes /\ [Next]_vars => OtherTypes'
  <1>. SUFFICES ASSUME WorkInv, OtherTypes, [Next]_vars PROVE OtherTypes'
    OBVIOUS
  <1>1. CASE UNCHANGED vars
    BY <1>1 DEF OtherTypes, vars, callVars, fileVars, runtimeVars
  <1>2. CASE Start \/ Unpack \/ Crash \/ OtherProgram
    BY <1>2, ProcessTypes
  <1>3. ASSUME NEW c \in Clients, Work(c)
        PROVE  OtherTypes'
    BY <1>3, WorkTypes, WorkPlaces, WorkServed
  <1>4. ASSUME NEW c \in Clients, Submit(c) \/ (CallStep(c) /\ ~Work(c)) \/ Disconnect(c)
        PROVE  OtherTypes'
    BY <1>4, WayTypes
  <1>. QED  BY <1>1, <1>2, <1>3, <1>4 DEF Next

(* TypeOK of Dispatch: above all, no wait polls more often than its        *)
(* timeout allows, and a closure ends with a result of its own kind.       *)
THEOREM TypeCorrect == Spec => []TypeOK
  <1>1. Init => OtherTypes
    <2>. SUFFICES ASSUME Init PROVE OtherTypes
      OBVIOUS
    <2>1. library \in Libraries /\ dylib \in BOOLEAN
      BY Zenon DEF Init, Libraries
    <2>2. process \in {"down", "unpacking", "up"} /\ opener \in Openers
      BY DEF Init, Openers
    <2>3. polls \in [Clients -> 0 .. MaxPolls]
      BY DispatchAssumption DEF Init
    <2>4. file \in Dbs \union {"none", "other"} /\ reported \subseteq Backends
      BY DEF Init
    <2>. QED  BY <2>1, <2>2, <2>3, <2>4 DEF OtherTypes
  <1>2. WorkInv /\ OtherTypes => TypeOK
    BY DEF WorkInv, IInv, LockTypes, ServedInv, ModelsInv, OtherTypes, TypeOK, RuntimesTypeOK
  <1>. QED  BY <1>1, <1>2, TypesInductive, WorkInvCorrect, PTL DEF Spec
=============================================================================
