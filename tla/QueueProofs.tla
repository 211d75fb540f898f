---------------------------- MODULE QueueProofs -----------------------------
(***************************************************************************)
(* Proofs about Queue, for any waiters, texts of visible_at, timeouts and  *)
(* bounds: types, which jobs a client may pass without receiving them, and *)
(* how punctual the comparison of time stamps as text is.                  *)
(***************************************************************************)
EXTENDS Queue, WellFoundedInduction, TLAPS

(* Ids that were never handed out are not in the table, and a job that is  *)
(* not late can be seen from now on.                                       *)
TableInv(table) ==
    /\ DOMAIN table \subseteq 1 .. top
    /\ \A id \in DOMAIN table : table[id].late \/ VisibleFromNow(table[id].visible_at)

(* OnlyLateJobsArePassed in every phase: a client between two calls goes   *)
(* on with what it has.                                                    *)
Passed(wait) ==
    /\ wait.after_id <= top
    /\ \A id \in DOMAIN jobs \ (wait.old \union wait.got) :
         id <= wait.after_id => jobs[id].late

QueueInv ==
    /\ TypeOK
    /\ TableInv(jobs)
    /\ \A s \in saved : TableInv(s.jobs)
    /\ \A w \in Waiters : Passed(waits[w])

-----------------------------------------------------------------------------
(* Time                                                                    *)

(* A set of naturals has a least element.                                  *)
LEMMA Least ==
    ASSUME NEW S, S \subseteq Nat, S # {}
    PROVE  \E x \in S : \A y \in S : x <= y
  <1>1. IsWellFoundedOn(OpToRel(<, Nat), Nat)
    BY NatLessThanWellFounded
  <1>2. PICK x \in S : \A y \in S : << y, x >> \notin OpToRel(<, Nat)
    BY <1>1, WFMin
  <1>3. \A y \in S : ~(y < x)
    BY <1>2 DEF OpToRel
  <1>. QED  BY <1>3

(* What can be seen from now on can be seen now, and later.                *)
LEMMA SeenNow ==
    ASSUME NEW t \in Nat, now \in Nat, VisibleFromNow(t)
    PROVE  TextLeq(t, now)
  BY DEF VisibleFromNow, TextLeq

LEMMA SeenLater ==
    ASSUME NEW t \in Nat, now \in Nat, VisibleFromNow(t), now' = now + 1
    PROVE  VisibleFromNow(t)'
  <1>1. \/ Second(t) < Second(now)
        \/ Second(t) = Second(now) /\ t % 2 >= now % 2 /\ t % 2 >= 1
    BY DEF VisibleFromNow, TextLeq, Second
  <1>2. \/ Second(now + 1) = Second(now) /\ (now + 1) % 2 = 1
        \/ Second(now + 1) = Second(now) + 1
    BY DEF Second
  <1>3. Second(2 * Second(now + 1) + 1) = Second(now + 1) /\ (2 * Second(now + 1) + 1) % 2 = 1
    BY DEF Second
  <1>4. Second(t) \in Nat /\ Second(now) \in Nat
    BY DEF Second
  <1>. QED  BY <1>1, <1>2, <1>3, <1>4 DEF VisibleFromNow, TextLeq

(* As text a time stamp is compared to the second.                         *)
LEMMA TextToTheSecond ==
    ASSUME NEW t \in Nat, NEW u \in Nat
    PROVE  /\ TextLeq(t, u) => t < u + 2
           /\ ~TextLeq(t, u) => t > u - 2
  BY DEF TextLeq, Second

(* A poll that leaves a visible job to the next call takes an earlier one. *)
LEMMA SomeAreFirst ==
    ASSUME TypeOK, NEW after_id \in Nat, FirstVisible(after_id) = {}
    PROVE  VisibleAfter(after_id) = {}
  <1>1. VisibleAfter(after_id) \subseteq Nat
    BY DEF VisibleAfter, TypeOK, IsTable, Ids
  <1>2. VisibleAfter(after_id) # {} => FirstVisible(after_id) # {}
    BY <1>1, Least DEF FirstVisible
  <1>. QED  BY <1>2

-----------------------------------------------------------------------------
(* The invariant                                                           *)

LEMMA InitQueue == Init => QueueInv
  BY QueueAssumption
  DEF Init, QueueInv, TypeOK, IsTable, TableInv, Passed, NoJobs, NoWait, Waits, Ids, Jobs

(* A new row: its id is late unless it is greater than all before.         *)
LEMMA PushInv ==
    ASSUME QueueInv, QueuePush
    PROVE  QueueInv'
  <1>1. PICK id \in Ids, visible_at \in Stamps \union {now}, in_form \in BOOLEAN :
          /\ id = seq + 1
          /\ jobs' = [i \in DOMAIN jobs \union {id} |->
                        IF i = id
                        THEN [ visible_at |-> visible_at, in_form |-> in_form,
                               late |-> id <= top \/ ~VisibleFromNow(visible_at) ]
                        ELSE jobs[i]]
          /\ seq' = id
          /\ top' = IF id > top THEN id ELSE top
          /\ UNCHANGED << now, saved, waits >>
    BY DEF QueuePush
  <1> DEFINE job == [ visible_at |-> visible_at, in_form |-> in_form,
                      late |-> id <= top \/ ~VisibleFromNow(visible_at) ]
  <1>2. job \in Jobs
    BY QueueAssumption DEF Jobs, Times, QueueInv, TypeOK
  <1>3. /\ job.late <=> id <= top \/ ~VisibleFromNow(visible_at)
        /\ job.visible_at = visible_at
    OBVIOUS
  <1>4. /\ DOMAIN jobs' = DOMAIN jobs \union {id}
        /\ jobs'[id] = job
        /\ \A i \in DOMAIN jobs \ {id} : jobs'[i] = jobs[i]
    BY <1>1
  <1>5. top \in Nat /\ id \in Nat /\ top' \in Nat /\ top <= top' /\ id \in 1 .. top' /\ top' \in 0 .. MaxId
    BY <1>1, QueueAssumption DEF QueueInv, TypeOK, Ids
  <1> HIDE DEF job
  <1>6. IsTable(jobs')
    BY <1>1, <1>2, <1>4 DEF QueueInv, TypeOK, IsTable
  <1>7. TypeOK'
    BY <1>1, <1>5, <1>6, QueueAssumption DEF QueueInv, TypeOK, IsTable, Ids, Waits, Jobs, Times
  <1>8. UNCHANGED now /\ \A t : VisibleFromNow(t)' <=> VisibleFromNow(t)
    BY <1>1 DEF VisibleFromNow
  <1>9. TableInv(jobs)'
    <2>1. DOMAIN jobs' \subseteq 1 .. top'
      BY <1>4, <1>5 DEF QueueInv, TableInv
    <2>2. \A i \in DOMAIN jobs' : jobs'[i].late \/ VisibleFromNow(jobs'[i].visible_at)
      BY <1>3, <1>4 DEF QueueInv, TableInv
    <2>. QED  BY <1>8, <2>1, <2>2 DEF TableInv
  <1>10. \A s \in saved' : TableInv(s.jobs)'
    BY <1>1, <1>5, <1>8 DEF QueueInv, TableInv
  <1>11. \A w \in Waiters : Passed(waits[w])'
    <2> SUFFICES ASSUME NEW w \in Waiters PROVE Passed(waits[w])'
      OBVIOUS
    <2>1. waits[w].after_id \in Nat /\ waits' = waits /\ Passed(waits[w])
      BY <1>1 DEF QueueInv, TypeOK, Waits
    <2>. QED  BY <1>3, <1>4, <1>5, <2>1 DEF Passed
  <1>. QED  BY <1>7, <1>9, <1>10, <1>11 DEF QueueInv

(* Rows that stay keep what they were; nobody passes a new one.            *)
LEMMA TableChangeInv ==
    ASSUME QueueInv, DeleteJob \/ DropTable \/ Reset \/ RollbackTransaction
    PROVE  QueueInv'
  <1>1. UNCHANGED << now, top, waits >> /\ (UNCHANGED saved \/ saved' = {})
    BY DEF DeleteJob, DropTable, Reset, RollbackTransaction
  <1>2. /\ IsTable(jobs') /\ DOMAIN jobs' \subseteq 1 .. top
        /\ \A id \in DOMAIN jobs' :
             /\ jobs'[id].late \/ VisibleFromNow(jobs'[id].visible_at)
             /\ id \in DOMAIN jobs /\ jobs[id].late => jobs'[id].late
             /\ id \notin DOMAIN jobs => jobs'[id].late
        /\ seq' \in 0 .. MaxId
    <2>1. CASE DropTable \/ Reset
      <3>1. DOMAIN jobs' = {} /\ seq' = 0 /\ jobs' \in [{} -> Jobs]
        BY <2>1 DEF DropTable, Reset, NoJobs
      <3>. QED  BY <3>1, QueueAssumption DEF IsTable
    <2>2. CASE DeleteJob
      BY <2>2 DEF DeleteJob, QueueInv, TypeOK, IsTable, TableInv
    <2>3. CASE RollbackTransaction
      <3>1. PICK s \in saved :
              /\ jobs' = [id \in DOMAIN s.jobs |->
                            [s.jobs[id] EXCEPT !.late = @ \/ id \notin DOMAIN jobs \/ jobs[id].late]]
              /\ seq' = s.seq
        BY <2>3 DEF RollbackTransaction
      <3>2. IsTable(s.jobs) /\ TableInv(s.jobs) /\ s.seq \in 0 .. MaxId
        BY DEF QueueInv, TypeOK
      <3>3. \A id \in DOMAIN s.jobs :
              /\ jobs'[id] \in Jobs
              /\ jobs'[id].visible_at = s.jobs[id].visible_at
              /\ jobs'[id].late <=> s.jobs[id].late \/ id \notin DOMAIN jobs \/ jobs[id].late
        BY <3>1, <3>2 DEF IsTable, Jobs, QueueInv, TypeOK
      <3>. QED  BY <3>1, <3>2, <3>3 DEF IsTable, TableInv
    <2>. QED  BY <2>1, <2>2, <2>3
  <1>3. TypeOK'
    BY <1>1, <1>2 DEF QueueInv, TypeOK, IsTable
  <1>4. \A t : VisibleFromNow(t)' <=> VisibleFromNow(t)
    BY <1>1 DEF VisibleFromNow
  <1>5. TableInv(jobs)' /\ \A s \in saved' : TableInv(s.jobs)'
    BY <1>1, <1>2, <1>4 DEF QueueInv, TableInv
  <1>6. \A w \in Waiters : Passed(waits[w])'
    BY <1>1, <1>2 DEF QueueInv, Passed
  <1>. QED  BY <1>3, <1>5, <1>6 DEF QueueInv

LEMMA TransactionInv ==
    ASSUME QueueInv, BeginTransaction \/ CommitTransaction
    PROVE  QueueInv'
  <1>1. /\ UNCHANGED << now, jobs, seq, top, waits >>
        /\ \A s \in saved' : s.jobs = jobs /\ s.seq = seq
    BY DEF BeginTransaction, CommitTransaction
  <1>2. \A t : VisibleFromNow(t)' <=> VisibleFromNow(t)
    BY <1>1 DEF VisibleFromNow
  <1>3. \A table : TableInv(table)' <=> TableInv(table)
    BY <1>1, <1>2 DEF TableInv
  <1>. QED  BY <1>1, <1>3 DEF QueueInv, TypeOK, IsTable, Passed

LEMMA TickInv ==
    ASSUME QueueInv, Tick
    PROVE  QueueInv'
  <1>1. /\ now \in Nat /\ now' = now + 1 /\ now' \in 0 .. MaxTime
        /\ UNCHANGED << jobs, seq, saved, top, waits >>
    BY QueueAssumption DEF Tick, QueueInv, TypeOK
  <1>2. ASSUME NEW table, IsTable(table), TableInv(table) PROVE TableInv(table)'
    BY <1>1, <1>2, SeenLater DEF IsTable, TableInv, Jobs, Times
  <1>. QED  BY <1>1, <1>2 DEF QueueInv, TypeOK, IsTable, Passed

(* A step of one client's call: the others and the table stay.             *)
LEMMA CallInv ==
    ASSUME QueueInv, NEW w \in Waiters, NEW wait \in Waits, Passed(wait),
           waits' = [waits EXCEPT ![w] = wait], UNCHANGED << now, jobs, seq, saved, top >>
    PROVE  QueueInv'
  <1>1. \A t : VisibleFromNow(t)' <=> VisibleFromNow(t)
    BY DEF VisibleFromNow
  <1>2. \A table : TableInv(table)' <=> TableInv(table)
    BY <1>1 DEF TableInv
  <1>3. \A v \in Waiters : Passed(waits[v])'
    BY DEF QueueInv, TypeOK, Passed
  <1>. QED  BY <1>2, <1>3 DEF QueueInv, TypeOK, IsTable

LEMMA QueueWaitInv ==
    ASSUME QueueInv, NEW w \in Waiters, QueueWait(w)
    PROVE  QueueInv'
  <1>1. PICK baseline \in {"new", "existing", "after_id"} :
          waits' = [waits EXCEPT ![w].phase = "planning", ![w].baseline = baseline,
                                 ![w].timeout_at = now + Timeout]
    BY DEF QueueWait
  <1> DEFINE wait == [waits[w] EXCEPT !.phase = "planning", !.baseline = baseline,
                                      !.timeout_at = now + Timeout]
  <1>2. waits[w] \in Waits /\ waits \in [Waiters -> Waits] /\ Passed(waits[w])
    BY DEF QueueInv, TypeOK
  <1>3. wait \in Waits /\ Passed(wait)
    <2>1. now + Timeout \in 0 .. MaxTime
      BY QueueAssumption DEF QueueWait, QueueInv, TypeOK
    <2>2. wait \in Waits
      BY <1>2, <2>1 DEF Waits
    <2>3. wait.after_id = waits[w].after_id /\ wait.old = waits[w].old /\ wait.got = waits[w].got
      BY <1>2 DEF Waits
    <2>. QED  BY <1>2, <2>2, <2>3 DEF Passed
  <1>4. waits' = [waits EXCEPT ![w] = wait] /\ UNCHANGED << now, jobs, seq, saved, top >>
    BY <1>1, <1>2 DEF QueueWait
  <1> HIDE DEF wait
  <1>. QED  BY <1>3, <1>4, CallInv

(* The plan: go on where the call before has ended, or with everything     *)
(* that is there now passed on purpose.                                    *)
LEMMA PlanInv ==
    ASSUME QueueInv, NEW w \in Waiters, BuildWaitPlan(w)
    PROVE  QueueInv'
  <1> DEFINE wait == [waits[w] EXCEPT !.phase = "polling", !.baseline = "new"]
  <1>1. waits[w] \in Waits /\ waits \in [Waiters -> Waits] /\ Passed(waits[w])
    BY DEF QueueInv, TypeOK
  <1>2. UNCHANGED << now, jobs, seq, saved, top >>
    BY DEF BuildWaitPlan
  <1>3. DOMAIN jobs \subseteq Ids /\ DOMAIN jobs \subseteq 1 .. top /\ top \in 0 .. MaxId
    BY DEF QueueInv, TypeOK, IsTable, TableInv
  <1>4. CASE waits[w].baseline = "after_id"
    <2>1. wait \in Waits /\ Passed(wait)
      BY <1>1 DEF Waits, Passed
    <2>2. waits' = [waits EXCEPT ![w] = wait]
      BY <1>4 DEF BuildWaitPlan
    <2> HIDE DEF wait
    <2>. QED  BY <1>2, <2>1, <2>2, CallInv
  <1>5. CASE waits[w].baseline = "existing"
    <2> DEFINE existing == [wait EXCEPT !.after_id = 0, !.old = {}, !.got = {}]
    <2>1. existing \in Waits /\ Passed(existing)
      <3>1. existing \in Waits
        <4>1. 0 \in 0 .. MaxId /\ {} \in SUBSET Ids
          BY QueueAssumption
        <4>. QED  BY <1>1, <4>1 DEF Waits
      <3>2. existing.after_id = 0 /\ existing.old = {} /\ existing.got = {}
        BY <1>1 DEF Waits
      <3>. QED  BY <1>3, <3>1, <3>2 DEF Passed
    <2>2. waits' = [waits EXCEPT ![w] = existing]
      BY <1>5 DEF BuildWaitPlan
    <2> HIDE DEF existing
    <2>. QED  BY <1>2, <2>1, <2>2, CallInv
  <1>6. CASE waits[w].baseline = "new"
    <2>1. PICK max_id \in CurrentMaxQueueId :
            waits' = [waits EXCEPT ![w] =
                        [wait EXCEPT !.after_id = max_id, !.old = DOMAIN jobs, !.got = {}]]
      BY <1>6 DEF BuildWaitPlan
    <2> DEFINE new == [wait EXCEPT !.after_id = max_id, !.old = DOMAIN jobs, !.got = {}]
    <2>2. max_id \in 0 .. top
      BY <1>3 DEF CurrentMaxQueueId
    <2>3. new \in Waits /\ Passed(new)
      <3>1. max_id \in 0 .. MaxId
        BY <1>3, <2>2, QueueAssumption
      <3>2. new \in Waits
        BY <1>1, <1>3, <3>1 DEF Waits
      <3>3. new.after_id = max_id /\ new.old = DOMAIN jobs
        BY <1>1 DEF Waits
      <3>. QED  BY <1>3, <2>2, <3>2, <3>3 DEF Passed
    <2> HIDE DEF new
    <2>. QED  BY <1>2, <2>1, <2>3, CallInv DEF new
  <1>. QED  BY <1>1, <1>4, <1>5, <1>6 DEF Waits

(* A poll passes the rows before the one it takes: those it cannot see     *)
(* have been late since they were pushed.                                  *)
LEMMA PollInv ==
    ASSUME QueueInv, NEW w \in Waiters, PollVisibleJob(w)
    PROVE  QueueInv'
  <1> DEFINE wait == [waits[w] EXCEPT !.wake_at = 0]
  <1>1. waits[w] \in Waits /\ waits \in [Waiters -> Waits] /\ Passed(waits[w])
    BY DEF QueueInv, TypeOK
  <1>2. UNCHANGED << now, jobs, seq, saved, top >>
    BY DEF PollVisibleJob
  <1>3. wait \in Waits /\ wait.after_id = waits[w].after_id
    BY <1>1, QueueAssumption DEF Waits
  <1>4. CASE waits' = [waits EXCEPT ![w] = [wait EXCEPT !.phase = "checking"]]
    <2> DEFINE checking == [wait EXCEPT !.phase = "checking"]
    <2>1. checking \in Waits /\ Passed(checking)
      <3>1. 0 \in 0 .. (MaxTime + Interval)
        BY QueueAssumption
      <3>2. checking \in Waits
        BY <1>1, <3>1 DEF Waits
      <3>3. /\ checking.after_id = waits[w].after_id
            /\ checking.old = waits[w].old /\ checking.got = waits[w].got
        BY <1>1 DEF Waits
      <3>. QED  BY <1>1, <3>2, <3>3 DEF Passed
    <2> HIDE DEF checking
    <2>. QED  BY <1>2, <1>4, <2>1, CallInv DEF checking
  <1>5. ASSUME NEW id \in FirstVisible(wait.after_id),
               waits' = [waits EXCEPT ![w] =
                           [wait EXCEPT !.phase = "found", !.timeout_at = 0,
                                        !.after_id = id, !.got = @ \union {id}]]
        PROVE  QueueInv'
    <2> DEFINE found == [wait EXCEPT !.phase = "found", !.timeout_at = 0,
                                     !.after_id = id, !.got = @ \union {id}]
    <2>1. id \in DOMAIN jobs /\ id \in Ids /\ id \in 1 .. top
      BY DEF FirstVisible, VisibleAfter, QueueInv, TypeOK, IsTable, TableInv
    <2>2. found \in Waits /\ found.after_id = id /\ found.old = waits[w].old
            /\ found.got = waits[w].got \union {id}
      <3>1. 0 \in 0 .. (MaxTime + Interval) /\ 0 \in 0 .. MaxTime /\ id \in 0 .. MaxId
        BY <2>1, QueueAssumption DEF Ids
      <3>2. waits[w].got \union {id} \in SUBSET Ids
        BY <1>1, <2>1 DEF Waits
      <3>. QED  BY <1>1, <3>1, <3>2 DEF Waits
    <2>3. ASSUME NEW other \in DOMAIN jobs, other > waits[w].after_id, other < id
          PROVE  jobs[other].late
      <3>1. other \notin VisibleAfter(wait.after_id)
        BY <1>1, <2>1, <2>3 DEF FirstVisible, VisibleAfter, QueueInv, TypeOK, IsTable, Ids, Waits
      <3>2. ~TextLeq(jobs[other].visible_at, now)
        BY <1>3, <2>3, <3>1 DEF VisibleAfter
      <3>3. jobs[other].visible_at \in Nat /\ now \in Nat
        BY DEF QueueInv, TypeOK, IsTable, Jobs, Times
      <3>. QED  BY <3>2, <3>3, SeenNow DEF QueueInv, TableInv
    <2>4. Passed(found)
      <3> SUFFICES ASSUME NEW other \in DOMAIN jobs \ (found.old \union found.got),
                          other <= found.after_id
                   PROVE  jobs[other].late
        BY <2>1, <2>2 DEF Passed, QueueInv, TypeOK
      <3>1. other \in Nat /\ id \in Nat /\ waits[w].after_id \in Nat /\ other < id
        BY <1>1, <2>1, <2>2 DEF QueueInv, TypeOK, IsTable, Ids, Waits
      <3>2. CASE other <= waits[w].after_id
        BY <1>1, <2>2, <3>2 DEF Passed
      <3>. QED  BY <2>3, <3>1, <3>2
    <2> HIDE DEF found
    <2>. QED  BY <1>2, <1>5, <2>2, <2>4, CallInv DEF found
  <1>. QED  BY <1>4, <1>5 DEF PollVisibleJob

LEMMA CheckInv ==
    ASSUME QueueInv, NEW w \in Waiters, CheckTimeout(w)
    PROVE  QueueInv'
  <1> DEFINE over == [NoWait EXCEPT !.phase = "timed_out"]
             asleep == [waits[w] EXCEPT !.phase = "sleeping", !.wake_at = now + Interval]
  <1>1. waits[w] \in Waits /\ waits \in [Waiters -> Waits] /\ Passed(waits[w])
    BY DEF QueueInv, TypeOK
  <1>2. UNCHANGED << now, jobs, seq, saved, top >>
    BY DEF CheckTimeout
  <1>3. over \in Waits /\ Passed(over)
    BY QueueAssumption DEF NoWait, Waits, Passed, QueueInv, TypeOK, IsTable, Ids
  <1>4. asleep \in Waits /\ Passed(asleep)
    <2>1. now + Interval \in 0 .. (MaxTime + Interval)
      BY QueueAssumption DEF QueueInv, TypeOK
    <2>2. asleep \in Waits
      BY <1>1, <2>1 DEF Waits
    <2>3. asleep.after_id = waits[w].after_id /\ asleep.old = waits[w].old /\ asleep.got = waits[w].got
      BY <1>1 DEF Waits
    <2>. QED  BY <1>1, <2>2, <2>3 DEF Passed
  <1>5. waits' = [waits EXCEPT ![w] = over] \/ waits' = [waits EXCEPT ![w] = asleep]
    BY <1>1 DEF CheckTimeout
  <1> HIDE DEF over, asleep
  <1>. QED  BY <1>2, <1>3, <1>4, <1>5, CallInv

LEMMA FailInv ==
    ASSUME QueueInv, NEW w \in Waiters, WaitFails(w)
    PROVE  QueueInv'
  <1>1. NoWait \in Waits /\ Passed(NoWait)
    BY QueueAssumption DEF NoWait, Waits, Passed, QueueInv, TypeOK, IsTable, Ids
  <1>. QED  BY <1>1, CallInv DEF WaitFails

LEMMA QueueInvInductive == QueueInv /\ [Next]_vars => QueueInv'
  <1>. SUFFICES ASSUME QueueInv, [Next]_vars PROVE QueueInv'
    OBVIOUS
  <1>1. CASE QueuePush
    BY <1>1, PushInv
  <1>2. CASE DeleteJob \/ DropTable \/ Reset \/ RollbackTransaction
    BY <1>2, TableChangeInv
  <1>3. CASE BeginTransaction \/ CommitTransaction
    BY <1>3, TransactionInv
  <1>4. ASSUME NEW w \in Waiters,
               \/ QueueWait(w) \/ BuildWaitPlan(w) \/ PollVisibleJob(w)
               \/ CheckTimeout(w) \/ WaitFails(w)
        PROVE  QueueInv'
    BY <1>4, QueueWaitInv, PlanInv, PollInv, CheckInv, FailInv
  <1>5. CASE Tick
    BY <1>5, TickInv
  <1>6. CASE UNCHANGED vars
    BY <1>6 DEF vars, QueueInv, TypeOK, IsTable, TableInv, VisibleFromNow, Passed
  <1>. QED  BY <1>1, <1>2, <1>3, <1>4, <1>5, <1>6 DEF Next

-----------------------------------------------------------------------------
(* The theorems                                                            *)

LEMMA QueueInvCorrect == Spec => []QueueInv
  BY InitQueue, QueueInvInductive, PTL DEF Spec

(* Every state of the queue is made of values of its types.                *)
THEOREM TypeCorrect == Spec => []TypeOK
  BY QueueInvCorrect, PTL DEF QueueInv

(* A client that follows the hints misses late jobs only, however many     *)
(* clients and jobs there are and whatever visible_at says.                *)
THEOREM PassedCorrect == Spec => []OnlyLateJobsArePassed
  <1>1. QueueInv => OnlyLateJobsArePassed
    BY DEF QueueInv, Passed, OnlyLateJobsArePassed
  <1>. QED  BY <1>1, QueueInvCorrect, PTL

(* Polls are right to the second, either way, for the jobs whose           *)
(* visible_at is in the server's own form.                                 *)
THEOREM PunctualCorrect == Spec => PollsArePunctual
  <1>1. ASSUME QueueInv, [Next]_vars, NEW w \in Waiters, waits[w].phase \in {"polling", "sleeping"}
        PROVE  /\ waits'[w].phase = "checking" =>
                    \A id \in DOMAIN jobs :
                        jobs[id].in_form /\ id > waits[w].after_id =>
                            jobs[id].visible_at > now - 2
               /\ waits'[w].phase = "found" =>
                    LET job == jobs[waits'[w].after_id]
                    IN job.in_form => job.visible_at < now + 2
    <2>1. waits[w] \in Waits /\ waits \in [Waiters -> Waits]
      BY <1>1 DEF QueueInv, TypeOK
    <2>2. now \in Nat /\ \A id \in DOMAIN jobs : jobs[id].visible_at \in Nat
      BY <1>1 DEF QueueInv, TypeOK, IsTable, Jobs, Times
    <2>3. CASE ~PollVisibleJob(w)
      <3>1. waits'[w].phase \notin {"checking", "found"}
        <4>1. CASE UNCHANGED waits
          BY <1>1, <4>1
        <4>2. ASSUME NEW v \in Waiters, v # w,
                     \/ QueueWait(v) \/ BuildWaitPlan(v) \/ PollVisibleJob(v)
                     \/ CheckTimeout(v) \/ WaitFails(v)
              PROVE  waits'[w] = waits[w]
          <5>1. CASE QueueWait(v) \/ CheckTimeout(v) \/ WaitFails(v)
            BY <2>1, <4>2, <5>1 DEF QueueWait, CheckTimeout, WaitFails
          <5>2. CASE BuildWaitPlan(v)
            <6>1. waits[v].baseline \in {"new", "existing", "after_id"}
              BY <2>1 DEF Waits
            <6>. QED  BY <2>1, <4>2, <5>2, <6>1 DEF BuildWaitPlan
          <5>3. CASE PollVisibleJob(v)
            BY <2>1, <4>2, <5>3 DEF PollVisibleJob
          <5>. QED  BY <4>2, <5>1, <5>2, <5>3
        <4>3. CASE WaitFails(w)
          BY <2>1, <4>3 DEF WaitFails, NoWait
        <4>4. ~QueueWait(w) /\ ~BuildWaitPlan(w) /\ ~CheckTimeout(w)
          BY <1>1 DEF QueueWait, BuildWaitPlan, CheckTimeout
        <4>5. CASE \/ QueuePush \/ DeleteJob \/ DropTable \/ BeginTransaction
                   \/ CommitTransaction \/ RollbackTransaction \/ Reset \/ Tick
          BY <4>1, <4>5 DEF QueuePush, DeleteJob, DropTable, BeginTransaction, CommitTransaction,
                            RollbackTransaction, Reset, Tick
        <4>. QED  BY <1>1, <2>3, <4>1, <4>2, <4>3, <4>4, <4>5 DEF Next, vars
      <3>. QED  BY <3>1
    <2>4. CASE PollVisibleJob(w)
      <3>1. CASE FirstVisible(waits[w].after_id) = {} /\ waits'[w].phase = "checking"
        <4>1. VisibleAfter(waits[w].after_id) = {}
          BY <1>1, <2>1, <3>1, SomeAreFirst DEF QueueInv, Waits
        <4>2. \A id \in DOMAIN jobs : id > waits[w].after_id => ~TextLeq(jobs[id].visible_at, now)
          BY <4>1 DEF VisibleAfter
        <4>. QED  BY <2>2, <3>1, <4>2, TextToTheSecond
      <3>2. ASSUME NEW id \in FirstVisible(waits[w].after_id),
                   waits'[w].phase = "found", waits'[w].after_id = id
            PROVE  jobs[id].visible_at < now + 2
        BY <2>2, <3>2, TextToTheSecond DEF FirstVisible, VisibleAfter
      <3>3. \/ FirstVisible(waits[w].after_id) = {} /\ waits'[w].phase = "checking"
            \/ \E id \in FirstVisible(waits[w].after_id) :
                 waits'[w].phase = "found" /\ waits'[w].after_id = id
        <4> DEFINE wait == [waits[w] EXCEPT !.wake_at = 0]
        <4>1. wait.after_id = waits[w].after_id
          BY <2>1 DEF Waits
        <4>2. \/ /\ FirstVisible(wait.after_id) = {}
                 /\ waits'[w] = [wait EXCEPT !.phase = "checking"]
              \/ \E id \in FirstVisible(wait.after_id) :
                   waits'[w] = [wait EXCEPT !.phase = "found", !.timeout_at = 0,
                                            !.after_id = id, !.got = @ \union {id}]
          BY <2>1, <2>4 DEF PollVisibleJob
        <4>3. CASE FirstVisible(wait.after_id) = {} /\ waits'[w] = [wait EXCEPT !.phase = "checking"]
          BY <2>1, <4>1, <4>3 DEF Waits
        <4>4. ASSUME NEW id \in FirstVisible(wait.after_id),
                     waits'[w] = [wait EXCEPT !.phase = "found", !.timeout_at = 0,
                                              !.after_id = id, !.got = @ \union {id}]
              PROVE  waits'[w].phase = "found" /\ waits'[w].after_id = id
          BY <2>1, <4>4 DEF Waits
        <4>. QED  BY <4>1, <4>2, <4>3, <4>4
      <3>. QED  BY <3>1, <3>2, <3>3
    <2>. QED  BY <2>3, <2>4
  <1>2. QueueInv /\ [Next]_vars =>
          [ \A w \in Waiters :
              LET wait == waits[w]
              IN wait.phase \in {"polling", "sleeping"} =>
                   /\ waits'[w].phase = "checking" =>
                        \A id \in DOMAIN jobs :
                            jobs[id].in_form /\ id > wait.after_id =>
                                jobs[id].visible_at > now - 2
                   /\ waits'[w].phase = "found" =>
                        LET job == jobs[waits'[w].after_id]
                        IN job.in_form => job.visible_at < now + 2 ]_vars
    BY <1>1
  <1>. QED  BY <1>2, QueueInvCorrect, PTL DEF Spec, PollsArePunctual
=============================================================================
