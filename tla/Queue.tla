------------------------------- MODULE Queue --------------------------------
(***************************************************************************)
(* queue_push and queue_wait on one queue of one database: jobs are rows   *)
(* of _queue_jobs; a wait is a plan and a sequence of polls, each of them  *)
(* under the registry's lock, between which other calls run.               *)
(*                                                                         *)
(* Time is counted in half seconds, 0 being a whole second.  Time stamps   *)
(* are compared as text: RFC 3339 leaves out a fraction of zero, and so    *)
(* "00:00:07Z" comes after "00:00:07.5Z".                                  *)
(*                                                                         *)
(* visible_at is any text of the client's that is not empty.  A text that  *)
(* is not in the server's form (another offset from UTC, a date, a word)   *)
(* stands for the first stamp in that form that it does not come after,    *)
(* which is all a comparison can tell of it and need not be the time it    *)
(* means.                                                                  *)
(***************************************************************************)
EXTENDS Integers

CONSTANTS
    Waiters,    \* clients
    Stamps,     \* what the texts of visible_at may stand for
    Timeout,    \* timeout_ms
    Interval,   \* poll_interval_ms
    MaxId,      \* bound: ids handed out
    MaxTime     \* bound: the clock

ASSUME QueueAssumption ==
    /\ Stamps \subseteq 0 .. 2 * MaxTime
    /\ Timeout \in Nat \ {0}
    /\ Interval \in Nat \ {0}
    /\ MaxId \in Nat
    /\ MaxTime \in Nat

VARIABLES
    now,
    jobs,    \* the table, as a function from ids
    seq,     \* the id AUTOINCREMENT handed out last (0: none)
    saved,   \* the table and the sequence that ROLLBACK restores (none: no transaction)
    top,     \* history: the highest id ever handed out
    waits    \* the calls of queue_wait, per client

vars == << now, jobs, seq, saved, top, waits >>

Ids == 1 .. MaxId
Times == 0 .. 2 * MaxTime

(* History: a job is late when its id is not new, when it is not visible   *)
(* from the moment it is pushed, or when ROLLBACK has brought it back.     *)
(* Its stamp means the time it stands for when it is in the server's form. *)
Jobs == [ visible_at : Times, in_form : BOOLEAN, late : BOOLEAN ]

(* Clients follow the hints of their answers or begin anew.  old and got   *)
(* are history: the jobs there when the client last began, and the jobs it *)
(* has received since.                                                     *)
Waits == [ phase : {"idle", "planning", "polling", "checking", "sleeping", "found", "timed_out"},
           baseline : {"new", "existing", "after_id"},
           after_id : 0 .. MaxId,
           timeout_at : 0 .. MaxTime,
           wake_at : 0 .. (MaxTime + Interval),
           old : SUBSET Ids,
           got : SUBSET Ids ]

IsTable(table) == DOMAIN table \subseteq Ids /\ table \in [DOMAIN table -> Jobs]

TypeOK ==
    /\ now \in 0 .. MaxTime
    /\ IsTable(jobs)
    /\ seq \in 0 .. MaxId
    /\ \A s \in saved : IsTable(s.jobs) /\ s.seq \in 0 .. MaxId
    /\ top \in 0 .. MaxId
    /\ waits \in [Waiters -> Waits]

NoJobs == [id \in {} |-> 0]

NoWait == [ phase |-> "idle", baseline |-> "new", after_id |-> 0, timeout_at |-> 0,
            wake_at |-> 0, old |-> {}, got |-> {} ]

Init ==
    /\ now = 0
    /\ jobs = NoJobs /\ seq = 0 /\ saved = {} /\ top = 0
    /\ waits = [w \in Waiters |-> NoWait]

-----------------------------------------------------------------------------
(* Time stamps                                                             *)

Second(t) == t \div 2

(* Deliberately wrong: a comparison of times of day in whole seconds.      *)
TextLeqSeconds(t, u) == Second(t) <= Second(u) + 1

(* t comes no later than u, as text.                                       *)
TextLeq(t, u) ==
    \/ Second(t) < Second(u)
    \/ Second(t) = Second(u) /\ t % 2 >= u % 2

-----------------------------------------------------------------------------
(* The table                                                               *)

(* Visible now and, should the time stamp be of this very second, for the  *)
(* rest of it.                                                             *)
VisibleFromNow(t) == \A u \in {now, 2 * Second(now) + 1} : TextLeq(t, u)

(* A job's visible_at is the text given, trimmed, or else the time.        *)
QueuePush ==
    \E id \in Ids, visible_at \in Stamps \union {now}, in_form \in BOOLEAN :
        /\ id = seq + 1
        /\ visible_at \in Stamps \/ in_form
        /\ jobs' = [i \in DOMAIN jobs \union {id} |->
                      IF i = id
                      THEN [ visible_at |-> visible_at, in_form |-> in_form,
                             late |-> id <= top \/ ~VisibleFromNow(visible_at) ]
                      ELSE jobs[i]]
        /\ seq' = id
        /\ top' = IF id > top THEN id ELSE top
        /\ UNCHANGED << now, saved, waits >>

(* Jobs are removed by sql_execute.                                        *)
DeleteJob ==
    \E id \in DOMAIN jobs :
        /\ jobs' = [i \in DOMAIN jobs \ {id} |-> jobs[i]]
        /\ UNCHANGED << now, seq, saved, top, waits >>

(* DROP TABLE forgets the sequence too; the next call creates the table.   *)
DropTable ==
    /\ jobs' = NoJobs /\ seq' = 0
    /\ UNCHANGED << now, saved, top, waits >>

BeginTransaction ==
    /\ saved = {}
    /\ saved' = {[ jobs |-> jobs, seq |-> seq ]}
    /\ UNCHANGED << now, jobs, seq, top, waits >>

CommitTransaction ==
    /\ saved # {} /\ saved' = {}
    /\ UNCHANGED << now, jobs, seq, top, waits >>

(* ROLLBACK, or a reset of the database when it is a file.                 *)
RollbackTransaction ==
    /\ \E s \in saved :
         /\ jobs' = [id \in DOMAIN s.jobs |->
                       [s.jobs[id] EXCEPT !.late = @ \/ id \notin DOMAIN jobs \/ jobs[id].late]]
         /\ seq' = s.seq
    /\ saved' = {}
    /\ UNCHANGED << now, top, waits >>

(* A reset of an in-memory database.                                       *)
Reset ==
    /\ jobs' = NoJobs /\ seq' = 0 /\ saved' = {}
    /\ UNCHANGED << now, top, waits >>

-----------------------------------------------------------------------------
(* queue_wait                                                              *)

(* The call arrives: its time is running, whoever holds the locks.         *)
QueueWait(w) ==
    /\ waits[w].phase \in {"idle", "found", "timed_out"}
    /\ now + Timeout <= MaxTime
    /\ \E baseline \in {"new", "existing", "after_id"} :
         /\ baseline = "after_id" => waits[w].phase = "found"
         /\ waits' = [waits EXCEPT ![w].phase = "planning", ![w].baseline = baseline,
                                   ![w].timeout_at = now + Timeout]
    /\ UNCHANGED << now, jobs, seq, saved, top >>

CurrentMaxQueueId == {m \in {0} \union DOMAIN jobs : \A id \in DOMAIN jobs : id <= m}

BuildWaitPlan(w) ==
    LET wait == [waits[w] EXCEPT !.phase = "polling", !.baseline = "new"]
    IN /\ waits[w].phase = "planning"
       /\ CASE waits[w].baseline = "after_id" -> waits' = [waits EXCEPT ![w] = wait]
            [] waits[w].baseline = "existing" ->
                 waits' = [waits EXCEPT ![w] =
                             [wait EXCEPT !.after_id = 0, !.old = {}, !.got = {}]]
            [] waits[w].baseline = "new" ->
                 \E max_id \in CurrentMaxQueueId :
                   waits' = [waits EXCEPT ![w] =
                       [wait EXCEPT !.after_id = max_id, !.old = DOMAIN jobs, !.got = {}]]
       /\ UNCHANGED << now, jobs, seq, saved, top >>

VisibleAfter(after_id) ==
    {id \in DOMAIN jobs : id > after_id /\ TextLeq(jobs[id].visible_at, now)}

(* Deliberately wrong: any visible job will do (no ORDER BY).              *)
FirstVisibleUnordered(after_id) == VisibleAfter(after_id)

(* The visible job with the least id, if there is one.                     *)
FirstVisible(after_id) ==
    {id \in VisibleAfter(after_id) : \A other \in VisibleAfter(after_id) : id <= other}

(* The poll, at once or after the sleep.                                   *)
PollVisibleJob(w) ==
    LET wait == [waits[w] EXCEPT !.wake_at = 0]
        found == FirstVisible(wait.after_id)
    IN /\ wait.phase \in {"polling", "sleeping"} /\ now >= waits[w].wake_at
       /\ \/ /\ found = {}
             /\ waits' = [waits EXCEPT ![w] = [wait EXCEPT !.phase = "checking"]]
          \/ \E id \in found :
               waits' = [waits EXCEPT ![w] =
                           [wait EXCEPT !.phase = "found", !.timeout_at = 0,
                                        !.after_id = id, !.got = @ \union {id}]]
       /\ UNCHANGED << now, jobs, seq, saved, top >>

(* Deliberately wrong: the timeout is counted from the last poll.          *)
CheckTimeoutAnew(w) ==
    /\ waits[w].phase = "checking"
    /\ waits' = [waits EXCEPT ![w].phase = "sleeping", ![w].wake_at = now + Interval,
                              ![w].timeout_at = now + Timeout]
    /\ UNCHANGED << now, jobs, seq, saved, top >>

(* The poll found nothing: time out, or sleep and poll again.              *)
CheckTimeout(w) ==
    /\ waits[w].phase = "checking"
    /\ \/ /\ now >= waits[w].timeout_at
          /\ waits' = [waits EXCEPT ![w] = [NoWait EXCEPT !.phase = "timed_out"]]
       \/ /\ now < waits[w].timeout_at
          /\ waits' = [waits EXCEPT ![w].phase = "sleeping", ![w].wake_at = now + Interval]
    /\ UNCHANGED << now, jobs, seq, saved, top >>

(* The plan or a poll fails (the database is closed, the file is locked, a *)
(* payload is not JSON), or the client is gone: the wait is over.          *)
WaitFails(w) ==
    /\ waits[w].phase \in {"planning", "polling", "sleeping"}
    /\ waits' = [waits EXCEPT ![w] = NoWait]
    /\ UNCHANGED << now, jobs, seq, saved, top >>

Tick ==
    /\ now < MaxTime
    /\ now' = now + 1
    /\ UNCHANGED << jobs, seq, saved, top, waits >>

Next ==
    \/ QueuePush \/ DeleteJob \/ DropTable
    \/ BeginTransaction \/ CommitTransaction \/ RollbackTransaction \/ Reset
    \/ \E w \in Waiters :
         \/ QueueWait(w) \/ BuildWaitPlan(w) \/ PollVisibleJob(w)
         \/ CheckTimeout(w) \/ WaitFails(w)
    \/ Tick

(* The blocking pool gets to every closure, tokio wakes every sleeper, and *)
(* time passes.                                                            *)
Fairness ==
    /\ \A w \in Waiters :
         /\ WF_vars(BuildWaitPlan(w))
         /\ WF_vars(PollVisibleJob(w))
         /\ WF_vars(CheckTimeout(w))
    /\ WF_vars(Tick)

Spec == Init /\ [][Next]_vars /\ Fairness

-----------------------------------------------------------------------------
(* Properties                                                              *)

(* A client that waits and follows its after_id hints passes a job without *)
(* receiving it only when the job was late: pushed to become visible only  *)
(* later, or under an id that a rollback, a dropped table or a reset had   *)
(* taken back, or deleted and restored by a rollback (AUTOINCREMENT; ORDER *)
(* BY id; the plan's baseline).                                            *)
OnlyLateJobsArePassed ==
    \A w \in Waiters :
        LET wait == waits[w]
        IN wait.phase \in {"polling", "checking", "sleeping", "found"} =>
             \A id \in DOMAIN jobs \ (wait.old \union wait.got) :
                 id <= wait.after_id => jobs[id].late

(* The comparison as text is right to the second for time stamps in the    *)
(* server's own form, which the default is in: a poll that finds nothing   *)
(* has passed over no such job that was due a second ago, and hands none   *)
(* out a second too early.  A job with any other text is exempt: it is     *)
(* seen as early, as late or as never as its text compares.                *)
PollsArePunctual ==
    [][\A w \in Waiters :
          LET wait == waits[w]
          IN wait.phase \in {"polling", "sleeping"} =>
               /\ waits'[w].phase = "checking" =>
                    \A id \in DOMAIN jobs :
                        jobs[id].in_form /\ id > wait.after_id =>
                            jobs[id].visible_at > now - 2
               /\ waits'[w].phase = "found" =>
                    LET job == jobs[waits'[w].after_id]
                    IN job.in_form => job.visible_at < now + 2]_vars

(* Every wait ends, found, timed out or failed, whatever is pushed,        *)
(* removed or rolled back meanwhile.                                       *)
WaitsEnd ==
    \A w \in Waiters :
        waits[w].phase = "planning" ~> waits[w].phase \in {"idle", "found", "timed_out"}

(* The documented promise of queue_wait: it waits for the next visible     *)
(* job, so no poll passes over a job whose visible_at has come.            *)
DueJobsAreVisible ==
    [][\A w \in Waiters :
          waits[w].phase \in {"polling", "sleeping"} /\ waits'[w].phase = "checking" =>
              \A id \in DOMAIN jobs :
                  jobs[id].in_form /\ id > waits[w].after_id =>
                      jobs[id].visible_at > now]_vars
=============================================================================
