--------------------------- MODULE GitRefreshProofs ---------------------------
(***************************************************************************)
(* Machine-checked proofs about GitRefresh.                                *)
(*                                                                         *)
(* RefreshInv is the inductive invariant.  Permits balance because an      *)
(* observation is one of the key it was started for, once at a time, and   *)
(* its job, as long as it is there, has its identity alone (Numbered).     *)
(* What is published is fresh because whatever makes an observation stale  *)
(* leaves the revision of its job above its own (KnowTheirRevision).       *)
(***************************************************************************)
EXTENDS GitRefresh, FiniteSetTheorems, TLAPS

(* Jobs are numbered as they are added, and keep their number; a number    *)
(* that an observation carries is that of a job of its key, or of none.    *)
Numbered ==
  /\ \A k \in Keys : Has(k) => jobs[k].id < sequence
  /\ \A k, l \in Keys : Has(k) /\ Has(l) /\ jobs[k].id = jobs[l].id => k = l
  /\ \A o \in inflight : /\ o.id < sequence
                         /\ \A k \in Keys : Has(k) /\ jobs[k].id = o.id => k = o.key

DisposedIsEmpty == disposed => \A k \in Keys : ~Has(k)

(* An observation of the job's present revision is one of the job as it    *)
(* is; one of an older revision is not published.                          *)
KnowsItsRevision(o) ==
  IsCurrent(o) =>
    /\ o.revision <= jobs[o.key].revision
    /\ o.revision = jobs[o.key].revision =>
         o.id \notin touched /\ o.context = jobs[o.key].context

KnowTheirRevision == \A o \in inflight : KnowsItsRevision(o)

RefreshInv ==
  /\ RefreshTyped
  /\ Numbered
  /\ DisposedIsEmpty
  /\ PermitsBalance
  /\ KnowTheirRevision
  /\ NoLostWakeup
  /\ PublishedIsFresh


(* What a step that starts and ends no observation may do to a job.        *)
Continues(k) ==
  /\ Has(k)
  /\ jobs'[k].id = jobs[k].id /\ jobs'[k].running = jobs[k].running
  /\ jobs[k].revision <= jobs'[k].revision
  /\ jobs'[k].revision = jobs[k].revision =>
       /\ jobs'[k].context = jobs[k].context
       /\ jobs[k].id \in touched' => jobs[k].id \in touched

Begins(k) == /\ jobs'[k].id = sequence /\ sequence' = sequence + 1
             /\ ~jobs'[k].running

-----------------------------------------------------------------------------
LEMMA RefreshInitInv == Init => RefreshInv
<1> SUFFICES ASSUME Init PROVE RefreshInv
  OBVIOUS
<1> USE RefreshAssumption DEF Init
<1>1. inflight = {} /\ IsFiniteSet(inflight) /\ Cardinality(inflight) = 0
  BY FS_EmptySet
<1>2. \A k \in Keys : ~Has(k)
  BY DEF Has
<1>3. RefreshTyped
  BY <1>1 DEF RefreshTyped
<1>4. PermitsBalance
  <2>1. \A g \in Groups : InGroup(g) = {}
    BY <1>1 DEF InGroup
  <2>2. active <= maxConcurrency /\ 0 <= MaxPerGroup
    OBVIOUS
  <2>3. \A g \in Groups : activeByGroup[g] = Cardinality(InGroup(g))
    BY <2>1, <1>1
  <2> QED BY <1>1, <1>2, <2>2, <2>3 DEF PermitsBalance
<1>5. NoLostWakeup
  BY <1>2 DEF NoLostWakeup, WakeupWanted, Eligible
<1>6. PublishedIsFresh
  BY DEF PublishedIsFresh
<1> QED BY <1>1, <1>2, <1>3, <1>4, <1>5, <1>6
        DEF RefreshInv, Numbered, DisposedIsEmpty, KnowTheirRevision

(* Steps of jobs alone, whatever is being observed meanwhile.              *)
LEMMA JobsStepInv ==
    ASSUME RefreshInv, NothingStarts, UNCHANGED maxConcurrency,
           jobs' \in [Keys -> Job \cup {None}],
           sequence' \in Nat, sequence <= sequence',
           \A k \in Keys : Has(k)' => Continues(k) \/ Begins(k),
           \A k, l \in Keys : Has(k)' /\ Begins(k) /\ Has(l)' /\ Begins(l) => k = l
    PROVE  Numbered' /\ PermitsBalance' /\ KnowTheirRevision'
<1> USE DEF RefreshInv, RefreshTyped, NothingStarts, Has
<1>1. \A k \in Keys : Has(k) => jobs[k].id \in Nat /\ jobs[k].revision \in Nat
  BY DEF Job
<1>2. \A o \in inflight : o.id \in Nat /\ o.key \in Keys /\ o.revision \in Nat
  BY DEF Observation
<1>3. Numbered'
  <2>1. \A k \in Keys : Has(k)' => jobs'[k].id < sequence'
    BY <1>1 DEF Numbered, Continues, Begins
  <2>2. \A k, l \in Keys : Has(k)' /\ Has(l)' /\ jobs'[k].id = jobs'[l].id => k = l
    BY <1>1 DEF Numbered, Continues, Begins
  <2>3. \A o \in inflight : /\ o.id < sequence'
                            /\ \A k \in Keys : Has(k)' /\ jobs'[k].id = o.id => k = o.key
    BY <1>1, <1>2 DEF Numbered, Continues, Begins
  <2> QED BY <2>1, <2>2, <2>3 DEF Numbered
<1>4. PermitsBalance'
  <2>1. \A k \in Keys : Has(k)' /\ jobs'[k].running =>
           \E o \in inflight : o.id = jobs'[k].id
    BY DEF PermitsBalance, Continues, Begins
  <2>2. \A g \in Groups : InGroup(g)' = InGroup(g)
    BY DEF InGroup
  <2> QED BY <2>1, <2>2 DEF PermitsBalance
<1>5. KnowTheirRevision'
  <2> SUFFICES ASSUME NEW o \in inflight, IsCurrent(o)'
               PROVE  /\ o.revision <= jobs'[o.key].revision
                      /\ o.revision = jobs'[o.key].revision =>
                           o.id \notin touched' /\ o.context = jobs'[o.key].context
    BY DEF KnowTheirRevision, KnowsItsRevision
  <2>1. Continues(o.key)
    BY <1>2 DEF IsCurrent, Begins, Numbered
  <2>2. IsCurrent(o)
    BY <2>1 DEF IsCurrent, Continues
  <2>3. KnowsItsRevision(o)
    BY DEF KnowTheirRevision
  <2>4. jobs'[o.key].revision \in Nat
    BY <1>2 DEF IsCurrent, Job
  <2> QED BY <1>1, <1>2, <2>1, <2>2, <2>3, <2>4 DEF IsCurrent, Continues, KnowsItsRevision
<1> QED BY <1>3, <1>4, <1>5

LEMMA KeptJobContinues ==
    ASSUME RefreshTyped, NEW j \in Keys, Has(j), jobs'[j] = jobs[j],
           jobs[j].id \in touched' => jobs[j].id \in touched
    PROVE  Continues(j)
<1>1. jobs[j].revision \in Nat
  BY DEF RefreshTyped, Has, Job
<1> QED BY <1>1 DEF Continues

(* The end of a handler sets the timer or clears it.                       *)
LEMMA ScheduleIsTyped ==
    ASSUME Schedule
    PROVE  timer' \in BOOLEAN /\ maxConcurrency' = maxConcurrency /\ NoLostWakeup'
BY DEF Schedule, WakeupWanted, NoLostWakeup

LEMMA AddJobInv ==
    ASSUME RefreshInv, NEW k \in Keys, NEW intent \in Intents, AddJob(k, intent)
    PROVE  RefreshInv'
<1> USE RefreshAssumption
<1>1. RefreshTyped
  BY DEF RefreshInv
<1>2. NewJob(intent) \in Job
  BY <1>1 DEF NewJob, Job, RefreshTyped, Causes, Initial, Poll, Cadences
<1>3. /\ ~Has(k) /\ jobs' = [jobs EXCEPT ![k] = NewJob(intent)]
      /\ sequence' = sequence + 1 /\ touched' = touched /\ NothingStarts
      /\ publication' = publication /\ paused' = paused
      /\ disposed' = disposed /\ ~disposed
      /\ calls' = calls + 1 /\ unserved' \subseteq unserved \cup {k}
      /\ Schedule
  BY DEF AddJob, Call
<1>4. jobs' \in [Keys -> Job \cup {None}]
  BY <1>1, <1>2, <1>3 DEF RefreshTyped
<1>5. RefreshTyped'
  BY <1>1, <1>3, <1>4, ScheduleIsTyped DEF RefreshTyped, NothingStarts
<1>6. \A j \in Keys : Has(j)' => Continues(j) \/ (j = k /\ Begins(j))
  <2>1. Begins(k)
    BY <1>1, <1>3 DEF Begins, NewJob, RefreshTyped
  <2>2. \A j \in Keys : Has(j)' /\ j # k => Has(j) /\ jobs'[j] = jobs[j]
    BY <1>1, <1>3 DEF Has, RefreshTyped
  <2> QED BY <1>1, <1>3, <2>1, <2>2, KeptJobContinues
<1>7. \A j \in Keys : Has(j)' /\ Begins(j) => j = k
  BY <1>1, <1>6 DEF Continues, Begins, Has, RefreshInv, Numbered, RefreshTyped, Job
<1>8. Numbered' /\ PermitsBalance' /\ KnowTheirRevision'
  BY <1>1, <1>3, <1>4, <1>6, <1>7, JobsStepInv, ScheduleIsTyped DEF RefreshTyped
<1> QED BY <1>3, <1>5, <1>8, ScheduleIsTyped
        DEF RefreshInv, DisposedIsEmpty, PublishedIsFresh

(* Handlers that add no job and start nothing.                             *)
LEMMA KeptJobsInv ==
    ASSUME RefreshInv, NothingStarts, maxConcurrency' = maxConcurrency,
           jobs' \in [Keys -> Job \cup {None}], sequence' = sequence,
           calls' \in Nat, touched' \subseteq Nat, unserved' \subseteq Keys,
           {timer', paused', disposed'} \subseteq BOOLEAN, publication' = publication,
           \A k \in Keys : Has(k)' => Continues(k),
           DisposedIsEmpty', NoLostWakeup'
    PROVE  RefreshInv'
<1>1. RefreshTyped
  BY DEF RefreshInv
<1>2. RefreshTyped'
  BY <1>1 DEF RefreshTyped, NothingStarts
<1>3. \A k \in Keys : Has(k)' => ~Begins(k)
  BY <1>1 DEF Begins, RefreshTyped
<1>4. Numbered' /\ PermitsBalance' /\ KnowTheirRevision'
  BY <1>1, <1>3, JobsStepInv DEF RefreshTyped
<1> QED BY <1>2, <1>4 DEF RefreshInv, PublishedIsFresh

LEMMA TouchIsTyped ==
    ASSUME RefreshTyped, NEW k \in Keys, Touch(k)
    PROVE  /\ touched' \subseteq Nat
           /\ \A i \in touched' : i \in touched \/ (Has(k) /\ i = jobs[k].id)
BY DEF RefreshTyped, Touch, Has, Job

LEMMA RemoveJobInv ==
    ASSUME RefreshInv, NEW k \in Keys, RemoveJob(k)
    PROVE  RefreshInv'
<1>1. RefreshTyped /\ Numbered
  BY DEF RefreshInv
<1>2. /\ jobs' = [jobs EXCEPT ![k] = None] /\ Touch(k) /\ Schedule /\ NothingStarts
      /\ calls' = calls + 1 /\ unserved' = unserved \ {k} /\ Has(k) /\ ~disposed
      /\ paused' = paused /\ disposed' = disposed /\ sequence' = sequence
      /\ publication' = publication
  BY DEF RemoveJob, Call
<1>3. jobs' \in [Keys -> Job \cup {None}]
  BY <1>1, <1>2 DEF RefreshTyped
<1>4. \A j \in Keys : Has(j)' => j # k /\ Has(j) /\ jobs'[j] = jobs[j]
  BY <1>1, <1>2 DEF Has, RefreshTyped
<1>5. \A j \in Keys : Has(j)' => Continues(j)
  BY <1>1, <1>2, <1>4, TouchIsTyped, KeptJobContinues DEF Numbered
<1> QED BY <1>1, <1>2, <1>3, <1>5, TouchIsTyped, ScheduleIsTyped, KeptJobsInv
        DEF RefreshTyped, DisposedIsEmpty

LEMMA PauseInv ==
    ASSUME RefreshInv, Pause, UNCHANGED maxConcurrency
    PROVE  RefreshInv'
<1>1. RefreshTyped
  BY DEF RefreshInv
<1>2. \A j \in Keys : Has(j)' => Continues(j)
  BY <1>1, KeptJobContinues DEF Pause, Has
<1>3. NoLostWakeup' /\ DisposedIsEmpty'
  BY DEF Pause, NoLostWakeup, WakeupWanted, DisposedIsEmpty, RefreshInv, Has
<1>4. {timer', paused', disposed'} \subseteq BOOLEAN /\ calls' \in Nat
  <2>1. timer' = FALSE /\ paused' = TRUE /\ disposed' = disposed /\ calls' = calls + 1
    BY DEF Pause, Call
  <2>2. calls' \in Nat /\ disposed \in BOOLEAN
    BY <1>1, <2>1 DEF RefreshTyped
  <2> QED BY <2>1, <2>2, Zenon
<1>5. UNCHANGED <<jobs, sequence, touched, unserved, publication>> /\ NothingStarts
  BY DEF Pause
<1> QED BY <1>1, <1>2, <1>3, <1>4, <1>5, KeptJobsInv DEF RefreshTyped

LEMMA DisposeInv ==
    ASSUME RefreshInv, Dispose, UNCHANGED maxConcurrency
    PROVE  RefreshInv'
<1>1. RefreshTyped
  BY DEF RefreshInv
<1>2. \A j \in Keys : ~Has(j)'
  BY DEF Dispose, Has
<1>3. touched' \subseteq Nat /\ jobs' \in [Keys -> Job \cup {None}]
  BY <1>1 DEF Dispose, RefreshTyped, Has, Job
<1>4. NoLostWakeup' /\ DisposedIsEmpty'
  BY <1>2 DEF Dispose, NoLostWakeup, WakeupWanted, DisposedIsEmpty
<1>5. {timer', paused', disposed'} \subseteq BOOLEAN /\ calls' \in Nat
  <2>1. timer' = FALSE /\ paused' = paused /\ disposed' = TRUE /\ calls' = calls + 1
    BY DEF Dispose, Call
  <2>2. calls' \in Nat /\ paused \in BOOLEAN
    BY <1>1, <2>1 DEF RefreshTyped
  <2> QED BY <2>1, <2>2, Zenon
<1>6. UNCHANGED <<sequence, publication>> /\ NothingStarts /\ unserved' = {}
  BY DEF Dispose
<1> QED BY <1>2, <1>3, <1>4, <1>5, <1>6, KeptJobsInv

LEMMA ElapseInv ==
    ASSUME RefreshInv, NEW k \in Keys, Elapse(k), UNCHANGED maxConcurrency
    PROVE  RefreshInv'
<1>1. RefreshTyped
  BY DEF RefreshInv
<1>2. \A j \in Keys : Has(j)' => Continues(j)
  BY <1>1, KeptJobContinues DEF Elapse, Has
<1>3. NoLostWakeup' /\ DisposedIsEmpty'
  BY DEF Elapse, NoLostWakeup, WakeupWanted, DisposedIsEmpty, RefreshInv, Has, Eligible
<1> QED BY <1>1, <1>2, <1>3, KeptJobsInv DEF Elapse, NothingStarts, RefreshTyped

(* What the handlers write to a job, and what that leaves alone.           *)
SameWork(old, new) ==
  /\ new.id = old.id /\ new.running = old.running
  /\ new.revision = old.revision /\ new.context = old.context

LEMMA CauseOnly ==
    ASSUME NEW job \in Job, NEW cause \in Causes
    PROVE  /\ [job EXCEPT !.cause = cause] \in Job
           /\ SameWork(job, [job EXCEPT !.cause = cause])
BY DEF Job, SameWork

LEMMA Max2IsCause ==
    ASSUME NEW a \in Causes, NEW b \in Causes
    PROVE  Max2(a, b) \in Causes
BY DEF Max2

LEMMA AskAgainOnly ==
    ASSUME NEW job \in Job, NEW cause \in Causes
    PROVE  AskAgain(job, cause) \in Job /\ SameWork(job, AskAgain(job, cause))
<1>1. Max2(job.queued, cause) \in Causes
  BY Max2IsCause DEF Job
<1> QED BY <1>1 DEF Job, SameWork, AskAgain

LEMMA InvalidateOnly ==
    ASSUME NEW job \in Job
    PROVE  /\ Invalidate(job) \in Job
           /\ Invalidate(job).id = job.id /\ Invalidate(job).running = job.running
           /\ job.revision < Invalidate(job).revision
BY DEF Job, Invalidate

LEMMA ChangeJobInv ==
    ASSUME RefreshInv, NEW k \in Keys, NEW intent \in Intents, ChangeJob(k, intent)
    PROVE  RefreshInv'
<1> DEFINE job == jobs[k]
           moved == job.context # intent.context
           changed == [job EXCEPT !.cadence = intent.cadence, !.group = intent.group,
                                  !.context = intent.context,
                                  !.revision = IF moved THEN @ + 1 ELSE @]
<1> USE RefreshAssumption
<1>1. RefreshTyped /\ Numbered
  BY DEF RefreshInv
<1>2. Has(k) /\ job \in Job
  BY <1>1 DEF ChangeJob, RefreshTyped, Has
<1>3. intent \in [cadence: Cadences, eager: BOOLEAN, group: Groups \cup {None},
                  context: Contexts]
  OBVIOUS
<1>4. /\ changed \in Job
      /\ AskAgain(changed, Context) \in Job
      /\ [changed EXCEPT !.cause = Context] \in Job
  <2>1. changed \in Job
    <3> DEFINE revision == IF moved THEN job.revision + 1 ELSE job.revision
    <3>1. revision \in Nat
      BY <1>2 DEF Job
    <3>2. changed = [job EXCEPT !.cadence = intent.cadence, !.group = intent.group,
                                !.context = intent.context, !.revision = revision]
      BY <1>2 DEF Job
    <3> HIDE DEF revision, changed
    <3> QED BY <1>2, <1>3, <3>1, <3>2 DEF Job
  <2>2. Context \in Causes
    BY DEF Context, Causes
  <2> QED BY <2>1, <2>2, AskAgainOnly, CauseOnly
<1>5. PICK new \in Job :
        /\ jobs' = [jobs EXCEPT ![k] = new]
        /\ new.id = job.id /\ new.running = job.running
        /\ job.revision <= new.revision
        /\ new.revision = job.revision => ~moved /\ new.context = job.context
  <2>1. job.revision \in Nat
    BY <1>2 DEF Job
  <2>2. \/ jobs' = [jobs EXCEPT ![k] = AskAgain(changed, Context)]
        \/ jobs' = [jobs EXCEPT ![k] = [changed EXCEPT !.cause = Context]]
        \/ jobs' = [jobs EXCEPT ![k] = changed]
    BY DEF ChangeJob
  <2>3. /\ changed.id = job.id /\ changed.running = job.running
        /\ job.revision <= changed.revision
        /\ changed.revision = job.revision => ~moved /\ changed.context = job.context
    BY <1>2, <1>3, <2>1 DEF Job
  <2>4. Context \in Causes
    BY DEF Context, Causes
  <2> HIDE DEF changed, job, moved
  <2>5. /\ SameWork(changed, AskAgain(changed, Context))
        /\ SameWork(changed, [changed EXCEPT !.cause = Context])
    BY <1>4, <2>4, AskAgainOnly, CauseOnly
  <2> QED BY <1>4, <2>2, <2>3, <2>5 DEF SameWork
<1>6. /\ Schedule /\ NothingStarts /\ calls' = calls + 1 /\ ~disposed
      /\ paused' = paused /\ disposed' = disposed /\ sequence' = sequence
      /\ publication' = publication
      /\ touched' = IF moved THEN touched \cup {job.id} ELSE touched
      /\ unserved' \subseteq unserved \cup {k}
  BY DEF ChangeJob, Call
<1> HIDE DEF changed
<1>7. jobs' \in [Keys -> Job \cup {None}]
  BY <1>1, <1>5 DEF RefreshTyped
<1>8. \A j \in Keys : Has(j)' => Continues(j)
  <2> SUFFICES ASSUME NEW j \in Keys, Has(j)' PROVE Continues(j)
    OBVIOUS
  <2>1. CASE j = k
    BY <1>1, <1>2, <1>5, <1>6, <2>1 DEF Continues, RefreshTyped
  <2>2. CASE j # k
    BY <1>1, <1>2, <1>5, <1>6, <2>2, KeptJobContinues DEF Numbered, RefreshTyped, Has
  <2> QED BY <2>1, <2>2
<1>9. touched' \subseteq Nat
  BY <1>1, <1>2, <1>6 DEF RefreshTyped, Job
<1> QED BY <1>1, <1>6, <1>7, <1>8, <1>9, ScheduleIsTyped, KeptJobsInv
        DEF RefreshTyped, DisposedIsEmpty

LEMMA RequestInv ==
    ASSUME RefreshInv, NEW k \in Keys, NEW cause \in {Manual, Filesystem},
           Request(k, cause)
    PROVE  RefreshInv'
<1> DEFINE job == jobs[k]
<1>1. RefreshTyped /\ Numbered
  BY DEF RefreshInv
<1>2. Has(k) /\ job \in Job
  BY <1>1 DEF Request, RefreshTyped, Has
<1>3. PICK new \in Job :
        /\ jobs' = [jobs EXCEPT ![k] = new]
        /\ new.id = job.id /\ new.running = job.running
        /\ job.revision < new.revision
  <2> DEFINE inv == Invalidate(job)
  <2>1. cause \in Causes
    BY DEF Manual, Filesystem, Causes
  <2>2. /\ inv \in Job
        /\ inv.id = job.id /\ inv.running = job.running /\ job.revision < inv.revision
    BY <1>2, InvalidateOnly
  <2>3. \/ jobs' = [jobs EXCEPT ![k] = AskAgain(inv, cause)]
        \/ jobs' = [jobs EXCEPT ![k] = AskNow(inv, cause)]
    BY DEF Request
  <2> HIDE DEF inv
  <2>4. Max2(inv.cause, cause) \in Causes
    BY <2>1, <2>2, Max2IsCause DEF Job
  <2>5. /\ AskAgain(inv, cause) \in Job /\ SameWork(inv, AskAgain(inv, cause))
        /\ AskNow(inv, cause) \in Job /\ SameWork(inv, AskNow(inv, cause))
    BY <2>1, <2>2, <2>4, AskAgainOnly, CauseOnly DEF AskNow
  <2> QED BY <2>2, <2>3, <2>5 DEF SameWork
<1>4. /\ Schedule /\ NothingStarts /\ calls' = calls + 1 /\ ~disposed /\ Touch(k)
      /\ paused' = paused /\ disposed' = disposed /\ sequence' = sequence
      /\ publication' = publication /\ unserved' = unserved \cup {k}
  BY DEF Request, Call
<1>5. jobs' \in [Keys -> Job \cup {None}]
  BY <1>1, <1>3 DEF RefreshTyped
<1>6. \A j \in Keys : Has(j)' => Continues(j)
  <2> SUFFICES ASSUME NEW j \in Keys, Has(j)' PROVE Continues(j)
    OBVIOUS
  <2>1. CASE j = k
    BY <1>1, <1>2, <1>3, <2>1 DEF Continues, RefreshTyped, Job
  <2>2. CASE j # k
    BY <1>1, <1>2, <1>3, <1>4, <2>2, TouchIsTyped, KeptJobContinues
       DEF Numbered, RefreshTyped, Has
  <2> QED BY <2>1, <2>2
<1> QED BY <1>1, <1>4, <1>5, <1>6, TouchIsTyped, ScheduleIsTyped, KeptJobsInv
        DEF RefreshTyped, DisposedIsEmpty

LEMMA ResumePollingInv ==
    ASSUME RefreshInv, ResumePolling
    PROVE  RefreshInv'
<1>1. RefreshTyped
  BY DEF RefreshInv
<1>2. /\ Schedule /\ NothingStarts /\ calls' = calls + 1 /\ ~disposed
      /\ paused' = FALSE /\ disposed' = disposed /\ sequence' = sequence
      /\ publication' = publication /\ touched' = touched /\ unserved' = unserved
  BY DEF ResumePolling, Call
<1>3. \A k \in Keys :
        \/ jobs'[k] = jobs[k]
        \/ /\ Has(k)
           /\ \E cause \in Causes : jobs'[k] = [jobs[k] EXCEPT !.cause = cause]
  <2>1. \A k \in Keys : Has(k) => jobs[k].cause \in Causes
    BY <1>1 DEF RefreshTyped, Has, Job
  <2>2. \A k \in Keys : Has(k) => Max2(jobs[k].cause, Resume) \in Causes /\ Poll \in Causes
    BY <2>1, Max2IsCause DEF Resume, Poll, Causes
  <2> QED BY <2>2 DEF ResumePolling
<1>4. jobs' \in [Keys -> Job \cup {None}]
  <2>1. jobs' = [k \in Keys |-> jobs'[k]]
    BY DEF ResumePolling
  <2>2. \A k \in Keys : jobs'[k] \in Job \cup {None}
    <3>1. \A k \in Keys : jobs[k] \in Job \cup {None} /\ (Has(k) => jobs[k] \in Job)
      BY <1>1 DEF RefreshTyped, Has
    <3> SUFFICES ASSUME NEW k \in Keys, jobs'[k] # jobs[k] PROVE jobs'[k] \in Job
      BY <3>1
    <3>2. PICK cause \in Causes : Has(k) /\ jobs'[k] = [jobs[k] EXCEPT !.cause = cause]
      BY <1>3
    <3> QED BY <3>1, <3>2, CauseOnly
  <2> QED BY <2>1, <2>2
<1>5. \A j \in Keys : Has(j)' => Continues(j)
  <2> SUFFICES ASSUME NEW j \in Keys, Has(j)' PROVE Continues(j)
    OBVIOUS
  <2>1. Has(j) /\ jobs[j] \in Job
    BY <1>1, <1>3 DEF RefreshTyped, Has
  <2>2. jobs'[j] = jobs[j] \/ SameWork(jobs[j], jobs'[j])
    BY <1>3, <2>1, CauseOnly
  <2> QED BY <1>2, <2>1, <2>2 DEF Continues, Job, SameWork
<1>6. {timer', paused', disposed'} \subseteq BOOLEAN
  BY <1>1, <1>2, ScheduleIsTyped DEF RefreshTyped
<1> QED BY <1>1, <1>2, <1>4, <1>5, <1>6, ScheduleIsTyped, KeptJobsInv
        DEF RefreshTyped, DisposedIsEmpty

LEMMA FireInv ==
    ASSUME RefreshInv, Fire, UNCHANGED maxConcurrency
    PROVE  RefreshInv'
<1>1. RefreshTyped
  BY DEF RefreshInv
<1>2. \A j \in Keys : Has(j)' = Has(j)
  BY DEF Fire, Has
<1>3. timer' = FALSE /\ draining' = TRUE
  BY DEF Fire
<1>4. RefreshTyped'
  <2>1. {timer', draining', paused, disposed} \subseteq BOOLEAN
    BY <1>1, <1>3, Zenon DEF RefreshTyped
  <2> QED BY <1>1, <2>1 DEF RefreshTyped, Fire
<1>5. Numbered' /\ DisposedIsEmpty' /\ KnowTheirRevision'
  BY <1>2 DEF Fire, RefreshInv, Numbered, DisposedIsEmpty, KnowTheirRevision,
              KnowsItsRevision, IsCurrent, Has
<1>6. PermitsBalance'
  <2>1. \A g : InGroup(g)' = InGroup(g)
    BY DEF Fire, InGroup
  <2> QED BY <1>2, <2>1 DEF Fire, RefreshInv, PermitsBalance
<1> QED BY <1>3, <1>4, <1>5, <1>6
        DEF RefreshInv, NoLostWakeup, PublishedIsFresh, Fire

LEMMA DrainEndsInv ==
    ASSUME RefreshInv, DrainEnds
    PROVE  RefreshInv'
<1>1. RefreshTyped
  BY DEF RefreshInv
<1>2. \A j \in Keys : Has(j)' = Has(j)
  BY DEF DrainEnds, Has
<1>3. draining' = FALSE /\ timer' \in BOOLEAN /\ maxConcurrency' = maxConcurrency
      /\ NoLostWakeup'
  BY ScheduleIsTyped DEF DrainEnds
<1>4. RefreshTyped'
  <2>1. {timer', draining', paused, disposed} \subseteq BOOLEAN
    BY <1>1, <1>3, Zenon DEF RefreshTyped
  <2> QED BY <1>1, <1>3, <2>1 DEF RefreshTyped, DrainEnds
<1>5. Numbered' /\ DisposedIsEmpty' /\ KnowTheirRevision'
  BY <1>2 DEF DrainEnds, RefreshInv, Numbered, DisposedIsEmpty, KnowTheirRevision,
              KnowsItsRevision, IsCurrent, Has
<1>6. PermitsBalance'
  <2>1. \A g : InGroup(g)' = InGroup(g)
    BY DEF DrainEnds, InGroup
  <2> QED BY <1>2, <1>3, <2>1 DEF DrainEnds, RefreshInv, PermitsBalance
<1> QED BY <1>3, <1>4, <1>5, <1>6
        DEF RefreshInv, PublishedIsFresh, DrainEnds

LEMMA GroupsAreFinite ==
    ASSUME RefreshTyped, NEW g
    PROVE  IsFiniteSet(InGroup(g)) /\ Cardinality(InGroup(g)) \in Nat
<1>1. InGroup(g) \in SUBSET inflight
  BY DEF InGroup
<1> QED BY <1>1, FS_Subset, FS_CardinalityType DEF RefreshTyped

LEMMA StartInv ==
    ASSUME RefreshInv, NEW k \in Keys, Start(k), UNCHANGED maxConcurrency
    PROVE  RefreshInv'
<1> DEFINE job == jobs[k]
           o == [key |-> k, id |-> job.id, group |-> job.group,
                 revision |-> job.revision, context |-> job.context,
                 answered |-> FALSE]
<1> USE RefreshAssumption
<1>1. RefreshTyped /\ Numbered /\ PermitsBalance
  BY DEF RefreshInv
<1>2. /\ Has(k) /\ job.running = FALSE /\ k \notin runningKeys
      /\ job.group # None => activeByGroup[job.group] < MaxPerGroup
      /\ active < maxConcurrency /\ draining
  <2>1. job.running = FALSE \/ job.running = TRUE
    BY <1>1 DEF Start, DueNow, Eligible, RefreshTyped, Has, Job
  <2> QED BY <2>1 DEF Start, DueNow, Eligible
<1>3. /\ jobs' = [jobs EXCEPT ![k].running = TRUE]
      /\ runningKeys' = runningKeys \cup {k} /\ active' = active + 1
      /\ inflight' = inflight \cup {o}
      /\ touched' = touched \ {job.id} /\ unserved' = unserved \ {k}
      /\ UNCHANGED <<timer, draining, paused, disposed, sequence, calls, publication>>
      /\ activeByGroup' = IF job.group = None THEN activeByGroup
                          ELSE [activeByGroup EXCEPT ![job.group] = @ + 1]
  BY DEF Start, TakeGroup
<1>4. job \in Job /\ o \in Observation
  BY <1>1, <1>2 DEF RefreshTyped, Has, Job, Observation
<1>5. o.key = k /\ o.id = job.id /\ o.group = job.group
      /\ o.revision = job.revision /\ o.context = job.context
  OBVIOUS
<1>6. o \notin inflight /\ \A p \in inflight : p.key # k
  BY <1>1, <1>2, <1>5 DEF PermitsBalance
<1>7. /\ \A j \in Keys \ {k} : jobs'[j] = jobs[j]
      /\ jobs'[k] \in Job /\ jobs'[k] # None /\ jobs'[k].id = job.id
      /\ jobs'[k].revision = job.revision /\ jobs'[k].context = job.context
  <2>1. jobs \in [Keys -> Job \cup {None}] /\ job \in Job
    BY <1>1, <1>4 DEF RefreshTyped
  <2>2. /\ \A j \in Keys \ {k} : jobs'[j] = jobs[j]
        /\ jobs'[k] = [job EXCEPT !.running = TRUE]
    BY <1>3, <2>1
  <2> HIDE DEF job
  <2>3. /\ [job EXCEPT !.running = TRUE] \in Job
        /\ [job EXCEPT !.running = TRUE].id = job.id
        /\ [job EXCEPT !.running = TRUE].revision = job.revision
        /\ [job EXCEPT !.running = TRUE].context = job.context
    BY <2>1 DEF Job
  <2>4. [job EXCEPT !.running = TRUE] # None
    BY <2>3, RefreshAssumption
  <2> QED BY <2>2, <2>3, <2>4
<1> HIDE DEF o
<1>8. RefreshTyped'
  <2>1. jobs' \in [Keys -> Job \cup {None}]
    BY <1>1, <1>3, <1>7 DEF RefreshTyped
  <2>2. IsFiniteSet(inflight') /\ inflight' \subseteq Observation
    BY <1>1, <1>3, <1>4, FS_AddElement DEF RefreshTyped
  <2>3. activeByGroup' \in [Groups -> Nat]
    BY <1>1, <1>3, <1>4 DEF RefreshTyped, Job
  <2> QED BY <1>1, <1>3, <2>1, <2>2, <2>3 DEF RefreshTyped
<1>9. Numbered'
  BY <1>1, <1>2, <1>3, <1>5, <1>7 DEF Numbered, Has
<1>10. PermitsBalance'
  <2>1. active' = Cardinality(inflight') /\ active' <= maxConcurrency'
    <3>1. Cardinality(inflight') = Cardinality(inflight) + 1
      BY <1>1, <1>3, <1>6, FS_AddElement DEF RefreshTyped
    <3> QED BY <1>1, <1>2, <1>3, <3>1 DEF PermitsBalance, RefreshTyped
  <2>2. ASSUME NEW g \in Groups
        PROVE  activeByGroup'[g] = Cardinality(InGroup(g)') /\ activeByGroup'[g] <= MaxPerGroup
    <3>1. activeByGroup[g] = Cardinality(InGroup(g)) /\ activeByGroup[g] <= MaxPerGroup
      BY <1>1 DEF PermitsBalance
    <3>2. activeByGroup[g] \in Nat
      BY <1>1 DEF RefreshTyped
    <3>3. CASE g = job.group
      <4>1. InGroup(g)' = InGroup(g) \cup {o} /\ o \notin InGroup(g)
        BY <1>3, <1>5, <1>6, <3>3 DEF InGroup
      <4>2. Cardinality(InGroup(g)') = Cardinality(InGroup(g)) + 1
        BY <1>1, <4>1, GroupsAreFinite, FS_AddElement
      <4>3. activeByGroup'[g] = activeByGroup[g] + 1 /\ activeByGroup[g] < MaxPerGroup
        BY <1>1, <1>2, <1>3, <3>3 DEF RefreshTyped
      <4> QED BY <3>1, <3>2, <4>2, <4>3
    <3>4. CASE g # job.group
      <4>1. InGroup(g)' = InGroup(g)
        BY <1>3, <1>5, <3>4 DEF InGroup
      <4> QED BY <1>1, <1>3, <3>1, <3>4, <4>1 DEF RefreshTyped
    <3> QED BY <3>3, <3>4
  <2>3. runningKeys' = {p.key : p \in inflight'}
    BY <1>1, <1>3, <1>5 DEF PermitsBalance
  <2>4. \A p, q \in inflight' : p.key = q.key => p = q
    BY <1>1, <1>3, <1>5, <1>6 DEF PermitsBalance
  <2>5. \A j \in Keys : Has(j)' /\ jobs'[j].running =>
           \E p \in inflight' : p.id = jobs'[j].id
    BY <1>1, <1>3, <1>5, <1>7 DEF PermitsBalance, Has
  <2> QED BY <2>1, <2>2, <2>3, <2>4, <2>5 DEF PermitsBalance
<1>11. KnowTheirRevision'
  <2> SUFFICES ASSUME NEW p \in inflight', IsCurrent(p)'
               PROVE  /\ p.revision <= jobs'[p.key].revision
                      /\ p.revision = jobs'[p.key].revision =>
                           p.id \notin touched' /\ p.context = jobs'[p.key].context
    BY DEF KnowTheirRevision, KnowsItsRevision
  <2>1. CASE p = o
    <3>1. job.revision \in Nat
      BY <1>4 DEF Job
    <3> QED BY <1>3, <1>5, <1>7, <2>1, <3>1
  <2>2. CASE p # o
    <3>1. p \in inflight /\ p.key # k /\ p.key \in Keys /\ KnowsItsRevision(p)
      BY <1>1, <1>3, <1>6, <2>2 DEF RefreshInv, KnowTheirRevision, RefreshTyped, Observation
    <3> QED BY <1>3, <1>7, <3>1 DEF KnowsItsRevision, IsCurrent, Has
  <2> QED BY <2>1, <2>2
<1> QED BY <1>2, <1>3, <1>7, <1>8, <1>9, <1>10, <1>11
        DEF RefreshInv, NoLostWakeup, PublishedIsFresh, DisposedIsEmpty, Has

LEMMA AnswerInv ==
    ASSUME RefreshInv, NEW o \in inflight, Answer(o), UNCHANGED maxConcurrency
    PROVE  RefreshInv'
<1> DEFINE a == [o EXCEPT !.answered = TRUE]
<1>1. RefreshTyped /\ Numbered /\ PermitsBalance /\ KnowTheirRevision
  BY DEF RefreshInv
<1>2. /\ inflight' = (inflight \ {o}) \cup {a} /\ ~o.answered
      /\ UNCHANGED <<jobs, due, runningKeys, active, activeByGroup, timer, draining,
                     paused, disposed, sequence, calls, touched, unserved>>
  BY DEF Answer
<1>3. o \in Observation
  BY <1>1 DEF RefreshTyped
<1>4. /\ a \in Observation /\ a.key = o.key /\ a.id = o.id /\ a.group = o.group
      /\ a.revision = o.revision /\ a.context = o.context /\ a.answered = TRUE
  BY <1>3 DEF Observation
<1> HIDE DEF a
<1>5. a \notin inflight /\ \A p \in inflight \ {o} : p.key # a.key
  BY <1>1, <1>2, <1>4 DEF PermitsBalance
<1>6. publication' = publication \/ publication'.fresh = TRUE
  <2> DEFINE fresh == o.id \notin touched /\ o.context = jobs[o.key].context
             p == [of |-> [key |-> o.key, id |-> o.id], fresh |-> fresh]
  <2>1. \/ publication' = publication
        \/ IsCurrent(o) /\ o.revision = jobs[o.key].revision /\ publication' = p
    BY DEF Answer
  <2>2. IsCurrent(o) /\ o.revision = jobs[o.key].revision => fresh = TRUE
    BY <1>1 DEF KnowTheirRevision, KnowsItsRevision
  <2> HIDE DEF fresh
  <2>3. p.fresh = fresh
    OBVIOUS
  <2> HIDE DEF p
  <2> QED BY <2>1, <2>2, <2>3
<1>7. publication'.fresh
  BY <1>6 DEF RefreshInv, PublishedIsFresh
<1>8. RefreshTyped'
  <2>1. publication'.fresh \in BOOLEAN
    BY <1>1, <1>6 DEF RefreshTyped
  <2>2. IsFiniteSet(inflight')
    BY <1>1, <1>2, FS_RemoveElement, FS_AddElement DEF RefreshTyped
  <2> QED BY <1>1, <1>2, <1>4, <2>1, <2>2 DEF RefreshTyped
<1>9. Numbered' /\ DisposedIsEmpty'
  BY <1>1, <1>2, <1>4 DEF Numbered, Has, RefreshInv, DisposedIsEmpty
<1>10. PermitsBalance'
  <2>1. Cardinality(inflight') = Cardinality(inflight)
    <3>1. /\ IsFiniteSet(inflight \ {o})
          /\ Cardinality(inflight \ {o}) = Cardinality(inflight) - 1
      BY <1>1, FS_RemoveElement DEF RefreshTyped
    <3>2. Cardinality(inflight) \in Nat
      BY <1>1, FS_CardinalityType DEF RefreshTyped
    <3> QED BY <1>2, <1>5, <3>1, <3>2, FS_AddElement
  <2>2. ASSUME NEW g \in Groups
        PROVE  Cardinality(InGroup(g)') = Cardinality(InGroup(g))
    <3>1. CASE g = o.group
      <4>1. /\ InGroup(g)' = (InGroup(g) \ {o}) \cup {a}
            /\ o \in InGroup(g) /\ a \notin InGroup(g) \ {o}
        BY <1>2, <1>4, <1>5, <3>1 DEF InGroup
      <4>2. /\ IsFiniteSet(InGroup(g) \ {o})
            /\ Cardinality(InGroup(g) \ {o}) = Cardinality(InGroup(g)) - 1
        BY <1>1, <4>1, GroupsAreFinite, FS_RemoveElement
      <4>3. Cardinality((InGroup(g) \ {o}) \cup {a}) = Cardinality(InGroup(g) \ {o}) + 1
        BY <4>1, <4>2, FS_AddElement
      <4>4. Cardinality(InGroup(g)) \in Nat
        BY <1>1, GroupsAreFinite
      <4> QED BY <4>1, <4>2, <4>3, <4>4
    <3>2. CASE g # o.group
      BY <1>2, <1>4, <3>2 DEF InGroup
    <3> QED BY <3>1, <3>2
  <2>3. runningKeys' = {p.key : p \in inflight'}
    BY <1>1, <1>2, <1>4 DEF PermitsBalance
  <2>4. \A p, q \in inflight' : p.key = q.key => p = q
    BY <1>1, <1>2, <1>5 DEF PermitsBalance
  <2>5. \A k \in Keys : Has(k)' /\ jobs'[k].running =>
           \E p \in inflight' : p.id = jobs'[k].id
    BY <1>1, <1>2, <1>4 DEF PermitsBalance, Has
  <2> QED BY <1>1, <1>2, <2>1, <2>2, <2>3, <2>4, <2>5 DEF PermitsBalance
<1>11. KnowTheirRevision'
  <2>1. \A p \in inflight' : \E q \in inflight :
           /\ q.key = p.key /\ q.id = p.id
           /\ q.revision = p.revision /\ q.context = p.context
    BY <1>2, <1>4
  <2> QED BY <1>1, <1>2, <2>1 DEF KnowTheirRevision, KnowsItsRevision, IsCurrent, Has
<1>12. NoLostWakeup'
  BY <1>2 DEF RefreshInv, NoLostWakeup, WakeupWanted, Eligible, Has
<1> QED BY <1>7, <1>8, <1>9, <1>10, <1>11, <1>12 DEF RefreshInv, PublishedIsFresh

LEMMA FinishInv ==
    ASSUME RefreshInv, NEW o \in inflight, Finish(o)
    PROVE  RefreshInv'
<1> DEFINE k == o.key
<1> USE RefreshAssumption
<1>1. RefreshTyped /\ Numbered /\ PermitsBalance /\ KnowTheirRevision
  BY DEF RefreshInv
<1>2. /\ inflight' = inflight \ {o} /\ active' = Less1(active)
      /\ runningKeys' = runningKeys \ {k} /\ ReturnGroup(o.group)
      /\ UNCHANGED <<draining, paused, disposed, sequence, calls, touched, unserved,
                     publication>>
      /\ Schedule /\ ~draining
  BY DEF Finish, RescheduleAfterFinish, PermitOf
<1>3. o \in Observation /\ k \in Keys
  BY <1>1 DEF RefreshTyped, Observation
<1>4. PICK new \in Job :
        /\ jobs' = IF IsCurrent(o) /\ ~disposed THEN [jobs EXCEPT ![k] = new] ELSE jobs
        /\ IsCurrent(o) => /\ new.id = jobs[k].id /\ new.running = FALSE
                           /\ new.revision = jobs[k].revision
                           /\ new.context = jobs[k].context
  <2>1. CASE IsCurrent(o)
    <3>1. jobs[k] \in Job
      BY <1>1, <1>3, <2>1 DEF IsCurrent, Has, RefreshTyped
    <3> DEFINE job == jobs[k]
               cause == IF ~job.again THEN Poll
                        ELSE IF job.queued = Poll THEN Manual ELSE job.queued
    <3>2. cause \in Causes /\ Poll \in Causes
      BY <3>1 DEF Job, Causes, Poll, Manual
    <3>3. Finished(job) = [job EXCEPT !.running = FALSE, !.again = FALSE,
                                      !.queued = Poll, !.cause = cause]
      BY DEF Finished
    <3> HIDE DEF cause
    <3>4. /\ Finished(job) \in Job
          /\ Finished(job).id = job.id /\ Finished(job).running = FALSE
          /\ Finished(job).revision = job.revision
          /\ Finished(job).context = job.context
      BY <3>1, <3>2, <3>3 DEF Job
    <3> QED BY <2>1, <3>4 DEF Finish
  <2>2. CASE ~IsCurrent(o)
    <3>1. jobs' = jobs
      BY <2>2 DEF Finish
    <3>2. \E new : new \in Job
      <4> DEFINE some == CHOOSE c \in Contexts : TRUE
      <4>1. some \in Contexts
        BY <1>3 DEF Observation
      <4> WITNESS [id |-> 0, cadence |-> "foreground", group |-> None, context |-> some,
                   running |-> FALSE, again |-> FALSE, revision |-> 0,
                   cause |-> 0, queued |-> 0]
      <4> QED BY <4>1 DEF Job, Cadences, Causes
    <3> QED BY <2>2, <3>1, <3>2
  <2> QED BY <2>1, <2>2
<1>5. \A j \in Keys : Has(j)' =>
        /\ Has(j) /\ jobs'[j].id = jobs[j].id
        /\ jobs'[j].revision = jobs[j].revision /\ jobs'[j].context = jobs[j].context
        /\ jobs'[j].running = jobs[j].running \/ jobs'[j].running = FALSE
  BY <1>1, <1>3, <1>4 DEF Has, IsCurrent, RefreshTyped
<1>6. RefreshTyped'
  <2>1. jobs' \in [Keys -> Job \cup {None}]
    BY <1>1, <1>3, <1>4 DEF RefreshTyped
  <2>2. IsFiniteSet(inflight')
    BY <1>1, <1>2, FS_RemoveElement DEF RefreshTyped
  <2>3. active' \in Nat /\ activeByGroup' \in [Groups -> Nat]
    <3>1. \A n \in Nat : Less1(n) \in Nat
      BY DEF Less1
    <3> QED BY <1>1, <1>2, <1>3, <3>1 DEF RefreshTyped, ReturnGroup, Observation
  <2>4. {timer', draining', paused', disposed'} \subseteq BOOLEAN
    BY <1>1, <1>2, ScheduleIsTyped DEF RefreshTyped
  <2> QED BY <1>1, <1>2, <2>1, <2>2, <2>3, <2>4, ScheduleIsTyped DEF RefreshTyped
<1>7. Numbered' /\ DisposedIsEmpty'
  BY <1>1, <1>2, <1>5 DEF Numbered, RefreshInv, DisposedIsEmpty
<1>8. PermitsBalance'
  <2>1. active' = Cardinality(inflight') /\ active' <= maxConcurrency'
    <3>1. Cardinality(inflight') = Cardinality(inflight) - 1 /\ inflight # {}
      BY <1>1, <1>2, FS_RemoveElement DEF RefreshTyped
    <3>2. Cardinality(inflight) \in Nat /\ Cardinality(inflight) # 0
      BY <1>1, <3>1, FS_CardinalityType, FS_EmptySet DEF RefreshTyped
    <3> QED BY <1>1, <1>2, <3>1, <3>2, ScheduleIsTyped
            DEF PermitsBalance, RefreshTyped, Less1
  <2>2. ASSUME NEW g \in Groups
        PROVE  activeByGroup'[g] = Cardinality(InGroup(g)') /\ activeByGroup'[g] <= MaxPerGroup
    <3>1. activeByGroup[g] = Cardinality(InGroup(g)) /\ activeByGroup[g] <= MaxPerGroup
          /\ activeByGroup[g] \in Nat
      BY <1>1 DEF PermitsBalance, RefreshTyped
    <3>2. CASE g = o.group
      <4>1. InGroup(g)' = InGroup(g) \ {o} /\ o \in InGroup(g)
        BY <1>2, <3>2 DEF InGroup
      <4>2. /\ Cardinality(InGroup(g)') = Cardinality(InGroup(g)) - 1
            /\ Cardinality(InGroup(g)) # 0
        <5>1. IsFiniteSet(InGroup(g)) /\ InGroup(g) # {}
          BY <1>1, <4>1, GroupsAreFinite
        <5>2. Cardinality(InGroup(g) \ {o}) = Cardinality(InGroup(g)) - 1
          BY <4>1, <5>1, FS_RemoveElement
        <5> QED BY <4>1, <5>1, <5>2, FS_EmptySet
      <4>3. activeByGroup'[g] = Less1(activeByGroup[g])
        BY <1>1, <1>2, <3>2 DEF ReturnGroup, RefreshTyped
      <4> QED BY <3>1, <4>2, <4>3 DEF Less1
    <3>3. CASE g # o.group
      <4>1. InGroup(g)' = InGroup(g)
        BY <1>2, <3>3 DEF InGroup
      <4> QED BY <1>1, <1>2, <3>1, <3>3, <4>1 DEF RefreshTyped, ReturnGroup
    <3> QED BY <3>2, <3>3
  <2>3. runningKeys' = {p.key : p \in inflight'}
    BY <1>1, <1>2 DEF PermitsBalance
  <2>4. \A p, q \in inflight' : p.key = q.key => p = q
    BY <1>1, <1>2 DEF PermitsBalance
  <2>5. ASSUME NEW j \in Keys, Has(j)', jobs'[j].running
        PROVE  \E p \in inflight' : p.id = jobs'[j].id
    <3>1. Has(j) /\ jobs[j].running /\ jobs'[j].id = jobs[j].id
      BY <1>5, <2>5
    <3>2. PICK p \in inflight : p.id = jobs[j].id
      BY <1>1, <3>1 DEF PermitsBalance
    <3>3. p # o
      BY <1>1, <1>3, <1>4, <2>5, <3>1, <3>2
         DEF Numbered, IsCurrent, RefreshInv, DisposedIsEmpty, RefreshTyped
    <3> QED BY <1>2, <3>1, <3>2, <3>3
  <2> QED BY <2>1, <2>2, <2>3, <2>4, <2>5 DEF PermitsBalance
<1>9. KnowTheirRevision'
  BY <1>1, <1>2, <1>5 DEF KnowTheirRevision, KnowsItsRevision, IsCurrent, RefreshTyped,
                          Observation
<1> QED BY <1>2, <1>6, <1>7, <1>8, <1>9, ScheduleIsTyped DEF RefreshInv, PublishedIsFresh

LEMMA RefreshStepInv ==
    ASSUME RefreshInv, [UNCHANGED maxConcurrency /\ Next]_<<vars, maxConcurrency>>
    PROVE  RefreshInv'
<1>1. CASE UNCHANGED <<vars, maxConcurrency>>
  <2>1. \A k \in Keys : Has(k)' = Has(k)
    BY <1>1 DEF vars, Has
  <2>2. \A g : InGroup(g)' = InGroup(g)
    BY <1>1 DEF vars, InGroup
  <2>3. RefreshTyped' /\ Numbered' /\ DisposedIsEmpty' /\ PublishedIsFresh'
    BY <1>1, <2>1 DEF vars, RefreshInv, RefreshTyped, Numbered, DisposedIsEmpty,
                      PublishedIsFresh
  <2>4. PermitsBalance'
    BY <1>1, <2>1, <2>2 DEF vars, RefreshInv, PermitsBalance
  <2>5. KnowTheirRevision' /\ NoLostWakeup'
    BY <1>1, <2>1 DEF vars, RefreshInv, KnowTheirRevision, KnowsItsRevision, IsCurrent,
                      NoLostWakeup, WakeupWanted, Eligible, Has
  <2> QED BY <2>3, <2>4, <2>5 DEF RefreshInv
<1>2. ASSUME UNCHANGED maxConcurrency, Next PROVE RefreshInv'
  <2>1. CASE \E k \in Keys, intent \in Intents : AddJob(k, intent)
    BY <2>1, AddJobInv
  <2>2. CASE \E k \in Keys : RemoveJob(k)
    BY <2>2, RemoveJobInv
  <2>3. CASE \E k \in Keys, intent \in Intents : ChangeJob(k, intent)
    BY <2>3, ChangeJobInv
  <2>4. CASE \E k \in Keys, cause \in {Manual, Filesystem} : Request(k, cause)
    BY <2>4, RequestInv
  <2>5. CASE Pause
    BY <1>2, <2>5, PauseInv
  <2>6. CASE ResumePolling
    BY <2>6, ResumePollingInv
  <2>7. CASE Dispose
    BY <1>2, <2>7, DisposeInv
  <2>8. CASE \E k \in Keys : Elapse(k)
    BY <1>2, <2>8, ElapseInv
  <2>9. CASE Fire
    BY <1>2, <2>9, FireInv
  <2>10. CASE \E k \in Keys : Start(k)
    BY <1>2, <2>10, StartInv
  <2>11. CASE DrainEnds
    BY <2>11, DrainEndsInv
  <2>12. CASE \E o \in inflight : Answer(o)
    BY <1>2, <2>12, AnswerInv
  <2>13. CASE \E o \in inflight : Finish(o)
    BY <2>13, FinishInv
  <2> QED BY <1>2, <2>1, <2>2, <2>3, <2>4, <2>5, <2>6, <2>7, <2>8, <2>9, <2>10,
             <2>11, <2>12, <2>13 DEF Next
<1> QED BY <1>1, <1>2

THEOREM RefreshInvariant == Spec => []RefreshInv
<1>1. RefreshInv /\ [UNCHANGED maxConcurrency /\ Next]_<<vars, maxConcurrency>>
        => RefreshInv'
  BY RefreshStepInv
<1> QED BY <1>1, RefreshInitInv, PTL DEF Spec

(* The state of the scheduler has its type, the order of what is due apart.*)
THEOREM RefreshTypes == Spec => []RefreshTyped
BY RefreshInvariant, PTL DEF RefreshInv

(* Permits balance for any number of keys and groups and any limits,       *)
(* whatever happens to a job while it is observed (start and its finally   *)
(* clause).                                                                *)
THEOREM PermitsAlwaysBalance == Spec => []PermitsBalance
BY RefreshInvariant, PTL DEF RefreshInv

(* Between handlers a timer is set whenever a job could start when it is   *)
(* due (schedule, at the end of the handlers).                             *)
THEOREM NoWakeupIsLost == Spec => []NoLostWakeup
BY RefreshInvariant, PTL DEF RefreshInv

(* An observation is published only while it is true of its job: nothing   *)
(* asked for the job, moved, removed or replaced it since it began.        *)
THEOREM PublicationsAreFresh == Spec => []PublishedIsFresh
BY RefreshInvariant, PTL DEF RefreshInv

===============================================================================
