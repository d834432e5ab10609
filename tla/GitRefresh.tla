------------------------------ MODULE GitRefresh ------------------------------
(***************************************************************************)
(* When the working trees a user has in view are observed                  *)
(* (git-refresh-coordinator.ts).  A job per key is due at times: after its *)
(* interval, or at once when something asks for it.  One timer wakes the   *)
(* coordinator, which starts due jobs within a limit overall and one per   *)
(* resource group.  An observation takes its time, and the job may be      *)
(* changed, asked for again, removed and added again before it answers.    *)
(*                                                                         *)
(* Time is what has become due, in the order in which it did: `due` holds  *)
(* the keys whose dueAt has passed.  Polls never stop; requests, changes   *)
(* of intent and pauses are bounded by MaxCalls.                           *)
(***************************************************************************)
EXTENDS Naturals, Sequences, FiniteSets, SequencesExt

CONSTANTS Keys, Groups, Contexts, None,
          Intents,            \* what callers may want of a key
          ConcurrencyLimits,  \* values of the option maxConcurrency
          MaxPerGroup,
          MaxCalls            \* bounds the calls of an instance

Cadences == {"foreground", "background"}
Causes == 0 .. 5
Poll == 0
Initial == 1
Resume == 2
Manual == 3
Context == 4
Filesystem == 5

Job == [id: Nat, cadence: Cadences, group: Groups \cup {None}, context: Contexts,
        running: BOOLEAN, again: BOOLEAN, revision: Nat, cause: Causes, queued: Causes]
Observation == [key: Keys, id: Nat, group: Groups \cup {None}, revision: Nat,
                context: Contexts, answered: BOOLEAN]

ASSUME RefreshAssumption ==
  /\ None \notin Groups \cup Job /\ None \notin [key: Keys, id: Nat]
  /\ IsFiniteSet(Groups)
  /\ Intents \subseteq [cadence: Cadences, eager: BOOLEAN,
                        group: Groups \cup {None}, context: Contexts]
  /\ ConcurrencyLimits \subseteq Nat \ {0}
  /\ MaxPerGroup \in Nat \ {0} /\ MaxCalls \in Nat

VARIABLES
  maxConcurrency, \* the constructor's option, fixed for the coordinator's life
  jobs,          \* [Keys -> job or None]
  due,           \* the keys whose dueAt has passed, earliest first
  runningKeys, active, activeByGroup,
  timer,         \* a wake-up is scheduled, for the earliest dueAt of an eligible job
  draining,      \* the loop of drain is running; nothing else runs meanwhile
  paused, disposed,
  sequence,      \* of the next job, which is also its identity
  inflight,      \* observations that have not come to their end
  calls,
  touched,       \* history: jobs asked for, changed or removed since their observation began
  unserved,      \* history: keys asked for since their last observation began
  publication    \* history: the last published observation, and whether it was still true

vars == <<jobs, due, runningKeys, active, activeByGroup, timer, draining, paused,
          disposed, sequence, inflight, calls, touched, unserved, publication>>

----------------------------------------------------------------------------
Has(k) == jobs[k] # None
Without(k) == SelectSeq(due, LAMBDA other : other # k)
Due(k) == k \in {due[i] : i \in DOMAIN due}
Max2(a, b) == IF a >= b THEN a ELSE b     \* mergeCause, on the ranks of causePriority

InGroup(g) == {o \in inflight : o.group = g}

Eligible ==
  {k \in Keys : /\ Has(k)
                /\ ~jobs[k].running /\ k \notin runningKeys
                /\ jobs[k].group # None => activeByGroup[jobs[k].group] < MaxPerGroup}

(* What schedule waits for.                                                *)
WakeupWanted == ~disposed /\ ~paused /\ active < maxConcurrency /\ Eligible # {}

(* The end of nearly every handler; with the other variables' new values.  *)
Schedule == UNCHANGED maxConcurrency /\ timer' = WakeupWanted'

Init ==
  /\ maxConcurrency \in ConcurrencyLimits
  /\ jobs = [k \in Keys |-> None]
  /\ due = <<>>
  /\ runningKeys = {} /\ active = 0 /\ activeByGroup = [g \in Groups |-> 0]
  /\ timer = FALSE /\ draining = FALSE /\ paused = FALSE /\ disposed = FALSE
  /\ sequence = 0
  /\ inflight = {}
  /\ calls = 0 /\ touched = {} /\ unserved = {}
  /\ publication = [fresh |-> TRUE, of |-> None]

Call == ~draining /\ ~disposed /\ calls < MaxCalls /\ calls' = calls + 1
NothingStarts == UNCHANGED <<runningKeys, active, activeByGroup, inflight, draining>>

Touch(k) == touched' = touched \cup (IF Has(k) THEN {jobs[k].id} ELSE {})

NewJob(intent) ==
  [id |-> sequence, cadence |-> intent.cadence, group |-> intent.group,
   context |-> intent.context, running |-> FALSE, again |-> FALSE, revision |-> 0,
   cause |-> IF intent.eager THEN Initial ELSE Poll, queued |-> Poll]

(* The queued cause is null or better than a poll, so Poll stands for null.*)
AskAgain(job, cause) == [job EXCEPT !.again = TRUE, !.queued = Max2(@, cause)]
AskNow(job, cause) == [job EXCEPT !.cause = Max2(@, cause)]
IsRunning(k) == jobs[k].running \/ k \in runningKeys

(* reconcile with an intent for a key that has no job.                     *)
AddJob(k, intent) ==
  /\ Call
  /\ ~Has(k)
  /\ jobs' = [jobs EXCEPT ![k] = NewJob(intent)]
  /\ sequence' = sequence + 1
  /\ due' = IF intent.eager THEN Append(Without(k), k) ELSE Without(k)
  /\ unserved' = IF intent.eager THEN unserved \cup {k} ELSE unserved
  /\ NothingStarts /\ UNCHANGED <<paused, disposed, touched, publication>>
  /\ Schedule

(* reconcile without an intent for a key.                                  *)
RemoveJob(k) ==
  /\ Call
  /\ Has(k)
  /\ jobs' = [jobs EXCEPT ![k] = None]
  /\ due' = Without(k)
  /\ Touch(k)
  /\ unserved' = unserved \ {k}
  /\ NothingStarts /\ UNCHANGED <<paused, disposed, sequence, publication>>
  /\ Schedule

(* reconcile with a changed intent for a key that has a job; an equal one  *)
(* changes nothing.                                                        *)
ChangeJob(k, intent) ==
  LET job == jobs[k]
      contextChanged == job.context # intent.context
      recadenced == job.cadence # intent.cadence \/ job.group # intent.group
      changed == [job EXCEPT !.cadence = intent.cadence, !.group = intent.group,
                             !.context = intent.context,
                             !.revision = IF contextChanged THEN @ + 1 ELSE @]
  IN  /\ Call
      /\ Has(k)
      /\ contextChanged \/ recadenced
      /\ \/ /\ contextChanged /\ IsRunning(k)
            /\ jobs' = [jobs EXCEPT ![k] = AskAgain(changed, Context)]
            /\ UNCHANGED due
         \/ /\ contextChanged /\ ~IsRunning(k)
            /\ jobs' = [jobs EXCEPT ![k] = [changed EXCEPT !.cause = Context]]
            /\ due' = Append(Without(k), k)
         \/ /\ ~contextChanged
            /\ jobs' = [jobs EXCEPT ![k] = changed]
            /\ due' = IF job.running THEN due ELSE Without(k)
      /\ touched' = IF contextChanged THEN touched \cup {job.id} ELSE touched
      /\ unserved' = IF contextChanged THEN unserved \cup {k} ELSE unserved
      /\ NothingStarts /\ UNCHANGED <<paused, disposed, sequence, publication>>
      /\ Schedule

(* Fault: a request during an observation leaves its revision alone.       *)
BugRequestKeepsRevision(job) == job
Invalidate(job) == [job EXCEPT !.revision = @ + 1]

Request(k, cause) ==
  /\ Call
  /\ Has(k)
  /\ IF IsRunning(k)
     THEN /\ jobs' = [jobs EXCEPT ![k] = AskAgain(Invalidate(@), cause)]
          /\ UNCHANGED due
     ELSE /\ jobs' = [jobs EXCEPT ![k] = AskNow(Invalidate(@), cause)]
          /\ due' = Append(Without(k), k)
  /\ Touch(k)
  /\ unserved' = unserved \cup {k}
  /\ NothingStarts /\ UNCHANGED <<paused, disposed, sequence, publication>>
  /\ Schedule

Pause ==
  /\ Call
  /\ ~paused
  /\ paused' = TRUE /\ timer' = FALSE
  /\ NothingStarts
  /\ UNCHANGED <<jobs, due, disposed, sequence, touched, unserved, publication>>

(* On resume the foreground is due, and what has been asked for; the rest  *)
(* of the background starts a new interval.                                *)
DueOnResume(k) == jobs[k].cadence = "foreground" \/ jobs[k].cause >= Manual

ResumePolling ==
  LET idle == {k \in Keys : Has(k) /\ ~IsRunning(k)}
      now == {k \in idle : DueOnResume(k)}
  IN  /\ Call
      /\ paused
      /\ paused' = FALSE
      /\ jobs' = [k \in Keys |->
                    IF k \notin idle THEN jobs[k]
                    ELSE IF jobs[k].cadence = "foreground"
                         THEN [jobs[k] EXCEPT !.cause = Max2(@, Resume)]
                    ELSE IF jobs[k].cause >= Manual THEN jobs[k]
                    ELSE [jobs[k] EXCEPT !.cause = Poll]]
      /\ due' = SelectSeq(due, LAMBDA k : k \notin idle) \o SetToSeq(now)
      /\ NothingStarts
      /\ UNCHANGED <<disposed, sequence, touched, unserved, publication>>
      /\ Schedule

Dispose ==
  /\ Call
  /\ disposed' = TRUE /\ timer' = FALSE
  /\ jobs' = [k \in Keys |-> None]
  /\ due' = <<>>
  /\ touched' = touched \cup {jobs[k].id : k \in {j \in Keys : Has(j)}}
  /\ unserved' = {}
  /\ NothingStarts
  /\ UNCHANGED <<paused, sequence, publication>>

----------------------------------------------------------------------------
(* A job's dueAt passes, perhaps in the middle of drain, which reads the    *)
(* clock in every round.                                                   *)
Elapse(k) ==
  /\ Has(k) /\ ~jobs[k].running /\ ~Due(k)
  /\ due' = Append(due, k)
  /\ UNCHANGED <<jobs, runningKeys, active, activeByGroup, timer, draining, paused,
                 disposed, sequence, inflight, calls, touched, unserved, publication>>

(* The timer fires when the job it was set for is due.                     *)
Fire ==
  /\ timer /\ ~draining
  /\ \A o \in inflight : ~o.answered     \* microtasks come before timers
  /\ \E k \in Eligible : Due(k)
  /\ timer' = FALSE /\ draining' = TRUE
  /\ UNCHANGED <<jobs, due, runningKeys, active, activeByGroup, paused, disposed,
                 sequence, inflight, calls, touched, unserved, publication>>

Position(k) == SelectInSeq(due, LAMBDA other : other = k)

(* compareJobs: cadence, then dueAt.                                       *)
Before(a, b) ==
  IF jobs[a].cadence = jobs[b].cadence THEN Position(a) < Position(b)
  ELSE jobs[a].cadence = "foreground"

DueNow == {k \in Eligible : Due(k)}

(* Fault: the permit of the group is not counted.                          *)
BugStartTakesNoGroup(g) == UNCHANGED activeByGroup

TakeGroup(g) ==
  activeByGroup' = IF g = None THEN activeByGroup
                   ELSE [activeByGroup EXCEPT ![g] = @ + 1]

(* One round of drain's loop, with start.                                  *)
Start(k) ==
  /\ draining
  /\ active < maxConcurrency
  /\ k \in DueNow /\ \A other \in DueNow \ {k} : Before(k, other)
  /\ jobs' = [jobs EXCEPT ![k].running = TRUE]
  /\ due' = Without(k)
  /\ runningKeys' = runningKeys \cup {k}
  /\ active' = active + 1
  /\ TakeGroup(jobs[k].group)
  /\ inflight' = inflight \cup
       {[key |-> k, id |-> jobs[k].id, group |-> jobs[k].group,
         revision |-> jobs[k].revision, context |-> jobs[k].context,
         answered |-> FALSE]}
  /\ touched' = touched \ {jobs[k].id}
  /\ unserved' = unserved \ {k}
  /\ UNCHANGED <<timer, draining, paused, disposed, sequence, calls, publication>>

DrainEnds ==
  /\ draining
  /\ active >= maxConcurrency \/ DueNow = {}
  /\ draining' = FALSE
  /\ UNCHANGED <<jobs, due, runningKeys, active, activeByGroup, paused, disposed,
                 sequence, inflight, calls, touched, unserved, publication>>
  /\ Schedule

IsCurrent(o) == Has(o.key) /\ jobs[o.key].id = o.id

(* The observation answers: the first continuation, which publishes.       *)
Answer(o) ==
  /\ ~draining
  /\ o \in inflight /\ ~o.answered
  /\ inflight' = (inflight \ {o}) \cup {[o EXCEPT !.answered = TRUE]}
  /\ publication' =
       IF ~disposed /\ IsCurrent(o) /\ o.revision = jobs[o.key].revision
       THEN [of |-> [key |-> o.key, id |-> o.id],
             fresh |-> o.id \notin touched /\ o.context = jobs[o.key].context]
       ELSE publication
  /\ UNCHANGED <<jobs, due, runningKeys, active, activeByGroup, timer, draining, paused,
                 disposed, sequence, calls, touched, unserved>>

Less1(n) == IF n > 0 THEN n - 1 ELSE 0    \* Math.max(0, n - 1), and decrementGroup

(* Fault: the permit is returned to the group the job is in by now.        *)
BugPermitOfIntent(o) == IF IsCurrent(o) THEN jobs[o.key].group ELSE o.group
PermitOf(o) == o.group

ReturnGroup(g) ==
  activeByGroup' = IF g = None THEN activeByGroup
                   ELSE [activeByGroup EXCEPT ![g] = Less1(@)]

Finished(job) ==
  [job EXCEPT !.running = FALSE, !.again = FALSE, !.queued = Poll,
              !.cause = IF ~job.again THEN Poll
                        ELSE IF job.queued = Poll THEN Manual ELSE job.queued]

(* Fault: the permit returns without a look at who may use it.             *)
BugFinishDoesNotSchedule == UNCHANGED timer
RescheduleAfterFinish == Schedule

(* The last continuation, after an answer or after a failure.              *)
Finish(o) ==
  /\ ~draining
  /\ o \in inflight
  /\ inflight' = inflight \ {o}
  /\ active' = Less1(active)
  /\ runningKeys' = runningKeys \ {o.key}
  /\ ReturnGroup(PermitOf(o))
  /\ IF IsCurrent(o) /\ ~disposed
     THEN /\ jobs' = [jobs EXCEPT ![o.key] = Finished(@)]
          /\ due' = IF jobs[o.key].again THEN Append(Without(o.key), o.key)
                    ELSE Without(o.key)
     ELSE UNCHANGED <<jobs, due>>
  /\ UNCHANGED <<draining, paused, disposed, sequence, calls, touched, unserved,
                 publication>>
  /\ RescheduleAfterFinish

----------------------------------------------------------------------------
Next ==
  \/ \E k \in Keys, intent \in Intents : AddJob(k, intent)
  \/ \E k \in Keys : RemoveJob(k)
  \/ \E k \in Keys, intent \in Intents : ChangeJob(k, intent)
  \/ \E k \in Keys, cause \in {Manual, Filesystem} : Request(k, cause)
  \/ Pause
  \/ ResumePolling
  \/ Dispose
  \/ \E k \in Keys : Elapse(k)
  \/ Fire
  \/ \E k \in Keys : Start(k)
  \/ DrainEnds
  \/ \E o \in inflight : Answer(o)
  \/ \E o \in inflight : Finish(o)

Spec == Init /\ [][UNCHANGED maxConcurrency /\ Next]_<<vars, maxConcurrency>>

(* Timers fire, intervals pass, and observations end: Git runs under a     *)
(* time limit.  Strong fairness, since the end of one observation waits    *)
(* for the loop of drain, time and again.  Nobody has to ask for anything. *)
Fairness ==
  /\ WF_vars(Fire) /\ WF_vars(DrainEnds)
  /\ \A k \in Keys :
       /\ WF_vars(Elapse(k))
       /\ WF_vars(Start(k))
       /\ SF_vars(\E o \in inflight : o.key = k /\ Finish(o))

FairSpec == Spec /\ Fairness

----------------------------------------------------------------------------
RefreshTyped ==
  /\ maxConcurrency \in ConcurrencyLimits
  /\ jobs \in [Keys -> Job \cup {None}]
  /\ runningKeys \subseteq Keys
  /\ active \in Nat /\ activeByGroup \in [Groups -> Nat]
  /\ {timer, draining, paused, disposed} \subseteq BOOLEAN
  /\ sequence \in Nat /\ calls \in Nat
  /\ inflight \subseteq Observation /\ IsFiniteSet(inflight)
  /\ touched \subseteq Nat /\ unserved \subseteq Keys
  /\ publication.fresh \in BOOLEAN

TypeOK == RefreshTyped /\ due \in Seq(Keys)

(***************************************************************************)
(* Permits balance whatever happens to a job while it is observed: active  *)
(* is the number of observations in flight, each group counts the ones     *)
(* that took its permit when they started, a key is observed once at a     *)
(* time, and neither limit is exceeded (start and its finally clause).     *)
(***************************************************************************)
PermitsBalance ==
  /\ active = Cardinality(inflight) /\ active <= maxConcurrency
  /\ \A g \in Groups : /\ activeByGroup[g] = Cardinality(InGroup(g))
                       /\ activeByGroup[g] <= MaxPerGroup
  /\ runningKeys = {o.key : o \in inflight}
  /\ \A o, p \in inflight : o.key = p.key => o = p
  /\ \A k \in Keys : Has(k) /\ jobs[k].running => \E o \in inflight : o.id = jobs[k].id

(***************************************************************************)
(* No wake-up is lost: between handlers, if a job could start when it is   *)
(* due then a timer is set (schedule, called by every handler that may     *)
(* make a job eligible or return a permit).                                *)
(***************************************************************************)
NoLostWakeup == ~draining /\ WakeupWanted => timer

(***************************************************************************)
(* What is published is still true: the job was not asked for, moved to    *)
(* another context, removed or replaced since the observation began        *)
(* (revision and identity of the job, compared when the answer comes).     *)
(***************************************************************************)
PublishedIsFresh == publication.fresh

(***************************************************************************)
(* Every request is served: while polling is not paused for ever, a key in *)
(* the foreground that was asked for is observed by an observation that    *)
(* began after the request, however observations, removals and changes of  *)
(* its job fall together.  Background jobs come after the foreground and   *)
(* have no such promise.                                                   *)
(***************************************************************************)
Foreground(k) == Has(k) /\ jobs[k].cadence = "foreground"

RequestsAreServed ==
  \A k \in Keys :
    <>[](~paused /\ Foreground(k)) => (k \in unserved ~> k \notin unserved)

=============================================================================
