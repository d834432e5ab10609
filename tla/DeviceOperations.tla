--------------------------- MODULE DeviceOperations ---------------------------
(***************************************************************************)
(* DeviceOperationStore (packages/domain/src/workspaces), the journal that *)
(* keeps a Device from repeating what a command did, and its user          *)
(* WorkspaceDeviceService with CheckoutLossScanner: creating, cleaning up, *)
(* promoting and aligning Checkouts of a Device by reviewed plans.         *)
(*                                                                         *)
(* A client plans, then executes a command that names the plan; it may     *)
(* send a command again when an answer is lost.  The service decides at    *)
(* the delivery whether the effect may run, the journal executes one       *)
(* command after another, and the effect changes the Device's workspace    *)
(* under optimistic revisions.  Everything in memory is lost in a crash;   *)
(* the journal and the workspace are replaced on disk as a whole.          *)
(*                                                                         *)
(* A client id and command id are one name; an intent is a kind and a      *)
(* Checkout; wall clocks are a counter of finished receipts.  The intents  *)
(* that create a Checkout (a Worktree, an isolated one, a clone) have one  *)
(* shape, and so have those that align its Branch (push, fast-forward,     *)
(* publish), whose effect is on a remote.  The version of a Checkout       *)
(* changes only with the workspace's revision, which is checked first: it  *)
(* is left out.                                                            *)
(***************************************************************************)
EXTENDS Naturals, Sequences, FiniteSets

CONSTANTS
    Commands,       \* client id and command id
    Plans,          \* plan tokens
    Checkouts,      \* checkout ids
    Callers,        \* who sends: "sessions" MultiDeviceSessions, "api" others
    MaxReceipts,    \* maxReceipts
    MaxDeliveries,  \* bound on commands delivered, for TLC
    MaxCrashes,     \* bound on crashes
    MaxFailures,    \* bound on failing journal writes
    MaxReconciles,  \* bound on other changes of the workspace
    MaxUses,        \* bound on what comes to be in the Checkouts
    None            \* null

ASSUME OperationBounds ==
    /\ Callers \subseteq {"sessions", "api"}
    /\ MaxReceipts \in Nat \ {0}
    /\ MaxDeliveries \in Nat /\ MaxCrashes \in Nat
    /\ MaxFailures \in Nat /\ MaxReconciles \in Nat /\ MaxUses \in Nat

Unfinished == {"running", "interrupted"}
Creating == {"workspace", "isolated"}   \* by the role of the new Checkout
Kinds == Creating \cup {"cleanup", "promote", "align"}
Intent == [kind : Kinds, checkout : Checkouts]

Receipt == [intent : Intent, at : Nat,
            state : Unfinished \cup {"succeeded", "failed"}]
Job == [command : Commands, plan : Plans, real : BOOLEAN]
Phase == {"recording", "effect", "preparing", "prepared", "scanned", "removing",
          "removed", "succeeding", "failing"}
Plan == [status : {"unused", "active", "gone"}, intent : Intent, revision : Nat]

Lifecycle == {"none", "pending", "ready", "cleanup-planned", "removed"}

\* What keeps a Checkout from being cleaned up: "dirty" is what Git's status
\* shows, "hidden" what git worktree remove does not look at: an active Session,
\* ignored files, commits of a detached HEAD.
Uses == {"dirty", "hidden"}

ASSUME NoReceiptAssumption == None \notin Receipt /\ None \notin Job

VARIABLES
    up,          \* the Device's server runs
    journal,     \* state.receipts
    disk,        \* the receipts in the file
    clock,       \* how many receipts have been finished
    queue,       \* jobs chained behind queue
    current,     \* the job executeNow is at, or None
    phase,       \* where it is
    base,        \* the workspace revision its effect holds
    plans,       \* the service's plans
    revision,    \* the workspace's revision
    checkouts,   \* the lifecycle of each Checkout
    owned,       \* its role is isolated-session, with an owner
    tree,        \* its Worktree exists
    uses,        \* what of Uses is in it
    late,        \* what came to be in current's Checkout since its loss scan
    begun,       \* begun[c]: how often an effect of c was begun
    forgotten,   \* forgotten[c]: how often c's receipt was trimmed
    told,        \* <<command, intent>> reported to a client as succeeded
    early,       \* those that getCommand reported while their receipt was being written
    deliveries, crashes, failures, reconciles, arrivals

storeVars == <<journal, disk, clock, forgotten>>
execVars == <<queue, current, phase, base>>
workspaceVars == <<revision, checkouts, owned>>
treeVars == <<tree, uses, late>>
ghostVars == <<begun, told, early>>
countVars == <<deliveries, crashes, failures, reconciles, arrivals>>
vars == <<up, storeVars, execVars, plans, workspaceVars, treeVars, ghostVars,
          countVars>>

NoReceipts == [c \in Commands |-> None]

TypeOK ==
    /\ up \in BOOLEAN
    /\ journal \in [Commands -> Receipt \cup {None}]
    /\ disk \in [Commands -> Receipt \cup {None}]
    /\ clock \in Nat
    /\ queue \in Seq(Job)
    /\ current \in Job \cup {None}
    /\ phase \in Phase
    /\ base \in Nat
    /\ plans \in [Plans -> Plan]
    /\ revision \in Nat
    /\ checkouts \in [Checkouts -> Lifecycle]
    /\ owned \in [Checkouts -> BOOLEAN]
    /\ tree \in [Checkouts -> BOOLEAN]
    /\ uses \in [Checkouts -> SUBSET Uses]
    /\ late \subseteq Uses
    /\ begun \in [Commands -> Nat]
    /\ forgotten \in [Commands -> Nat]
    /\ told \subseteq Commands \X Intent /\ early \subseteq Commands \X Intent
    /\ deliveries \in Nat /\ crashes \in Nat
    /\ failures \in Nat /\ reconciles \in Nat /\ arrivals \in Nat

\* Some isolated Checkouts have been made before; of the bound on arrivals some
\* may be used up.
Init ==
    /\ up = TRUE
    /\ journal = NoReceipts /\ disk = NoReceipts /\ clock = 0
    /\ queue = <<>> /\ current = None /\ phase = "recording" /\ base = 0
    /\ plans \in [Plans -> [status : {"unused"}, intent : Intent, revision : {0}]]
    /\ revision = 0
    /\ owned \in [Checkouts -> BOOLEAN]
    /\ checkouts = [k \in Checkouts |-> IF owned[k] THEN "ready" ELSE "none"]
    /\ tree = owned
    /\ uses = [k \in Checkouts |-> {}] /\ late = {}
    /\ begun = [c \in Commands |-> 0]
    /\ forgotten = [c \in Commands |-> 0]
    /\ told = {} /\ early = {}
    /\ deliveries = 0 /\ crashes = 0 /\ failures = 0 /\ reconciles = 0
    /\ arrivals \in 0..MaxUses

-----------------------------------------------------------------------------
\* The service: plans and what a delivery is checked for.

\* planWorkspaceLocation: the id is new.
Creatable(k) == checkouts[k] = "none"

\* requiredOwnedCheckout.
OwnedCheckout(k) == checkouts[k] # "none" /\ owned[k]

\* scan finds no blocker.
Eligible(k) == OwnedCheckout(k) /\ checkouts[k] = "ready" /\ uses[k] = {}

\* No fatalPromotionBlockers: what is in the Checkout stays in it; a Session other
\* than its owner's is one of the reasons for which EffectFails.
Promotable(k) == OwnedCheckout(k) /\ checkouts[k] = "ready"

\* requiredReadyAlignmentCheckout.
Alignable(k) == checkouts[k] = "ready"

Kind(p) == plans[p].intent.kind
Target(p) == plans[p].intent.checkout

\* rememberPlan: reviewed against this revision, without blockers.  A plan that
\* has expired or was one too many is one that nobody delivers.
RememberPlan(p) ==
    /\ up
    /\ plans[p].status = "unused"
    /\ plans' = [plans EXCEPT ![p].status = "active", ![p].revision = revision]
    /\ UNCHANGED <<up, storeVars, execVars, workspaceVars, treeVars, ghostVars,
                   countVars>>

PlanCreation(p) ==
    Kind(p) \in Creating /\ Creatable(Target(p)) /\ RememberPlan(p)

PlanLifecycle(p) ==
    /\ \/ Kind(p) = "cleanup" /\ Eligible(Target(p))
       \/ Kind(p) = "promote" /\ Promotable(Target(p))
    /\ RememberPlan(p)

PlanAlignment(p) ==
    Kind(p) = "align" /\ Alignable(Target(p)) /\ RememberPlan(p)

MakePlan(p) == PlanCreation(p) \/ PlanLifecycle(p) \/ PlanAlignment(p)

\* The entity under which a caller sends the revision the plan expects.
VersionKey(caller) == IF caller = "sessions" THEN "workspace" ELSE "device-workspace"

Enqueue(c, p, real) ==
    /\ queue' = Append(queue, [command |-> c, plan |-> p, real |-> real])
    /\ UNCHANGED <<current, phase, base>>

\* execute of the service with a command built from plan p: a command that the
\* journal knows gets an effect that only throws, the others need their plan.
\* A refused command (plan_expired, plan_mismatch) changes nothing.
Deliver(c, p, caller) ==
    /\ up
    /\ plans[p].status # "unused"
    /\ deliveries < MaxDeliveries
    /\ deliveries' = deliveries + 1
    /\ \/ journal[c] # None /\ Enqueue(c, p, FALSE)
       \/ /\ journal[c] = None
          /\ plans[p].status = "active"
          /\ VersionKey(caller) = "device-workspace"
          /\ Enqueue(c, p, TRUE)
    /\ UNCHANGED <<up, storeVars, plans, workspaceVars, treeVars, ghostVars,
                   crashes, failures, reconciles, arrivals>>

-----------------------------------------------------------------------------
\* The journal: executeNow, one job at a time.

Recorded(j) == {c \in Commands : j[c] # None}

\* trim: the receipts it drops, the longest finished of those above the limit.
Trimmed(j) ==
    LET finished == {c \in Recorded(j) : j[c].state \notin Unfinished}
        rank(c) == Cardinality({d \in finished : j[d].at < j[c].at})
    IN  {c \in finished : rank(c) + MaxReceipts < Cardinality(Recorded(j))}

Trim(j) == [c \in Commands |-> IF c \in Trimmed(j) THEN None ELSE j[c]]

\* Fault: executeNow that repeats a command that did not succeed.
BugPreviousSucceeded(c) == journal[c] # None /\ journal[c].state = "succeeded"

\* executeNow found a receipt of the command.
Previous(c) == journal[c] # None

\* getCommand answers at once with the receipt in memory.  Its success may be one
\* that is still being written.
GetCommand(c) ==
    /\ up
    /\ journal[c] # None /\ journal[c].state = "succeeded"
    /\ LET report == <<c, journal[c].intent>>
       IN  IF current # None /\ current.command = c
           THEN early' = early \cup {report} /\ UNCHANGED told
           ELSE told' = told \cup {report} /\ UNCHANGED early
    /\ UNCHANGED <<up, storeVars, execVars, plans, workspaceVars, treeVars, begun,
                   countVars>>

\* The job that executeNow is called for.
Ready == up /\ current = None /\ queue # <<>>

\* A recorded command is answered from its receipt: its success, a conflict
\* with another intent, or that its outcome needs inspection.
Repeat ==
    /\ Ready
    /\ LET c == Head(queue).command
           i == plans[Head(queue).plan].intent
       IN  /\ Previous(c)
           /\ told' = IF journal[c].intent = i /\ journal[c].state = "succeeded"
                        THEN told \cup {<<c, i>>} ELSE told
    /\ queue' = Tail(queue)
    /\ UNCHANGED <<up, storeVars, current, phase, base, plans, workspaceVars,
                   treeVars, begun, early, countVars>>

WithReceipt(j, c, i) ==
    [j EXCEPT ![c] = [intent |-> i, state |-> "running", at |-> clock]]

\* A new command: a running receipt, trim, and unless trim found the journal
\* full of unfinished receipts, writeState.
Record ==
    /\ Ready
    /\ LET c == Head(queue).command
           grown == WithReceipt(journal, c, plans[Head(queue).plan].intent)
           kept == Trim(grown)
       IN  /\ ~Previous(c)
           /\ journal' = kept
           /\ forgotten' = [d \in Commands |->
                 IF d \in Trimmed(grown) THEN forgotten[d] + 1 ELSE forgotten[d]]
           /\ current' = IF Cardinality(Recorded(kept)) > MaxReceipts
                           THEN None ELSE Head(queue)
    /\ queue' = Tail(queue)
    /\ phase' = "recording"
    /\ UNCHANGED <<up, disk, clock, base, plans, workspaceVars, treeVars, ghostVars,
                   countVars>>

Finish(c, state) ==
    /\ journal' = [journal EXCEPT ![c].state = state, ![c].at = clock + 1]
    /\ clock' = clock + 1

\* The receipt is on disk and the effect is called; the one of a command that
\* was recorded at its delivery throws at once.
RecordWritten ==
    /\ up /\ current # None /\ phase = "recording"
    /\ disk' = journal
    /\ \/ /\ current.real
          /\ phase' = "effect"
          /\ begun' = [begun EXCEPT ![current.command] = @ + 1]
          /\ UNCHANGED <<journal, clock>>
       \/ /\ ~current.real
          /\ phase' = "failing"
          /\ Finish(current.command, "failed")
          /\ UNCHANGED begun
    /\ UNCHANGED <<up, forgotten, queue, current, base, plans, workspaceVars,
                   treeVars, told, early, countVars>>

\* writeState fails before the effect: execute rejects, the receipt stays.
RecordNotWritten ==
    /\ up /\ current # None /\ phase = "recording"
    /\ failures < MaxFailures
    /\ failures' = failures + 1
    /\ current' = None
    /\ UNCHANGED <<up, storeVars, queue, phase, base, plans, workspaceVars,
                   treeVars, ghostVars, deliveries, crashes, reconciles, arrivals>>

\* The effect has returned and a succeeded receipt is on disk.
SuccessWritten ==
    /\ up /\ current # None /\ phase = "succeeding"
    /\ disk' = journal
    /\ told' = told \cup {<<current.command, plans[current.plan].intent>>}
    /\ current' = None
    /\ UNCHANGED <<up, journal, clock, forgotten, queue, phase, base, plans,
                   workspaceVars, treeVars, begun, early, countVars>>

\* writeState fails after the effect: the same catch as a failing effect.
SuccessNotWritten ==
    /\ up /\ current # None /\ phase = "succeeding"
    /\ failures < MaxFailures
    /\ failures' = failures + 1
    /\ Finish(current.command, "failed")
    /\ phase' = "failing"
    /\ UNCHANGED <<up, disk, forgotten, queue, current, base, plans, workspaceVars,
                   treeVars, ghostVars, deliveries, crashes, reconciles, arrivals>>

\* Fault: a rejected operation stays at the head of queue.
BugFailureKeepsQueue ==
    /\ up /\ current # None /\ phase = "failing"
    /\ disk' = journal
    /\ UNCHANGED <<up, journal, clock, forgotten, execVars, plans, workspaceVars,
                   treeVars, ghostVars, countVars>>

\* The failed receipt is written and execute rejects.
FailureWritten ==
    /\ up /\ current # None /\ phase = "failing"
    /\ disk' = journal
    /\ current' = None
    /\ UNCHANGED <<up, journal, clock, forgotten, queue, phase, base, plans,
                   workspaceVars, treeVars, ghostVars, countVars>>

\* Not even that can be written: memory and disk differ from here on.
FailureNotWritten ==
    /\ up /\ current # None /\ phase = "failing"
    /\ failures < MaxFailures
    /\ failures' = failures + 1
    /\ current' = None
    /\ UNCHANGED <<up, storeVars, queue, phase, base, plans, workspaceVars,
                   treeVars, ghostVars, deliveries, crashes, reconciles, arrivals>>

-----------------------------------------------------------------------------
\* The effects, over the WorkspaceDeviceStore and Git.

\* The Checkout of the plan that is being executed.
Checkout == Target(current.plan)

\* A step from one phase to the next in the effect of a plan of these kinds.
Effect(kinds, from, to) ==
    /\ up /\ current # None /\ phase = from /\ phase' = to
    /\ Kind(current.plan) \in kinds
    /\ UNCHANGED <<up, disk, forgotten, queue, current, ghostVars, countVars>>

\* The step does not end the effect.
Continue == UNCHANGED <<journal, clock, plans>>

\* The effect has returned: the plan is used up.
Succeed ==
    /\ plans' = [plans EXCEPT ![current.plan].status = "gone"]
    /\ Finish(current.command, "succeeded")

\* The workspace is still at the revision that the plan was reviewed against.
AsPlanned == revision = plans[current.plan].revision

\* updateCheckout at the revision that the effect holds.
UpdateLifecycle(lifecycle) ==
    /\ revision = base
    /\ checkouts' = [checkouts EXCEPT ![Checkout] = lifecycle]
    /\ revision' = revision + 1
    /\ base' = revision + 1
    /\ UNCHANGED owned

\* The revision is the planned one: the Checkout is registered as pending.
RegisterCheckout ==
    /\ Effect(Creating, "effect", "preparing") /\ Continue
    /\ AsPlanned
    /\ Creatable(Checkout)
    /\ checkouts' = [checkouts EXCEPT ![Checkout] = "pending"]
    /\ owned' = [owned EXCEPT ![Checkout] = Kind(current.plan) = "isolated"]
    /\ revision' = revision + 1
    /\ base' = revision + 1
    /\ UNCHANGED treeVars

\* addWorkspaceWorktree, cloneRepository.
AddWorktree ==
    /\ Effect(Creating, "preparing", "prepared") /\ Continue
    /\ tree' = [tree EXCEPT ![Checkout] = TRUE]
    /\ UNCHANGED <<base, workspaceVars, uses, late>>

\* Fault: prepareWorkspaceLocation that does not wait for the last update.
BugPreparedUnchecked ==
    /\ Effect(Creating, "prepared", "succeeding") /\ Succeed
    /\ checkouts' = [checkouts EXCEPT ![Checkout] =
                       IF revision = base THEN "ready" ELSE @]
    /\ revision' = IF revision = base THEN revision + 1 ELSE revision
    /\ UNCHANGED <<base, owned, treeVars>>

\* Git is done and nothing else has changed the workspace meanwhile.
CheckoutReady ==
    /\ Effect(Creating, "prepared", "succeeding") /\ Succeed
    /\ UpdateLifecycle("ready")
    /\ UNCHANGED treeVars

\* Fault: cleanupIsolatedCheckout that trusts the scan its plan was made with.
BugScanIsThePlans ==
    /\ Effect({"cleanup", "promote"}, "effect", "scanned") /\ Continue
    /\ AsPlanned
    /\ OwnedCheckout(Checkout)
    /\ base' = revision
    /\ late' = {}
    /\ UNCHANGED <<workspaceVars, tree, uses>>

\* The first half of cleanupIsolatedCheckout and promoteIsolatedCheckout: the
\* plan still holds, and a fresh scan finds nothing that forbids it.
ScanForLoss ==
    /\ Effect({"cleanup", "promote"}, "effect", "scanned") /\ Continue
    /\ AsPlanned
    /\ OwnedCheckout(Checkout)
    /\ \/ Kind(current.plan) = "cleanup" /\ Eligible(Checkout)
       \/ Kind(current.plan) = "promote" /\ Promotable(Checkout)
    /\ base' = revision
    /\ late' = {}
    /\ UNCHANGED <<workspaceVars, tree, uses>>

\* Fault: the Worktree is removed before its record says so.
BugPlanCleanup ==
    /\ Effect({"cleanup"}, "scanned", "removing") /\ Continue
    /\ tree' = [tree EXCEPT ![Checkout] = FALSE]
    /\ UNCHANGED <<base, workspaceVars, uses, late>>

PlanCleanup ==
    /\ Effect({"cleanup"}, "scanned", "removing") /\ Continue
    /\ UpdateLifecycle("cleanup-planned")
    /\ UNCHANGED treeVars

\* removeWorkspaceWorktree, which refuses what Git's status shows.
RemoveWorktree ==
    /\ Effect({"cleanup"}, "removing", "removed") /\ Continue
    /\ "dirty" \notin uses[Checkout]
    /\ tree' = [tree EXCEPT ![Checkout] = FALSE]
    /\ uses' = [uses EXCEPT ![Checkout] = {}]
    /\ UNCHANGED <<base, workspaceVars, late>>

RecordRemoval ==
    /\ Effect({"cleanup"}, "removed", "succeeding") /\ Succeed
    /\ UpdateLifecycle("removed")
    /\ UNCHANGED treeVars

\* The Checkout becomes a Workspace that no Session owns.
PromoteCheckout ==
    /\ Effect({"promote"}, "scanned", "succeeding") /\ Succeed
    /\ revision = base
    /\ owned' = [owned EXCEPT ![Checkout] = FALSE]
    /\ revision' = revision + 1
    /\ base' = revision + 1
    /\ UNCHANGED <<checkouts, treeVars>>

\* pushWorkspaceBranch and its like: Git compares, the remote changes.
AlignBranch ==
    /\ Effect({"align"}, "effect", "succeeding") /\ Succeed
    /\ AsPlanned
    /\ Alignable(Checkout)
    /\ UNCHANGED <<base, workspaceVars, treeVars>>

\* A revision conflict, a blocker, Git or a store write fails: what the effect
\* has done so far stays.
EffectFails ==
    /\ up /\ current # None
    /\ phase \notin {"recording", "succeeding", "failing"}
    /\ Finish(current.command, "failed")
    /\ phase' = "failing"
    /\ UNCHANGED <<up, disk, forgotten, queue, current, base, plans, workspaceVars,
                   treeVars, ghostVars, countVars>>

\* reconcileLegacy found a change: every Session or Project created may bring one.
Reconcile ==
    /\ up
    /\ reconciles < MaxReconciles
    /\ reconciles' = reconciles + 1
    /\ revision' = revision + 1
    /\ UNCHANGED <<up, storeVars, execVars, plans, checkouts, owned, treeVars,
                   ghostVars, deliveries, crashes, failures, arrivals>>

\* An agent or a user works in a Checkout, or a Session comes to use it.
Use(k, use) ==
    /\ tree[k]
    /\ arrivals < MaxUses
    /\ arrivals' = arrivals + 1
    /\ uses' = [uses EXCEPT ![k] = @ \cup {use}]
    /\ late' = IF current # None /\ phase \in {"scanned", "removing"} /\ Checkout = k
                 THEN late \cup {use} ELSE late
    /\ UNCHANGED <<up, storeVars, execVars, plans, workspaceVars, tree, ghostVars,
                   deliveries, crashes, failures, reconciles>>

\* The work is published or thrown away, the Session archived.
Settle(k) ==
    /\ uses[k] # {}
    /\ uses' = [uses EXCEPT ![k] = {}]
    /\ UNCHANGED <<up, storeVars, execVars, plans, workspaceVars, tree, late,
                   ghostVars, countVars>>

-----------------------------------------------------------------------------
\* writeState is at work: the rename may or may not have happened.
Writing == current # None /\ phase \in {"recording", "succeeding", "failing"}

Crash ==
    /\ up
    /\ crashes < MaxCrashes
    /\ crashes' = crashes + 1
    /\ up' = FALSE
    /\ disk' \in {disk, IF Writing THEN journal ELSE disk}
    /\ journal' = NoReceipts
    /\ queue' = <<>> /\ current' = None /\ phase' = "recording"
    /\ plans' = [p \in Plans |-> IF plans[p].status = "active"
                   THEN [plans[p] EXCEPT !.status = "gone"] ELSE plans[p]]
    /\ UNCHANGED <<clock, forgotten, base, workspaceVars, treeVars, ghostVars,
                   deliveries, failures, reconciles, arrivals>>

\* Fault: init that interrupts every receipt that did not succeed.
BugInterrupted(r) ==
    IF r # None /\ r.state # "succeeded" THEN [r EXCEPT !.state = "interrupted"] ELSE r

\* init: nobody runs what was running.
Interrupted(r) ==
    IF r # None /\ r.state = "running" THEN [r EXCEPT !.state = "interrupted"] ELSE r

Restart ==
    /\ ~up
    /\ up' = TRUE
    /\ journal' = [c \in Commands |-> Interrupted(disk[c])]
    /\ disk' = journal'
    /\ UNCHANGED <<clock, forgotten, execVars, plans, workspaceVars, treeVars,
                   ghostVars, countVars>>

Execute ==
    \/ Repeat \/ Record
    \/ RecordWritten \/ SuccessWritten \/ FailureWritten
    \/ RegisterCheckout \/ AddWorktree \/ CheckoutReady
    \/ ScanForLoss \/ PlanCleanup \/ RemoveWorktree \/ RecordRemoval
    \/ PromoteCheckout \/ AlignBranch \/ EffectFails

Next ==
    \/ \E p \in Plans : MakePlan(p)
    \/ \E c \in Commands, p \in Plans, caller \in Callers : Deliver(c, p, caller)
    \/ \E c \in Commands : GetCommand(c)
    \/ Execute
    \/ RecordNotWritten \/ SuccessNotWritten \/ FailureNotWritten
    \/ Reconcile \/ Crash \/ Restart
    \/ \E k \in Checkouts : Settle(k) \/ \E use \in Uses : Use(k, use)

Spec == Init /\ [][Next]_vars

\* Writes and Git (which has a time limit) come to an end.
FairSpec == Spec /\ WF_vars(Execute)

-----------------------------------------------------------------------------
\* Write-ahead: a command whose effect was begun has a receipt on disk, until
\* trim has forgotten a receipt of it (DeviceOperationStore.executeNow).
EffectsAreRecorded ==
    \A c \in Commands : begun[c] > forgotten[c] => disk[c] # None

\* A recorded command never repeats its effects, over duplicates in the queue,
\* failing writes and crashes: only a receipt that was trimmed allows another.
EffectsOnce == \A c \in Commands : begun[c] <= forgotten[c] + 1

\* What the success of an intent means.
Done(i) ==
    LET k == i.checkout
    IN  /\ i.kind \in Creating => checkouts[k] \notin {"none", "pending"}
        /\ i.kind = "cleanup" => checkouts[k] = "removed"
        /\ i.kind = "promote" => checkouts[k] = "ready" /\ ~owned[k]

\* What execute or getCommand reported as succeeded is so for good, whatever other
\* plans do (a promoted Checkout is not cleaned up by a plan made before) and, until
\* it is trimmed, a succeeded receipt for the same intent is on disk.  A report that
\* getCommand makes while that receipt is being written (early) promises only the
\* first: if the write fails or the server crashes, the receipt says failed or
\* interrupted in spite of it (DeviceOperationStore.get, executeNow).
SuccessIsDurable ==
    \A c \in Commands, i \in Intent :
        /\ <<c, i>> \in told \cup early => Done(i)
        /\ <<c, i>> \in told /\ forgotten[c] = 0 => /\ disk[c] # None
                                                    /\ disk[c].intent = i
                                                    /\ disk[c].state = "succeeded"

\* A Checkout recorded as ready has its Worktree and one recorded as removed has
\* none, over effects that fail or crash between Git and the record: a Checkout
\* is pending before its Worktree is added and cleanup-planned before it is
\* removed (prepareWorkspaceLocation, cleanupIsolatedCheckout).
RecordsMatchTrees ==
    \A k \in Checkouts : /\ checkouts[k] = "ready" => tree[k]
                         /\ checkouts[k] = "removed" => ~tree[k]

\* A cleanup takes with it nothing that was in the Checkout at the loss scan it
\* made itself, however long ago its plan was reviewed: only what came between
\* that scan and the removal and what Git does not see (cleanupIsolatedCheckout).
CleanupLosesNothingScanned ==
    [][\A k \in Checkouts : tree[k] /\ ~tree'[k] => uses[k] \subseteq late]_vars

\* An outcome on disk is final: a receipt that says succeeded, failed or
\* interrupted is kept as it is or trimmed, by restarts too (init).
OutcomesAreFinal ==
    [][\A c \in Commands : disk[c] # None /\ disk[c].state # "running" =>
          disk'[c] \in {disk[c], None} \/ forgotten'[c] > 0]_vars

\* Every job that waits is executed or lost with the server: a failing command
\* does not block those chained behind it (DeviceOperationStore.execute).
QueueMoves == \A n \in 1..MaxDeliveries :
    Len(queue) = n ~> (Len(queue) < n \/ ~up)
=============================================================================
