------------------------ MODULE DeviceOperationsProofs ------------------------
(***************************************************************************)
(* Machine-checked proofs about DeviceOperations.                          *)
(*                                                                         *)
(* OperationInv is the inductive invariant.  EffectsOnce alone says        *)
(* nothing of why the next effect is the first: an effect that was begun   *)
(* and not forgotten has its receipt on disk and, while the server runs,   *)
(* in memory, so executeNow finds it; and a receipt just recorded has no   *)
(* effect yet.  That a success is durable rests on the receipts in memory  *)
(* that say succeeded (but for the one being written they are on disk) and *)
(* on the effects: what a success means is never undone, because each      *)
(* phase of an effect knows what it found or left in the workspace         *)
(* (EffectIsSound).                                                        *)
(***************************************************************************)
EXTENDS DeviceOperations, TLAPS

\* A begun effect is recorded, on disk and in memory.
BegunIsRecorded ==
    \A c \in Commands : begun[c] > forgotten[c] =>
        disk[c] # None /\ (up => journal[c] # None)

\* The job being executed: its receipt is in memory, says what the phase says,
\* and when it is being recorded its command has no effect yet.
CurrentIsSound ==
    current # None =>
        /\ up
        /\ journal[current.command] # None
        /\ journal[current.command].intent = plans[current.plan].intent
        /\ phase = "recording" => begun[current.command] <= forgotten[current.command]
        /\ phase = "succeeding" => Done(plans[current.plan].intent)
        /\ journal[current.command].state =
              CASE phase = "succeeding" -> "succeeded"
                [] phase = "failing" -> "failed"
                [] OTHER -> "running"

\* A receipt that says succeeded is true, and one in memory is on disk unless it
\* is just being written.
SuccessIsTrue ==
    \A c \in Commands :
        /\ disk[c] # None /\ disk[c].state = "succeeded" => Done(disk[c].intent)
        /\ /\ journal[c] # None /\ journal[c].state = "succeeded"
           /\ current # None => current.command # c
           => Done(journal[c].intent) /\ disk[c] = journal[c]

\* What was told is on disk and in memory, and its command is not executed.
ToldIsKept ==
    \A c \in Commands, i \in Intent : <<c, i>> \in told =>
        /\ Done(i)
        /\ forgotten[c] = 0 =>
              /\ disk[c] # None /\ disk[c].intent = i /\ disk[c].state = "succeeded"
              /\ up => journal[c] = disk[c]
              /\ current # None => current.command # c

\* What was told early is true.
EarlyIsTrue == \A c \in Commands, i \in Intent : <<c, i>> \in early => Done(i)

\* What the effect being executed has found or left, by its phase.
EffectIsSound ==
    current # None =>
        /\ phase \in {"preparing", "prepared"} => checkouts[Checkout] = "pending"
        /\ phase = "prepared" => tree[Checkout]
        /\ phase = "scanned" => checkouts[Checkout] = "ready" /\ owned[Checkout]
        /\ phase \in {"removing", "removed"} => checkouts[Checkout] = "cleanup-planned"
        /\ phase = "removed" => ~tree[Checkout]

JournalInv == EffectsOnce /\ BegunIsRecorded /\ CurrentIsSound /\ SuccessIsTrue
              /\ ToldIsKept /\ EarlyIsTrue

WorkspaceInv == EffectIsSound /\ RecordsMatchTrees

OperationInv == TypeOK /\ JournalInv /\ WorkspaceInv

-----------------------------------------------------------------------------
\* trim drops recorded receipts that are finished and no others.
LEMMA TrimmedAreFinished ==
    ASSUME NEW j \in [Commands -> Receipt \cup {None}]
    PROVE  \A c \in Trimmed(j) : /\ c \in Commands
                                 /\ j[c] # None
                                 /\ j[c].state \notin Unfinished
BY DEF Trimmed, Recorded

\* What recording a command does to the journal.
LEMMA RecordEffect ==
    ASSUME TypeOK, Record
    PROVE  LET c == Head(queue).command
               i == plans[Head(queue).plan].intent
           IN  /\ Head(queue) \in Job /\ c \in Commands /\ i \in Intent
               /\ queue' \in Seq(Job)
               /\ journal[c] = None
               /\ journal' \in [Commands -> Receipt \cup {None}]
               /\ journal'[c] = [intent |-> i, state |-> "running", at |-> clock]
               /\ forgotten' \in [Commands -> Nat]
               /\ forgotten'[c] = forgotten[c]
               /\ current' \in {None, Head(queue)}
               /\ \A d \in Commands \ {c} :
                     \/ journal'[d] = journal[d] /\ forgotten'[d] = forgotten[d]
                     \/ /\ journal'[d] = None /\ forgotten'[d] = forgotten[d] + 1
                        /\ journal[d] # None
<1> DEFINE c == Head(queue).command
           i == plans[Head(queue).plan].intent
           r == [intent |-> i, state |-> "running", at |-> clock]
           grown == WithReceipt(journal, c, i)
           T == Trimmed(grown)
<1>1. Head(queue) \in Job /\ queue' \in Seq(Job)
  BY DEF Record, Ready, TypeOK
<1>2. c \in Commands /\ i \in Intent /\ r \in Receipt /\ r # None
  BY <1>1, NoReceiptAssumption DEF Job, TypeOK, Plan, Receipt, Unfinished
<1>3. /\ grown = [journal EXCEPT ![c] = r]
      /\ grown \in [Commands -> Receipt \cup {None}]
  BY <1>2 DEF WithReceipt, TypeOK
<1>4. \A d \in T : d \in Commands /\ grown[d] # None /\ grown[d].state \notin Unfinished
  BY <1>3, TrimmedAreFinished
<1>5. c \notin T
  <2>1. grown[c] = r
    BY <1>2, <1>3 DEF TypeOK
  <2>2. r.state \in Unfinished
    BY DEF Unfinished
  <2> HIDE DEF T, grown, r
  <2> QED BY <1>4, <2>1, <2>2
<1>6. /\ journal[c] = None
      /\ journal' = [d \in Commands |-> IF d \in T THEN None ELSE grown[d]]
      /\ forgotten' = [d \in Commands |->
                          IF d \in T THEN forgotten[d] + 1 ELSE forgotten[d]]
      /\ current' \in {None, Head(queue)}
  BY DEF Record, Previous, Trim
<1>7. journal[c] = None /\ current' \in {None, Head(queue)}
  BY <1>6
<1> HIDE DEF T, grown, r
<1>8. /\ journal' \in [Commands -> Receipt \cup {None}]
      /\ journal'[c] = r
      /\ forgotten' \in [Commands -> Nat]
      /\ forgotten'[c] = forgotten[c]
  BY <1>2, <1>3, <1>5, <1>6 DEF TypeOK
<1>9. ASSUME NEW d \in Commands \ {c}
      PROVE  \/ journal'[d] = journal[d] /\ forgotten'[d] = forgotten[d]
             \/ /\ journal'[d] = None /\ forgotten'[d] = forgotten[d] + 1
                /\ journal[d] # None
  BY <1>2, <1>3, <1>4, <1>6 DEF TypeOK
<1> QED BY <1>1, <1>2, <1>7, <1>8, <1>9 DEF r

-----------------------------------------------------------------------------
LEMMA OperationInit == Init => OperationInv
<1> SUFFICES ASSUME Init PROVE OperationInv
  OBVIOUS
<1>1. TypeOK
  <2>1. checkouts \in [Checkouts -> Lifecycle] /\ tree \in [Checkouts -> BOOLEAN]
    BY DEF Init, Lifecycle
  <2>2. plans \in [Plans -> Plan]
    BY DEF Init, Plan
  <2> QED BY <2>1, <2>2, OperationBounds DEF Init, TypeOK, NoReceipts, Phase
<1>2. RecordsMatchTrees
  BY DEF Init, RecordsMatchTrees
<1> QED BY <1>1, <1>2 DEF Init, OperationInv, JournalInv, WorkspaceInv, EffectIsSound,
                          EffectsOnce, BegunIsRecorded, CurrentIsSound, SuccessIsTrue,
                          ToldIsKept, EarlyIsTrue, NoReceipts

\* The parts of the job that is being executed.
LEMMA CurrentParts ==
    ASSUME TypeOK, current # None
    PROVE  /\ current \in Job
           /\ current.command \in Commands
           /\ current.plan \in Plans
           /\ plans[current.plan] \in Plan
           /\ plans[current.plan].intent \in Intent
           /\ plans[current.plan].revision \in Nat
BY DEF TypeOK, Job, Plan

\* Finishing changes the state of one receipt.
LEMMA FinishEffect ==
    ASSUME TypeOK, NEW c \in Commands, journal[c] # None,
           NEW state \in {"succeeded", "failed"}, Finish(c, state)
    PROVE  /\ journal' \in [Commands -> Receipt \cup {None}]
           /\ clock' \in Nat
           /\ journal'[c] # None
           /\ journal'[c].intent = journal[c].intent
           /\ journal'[c].state = state
           /\ \A d \in Commands \ {c} : journal'[d] = journal[d]
<1> DEFINE r == [journal[c] EXCEPT !.state = state, !.at = clock + 1]
<1>1. journal[c] \in Receipt /\ clock + 1 \in Nat
  BY DEF TypeOK
<1>2. r \in Receipt /\ r.intent = journal[c].intent /\ r.state = state
  BY <1>1 DEF Receipt
<1>3. journal' = [journal EXCEPT ![c] = r] /\ clock' = clock + 1
  BY DEF Finish
<1>4. r # None
  BY <1>2, NoReceiptAssumption
<1> HIDE DEF r
<1> QED BY <1>1, <1>2, <1>3, <1>4 DEF TypeOK

\* A change of a plan's status changes no intent.
LEMMA StatusEffect ==
    ASSUME TypeOK, NEW p \in Plans, NEW status \in {"unused", "active", "gone"},
           plans' = [plans EXCEPT ![p].status = status]
    PROVE  /\ plans' \in [Plans -> Plan]
           /\ \A q \in Plans : plans'[q].intent = plans[q].intent
<1> DEFINE r == [plans[p] EXCEPT !.status = status]
<1>1. plans[p] \in Plan
  BY DEF TypeOK
<1>2. r \in Plan /\ r.intent = plans[p].intent
  BY <1>1 DEF Plan
<1>3. plans' = [plans EXCEPT ![p] = r]
  OBVIOUS
<1> HIDE DEF r
<1> QED BY <1>2, <1>3 DEF TypeOK

-----------------------------------------------------------------------------
\* The actions of the service and the journal.
LEMMA PlanStep ==
    ASSUME OperationInv, NEW p \in Plans, MakePlan(p)
    PROVE  /\ TypeOK' /\ JournalInv'
           /\ \A q \in Plans : plans'[q].intent = plans[q].intent
           /\ UNCHANGED <<execVars, workspaceVars, treeVars>>
<1> USE DEF OperationInv, JournalInv
<1>0. RememberPlan(p)
  BY DEF MakePlan, PlanCreation, PlanLifecycle, PlanAlignment
<1>1. /\ plans' \in [Plans -> Plan]
      /\ \A q \in Plans : plans'[q].intent = plans[q].intent
  <2> DEFINE r == [plans[p] EXCEPT !.status = "active", !.revision = revision]
  <2>1. plans[p] \in Plan /\ revision \in Nat
    BY DEF TypeOK
  <2>2. r \in Plan /\ r.intent = plans[p].intent
    BY <2>1 DEF Plan
  <2>3. plans' = [plans EXCEPT ![p] = r]
    BY <1>0 DEF RememberPlan
  <2> HIDE DEF r
  <2> QED BY <2>2, <2>3 DEF TypeOK
<1>2. UNCHANGED <<up, storeVars, execVars, workspaceVars, treeVars, ghostVars, countVars>>
  BY <1>0 DEF RememberPlan
<1> USE <1>2 DEF storeVars, execVars, workspaceVars, treeVars, ghostVars, countVars, Done
<1>3. TypeOK'
  BY <1>1 DEF TypeOK
<1>4. CurrentIsSound'
  BY <1>1, CurrentParts DEF CurrentIsSound
<1> QED BY <1>1, <1>3, <1>4 DEF EffectsOnce, BegunIsRecorded, SuccessIsTrue, ToldIsKept,
                                 EarlyIsTrue

LEMMA DeliverStep ==
    ASSUME OperationInv, NEW c \in Commands, NEW p \in Plans, NEW caller \in Callers,
           Deliver(c, p, caller)
    PROVE  TypeOK' /\ JournalInv'
<1> USE DEF OperationInv, JournalInv
<1>1. /\ queue' \in Seq(Job)
      /\ UNCHANGED <<current, phase, base>>
  <2>1. CASE \E real \in BOOLEAN : Enqueue(c, p, real)
    BY <2>1 DEF Enqueue, Job, TypeOK
  <2> QED BY <2>1 DEF Deliver
<1>2. UNCHANGED <<up, storeVars, plans, workspaceVars, treeVars, ghostVars, crashes,
                  failures, reconciles, arrivals>>
  BY DEF Deliver
<1>3. deliveries' = deliveries + 1
  BY DEF Deliver
<1> USE <1>1, <1>2 DEF storeVars, workspaceVars, treeVars, ghostVars, Done
<1>4. TypeOK'
  BY <1>3 DEF TypeOK
<1>5. EffectsOnce' /\ BegunIsRecorded'
  BY DEF EffectsOnce, BegunIsRecorded
<1>6. CurrentIsSound' /\ SuccessIsTrue'
  BY DEF CurrentIsSound, SuccessIsTrue
<1>7. ToldIsKept' /\ EarlyIsTrue'
  BY DEF ToldIsKept, EarlyIsTrue
<1> QED BY <1>4, <1>5, <1>6, <1>7

LEMMA RepeatStep == ASSUME OperationInv, Repeat PROVE TypeOK' /\ JournalInv'
<1> USE DEF OperationInv, JournalInv
<1> DEFINE c == Head(queue).command
           i == plans[Head(queue).plan].intent
<1>1. /\ Head(queue) \in Job /\ c \in Commands /\ i \in Intent
      /\ queue' \in Seq(Job)
  <2>1. Head(queue) \in Job /\ queue' \in Seq(Job)
    BY DEF Repeat, Ready, TypeOK
  <2> QED BY <2>1 DEF Job, TypeOK, Plan
<1>2. /\ UNCHANGED <<up, storeVars, current, phase, base, plans, workspaceVars, treeVars,
                     begun, early, countVars>>
      /\ journal[c] # None /\ up /\ current = None
      /\ told' = told \/ /\ told' = told \cup {<<c, i>>}
                         /\ journal[c].intent = i /\ journal[c].state = "succeeded"
  BY DEF Repeat, Ready, Previous
<1> HIDE DEF c, i
<1> USE <1>2 DEF storeVars, workspaceVars, treeVars, countVars, Done
<1>3. TypeOK'
  BY <1>1 DEF TypeOK
<1>4. ToldIsKept'
  <2>1. CASE told' = told
    BY <2>1 DEF ToldIsKept
  <2>2. CASE /\ told' = told \cup {<<c, i>>}
             /\ journal[c].intent = i /\ journal[c].state = "succeeded"
    <3>1. Done(i) /\ disk[c] = journal[c]
      BY <1>1, <2>2 DEF SuccessIsTrue
    <3> QED BY <1>1, <2>2, <3>1 DEF ToldIsKept
  <2> QED BY <1>2, <2>1, <2>2
<1> QED BY <1>3, <1>4 DEF EffectsOnce, BegunIsRecorded, CurrentIsSound, SuccessIsTrue,
                          EarlyIsTrue

LEMMA GetCommandStep ==
    ASSUME OperationInv, NEW c \in Commands, GetCommand(c)
    PROVE  TypeOK' /\ JournalInv'
<1> USE DEF OperationInv, JournalInv
<1> DEFINE i == journal[c].intent
<1>1. /\ UNCHANGED <<up, storeVars, execVars, plans, workspaceVars, treeVars, begun, countVars>>
      /\ up /\ journal[c] # None /\ journal[c].state = "succeeded"
      /\ \/ current # None /\ current.command = c
            /\ told' = told /\ early' = early \cup {<<c, i>>}
         \/ /\ current # None => current.command # c
            /\ told' = told \cup {<<c, i>>} /\ early' = early
  BY DEF GetCommand
<1>2. i \in Intent /\ Done(i)
  <2>1. i \in Intent
    BY <1>1 DEF TypeOK, Receipt
  <2>2. CASE current # None /\ current.command = c
    <3>1. phase = "succeeding"
      BY <1>1, <2>2 DEF CurrentIsSound
    <3> QED BY <2>1, <2>2, <3>1 DEF CurrentIsSound
  <2>3. CASE current # None => current.command # c
    <3>1. Done(journal[c].intent)
      BY <1>1, <2>3 DEF SuccessIsTrue
    <3> QED BY <2>1, <3>1
  <2> QED BY <2>1, <2>2, <2>3
<1>3. (current # None => current.command # c) => disk[c] = journal[c]
  BY <1>1 DEF SuccessIsTrue
<1>4. journal[c].intent = i
  OBVIOUS
<1> HIDE DEF i
<1> USE <1>2, <1>4
<1>5. UNCHANGED <<up, journal, disk, forgotten, current, phase, plans, checkouts, owned>>
  BY <1>1 DEF storeVars, execVars, workspaceVars
<1>6. TypeOK'
  BY <1>1 DEF TypeOK, storeVars, execVars, workspaceVars, treeVars, countVars
<1>7. ToldIsKept'
  <2>1. CASE told' = told
    BY <1>5, <2>1 DEF ToldIsKept, Done
  <2>2. CASE (current # None => current.command # c) /\ told' = told \cup {<<c, i>>}
    BY <1>1, <1>3, <1>5, <2>2 DEF ToldIsKept, Done
  <2> QED BY <1>1, <2>1, <2>2
<1>8. EarlyIsTrue'
  <2>1. early' \in {early, early \cup {<<c, i>>}}
    BY <1>1
  <2> QED BY <1>5, <2>1 DEF EarlyIsTrue, Done
<1>9. EffectsOnce' /\ BegunIsRecorded'
  BY <1>1, <1>5 DEF EffectsOnce, BegunIsRecorded
<1>10. CurrentIsSound'
  BY <1>1, <1>5 DEF CurrentIsSound, Done
<1>11. SuccessIsTrue'
  BY <1>5 DEF SuccessIsTrue, Done
<1> QED BY <1>6, <1>7, <1>8, <1>9, <1>10, <1>11

LEMMA RecordStep == ASSUME OperationInv, Record PROVE TypeOK' /\ JournalInv'
<1> USE DEF OperationInv, JournalInv
<1> DEFINE c == Head(queue).command
           i == plans[Head(queue).plan].intent
           r == [intent |-> i, state |-> "running", at |-> clock]
<1>1. /\ Head(queue) \in Job /\ c \in Commands /\ i \in Intent
      /\ queue' \in Seq(Job)
      /\ journal[c] = None
      /\ journal' \in [Commands -> Receipt \cup {None}]
      /\ journal'[c] = r
      /\ forgotten' \in [Commands -> Nat]
      /\ forgotten'[c] = forgotten[c]
      /\ current' \in {None, Head(queue)}
      /\ \A d \in Commands \ {c} :
            \/ journal'[d] = journal[d] /\ forgotten'[d] = forgotten[d]
            \/ /\ journal'[d] = None /\ forgotten'[d] = forgotten[d] + 1
               /\ journal[d] # None
  BY RecordEffect
<1>2. /\ up /\ up' = up /\ current = None /\ phase' = "recording"
      /\ UNCHANGED <<disk, clock, base, plans, workspaceVars, treeVars, ghostVars,
                     countVars>>
  BY DEF Record, Ready
<1>3. /\ r # None /\ r.intent = i /\ r.state = "running"
      /\ current' # None => current'.command = c /\ plans'[current'.plan].intent = i
  <2>1. r \in Receipt
    BY <1>1 DEF Receipt, Unfinished, TypeOK
  <2> QED BY <1>1, <1>2, <2>1, NoReceiptAssumption
<1> HIDE DEF c, i, r
<1> USE <1>1, <1>2, <1>3 DEF workspaceVars, treeVars, ghostVars, countVars, Done
<1>4. TypeOK'
  BY DEF TypeOK, Phase
<1>5. \A d \in Commands : begun[d] \in Nat /\ forgotten[d] \in Nat /\ forgotten'[d] \in Nat
  BY DEF TypeOK
<1>6. begun[c] <= forgotten[c]
  BY <1>5 DEF BegunIsRecorded
<1>7. EffectsOnce'
  BY <1>5 DEF EffectsOnce
<1>8. BegunIsRecorded'
  BY <1>5, <1>6 DEF BegunIsRecorded, EffectsOnce
<1>9. CurrentIsSound'
  BY <1>6 DEF CurrentIsSound
<1>10. SuccessIsTrue'
  BY DEF SuccessIsTrue
<1>11. ToldIsKept'
  BY <1>5 DEF ToldIsKept
<1>12. EarlyIsTrue'
  BY DEF EarlyIsTrue, Done
<1> QED BY <1>4, <1>7, <1>8, <1>9, <1>10, <1>11, <1>12

LEMMA RecordWrittenStep == ASSUME OperationInv, RecordWritten PROVE TypeOK' /\ JournalInv'
<1> USE DEF OperationInv, JournalInv
<1> DEFINE c == current.command
<1>1. /\ up /\ current # None /\ phase = "recording" /\ disk' = journal
      /\ UNCHANGED <<up, forgotten, queue, current, base, plans, workspaceVars, treeVars,
                     told, early, countVars>>
  BY DEF RecordWritten
<1>2. /\ c \in Commands /\ plans[current.plan] \in Plan
      /\ journal[c] # None /\ journal[c].state = "running"
      /\ journal[c].intent = plans[current.plan].intent
      /\ begun[c] <= forgotten[c]
  BY <1>1, CurrentParts DEF CurrentIsSound
<1>3. \A d \in Commands : begun[d] \in Nat /\ forgotten[d] \in Nat
  BY DEF TypeOK
<1>4. \/ /\ phase' = "effect" /\ begun' = [begun EXCEPT ![c] = @ + 1]
         /\ UNCHANGED <<journal, clock>>
      \/ phase' = "failing" /\ Finish(c, "failed") /\ begun' = begun
  BY DEF RecordWritten
<1>5. \A d \in Commands, i \in Intent : <<d, i>> \in told =>
         d # c \/ forgotten[d] # 0
  BY <1>1, <1>2 DEF ToldIsKept
<1> HIDE DEF c
<1> USE <1>1, <1>2, <1>3, <1>5 DEF workspaceVars, treeVars, countVars, Done
<1>6. CASE /\ phase' = "effect" /\ begun' = [begun EXCEPT ![c] = @ + 1]
           /\ UNCHANGED <<journal, clock>>
  <2> USE <1>6
  <2>1. TypeOK'
    BY DEF TypeOK, Phase
  <2>2. EffectsOnce'
    BY DEF EffectsOnce, TypeOK
  <2>3. BegunIsRecorded'
    BY DEF BegunIsRecorded, TypeOK
  <2>4. CurrentIsSound'
    BY DEF CurrentIsSound, c
  <2>5. SuccessIsTrue'
    BY DEF SuccessIsTrue, c
  <2>6. ToldIsKept'
    BY DEF ToldIsKept, c
  <2>7. EarlyIsTrue'
    BY DEF EarlyIsTrue, Done
  <2> QED BY <2>1, <2>2, <2>3, <2>4, <2>5, <2>6, <2>7
<1>7. CASE phase' = "failing" /\ Finish(c, "failed") /\ begun' = begun
  <2>1. /\ journal' \in [Commands -> Receipt \cup {None}]
        /\ clock' \in Nat
        /\ journal'[c] # None
        /\ journal'[c].intent = journal[c].intent
        /\ journal'[c].state = "failed"
        /\ \A d \in Commands \ {c} : journal'[d] = journal[d]
    BY <1>7, FinishEffect
  <2> USE <1>7, <2>1
  <2>2. TypeOK'
    BY DEF TypeOK, Phase
  <2>3. EffectsOnce' /\ BegunIsRecorded'
    BY DEF EffectsOnce, BegunIsRecorded
  <2>4. CurrentIsSound'
    BY DEF CurrentIsSound, c
  <2>5. SuccessIsTrue'
    BY DEF SuccessIsTrue, c
  <2>6. ToldIsKept'
    BY DEF ToldIsKept, c
  <2>7. EarlyIsTrue'
    BY DEF EarlyIsTrue, Done
  <2> QED BY <2>2, <2>3, <2>4, <2>5, <2>6, <2>7
<1> QED BY <1>4, <1>6, <1>7

\* A job that is given up, or a failure that is settled, ends without a change
\* of receipts in memory.
LEMMA JobEnds ==
    ASSUME OperationInv, RecordNotWritten \/ FailureNotWritten \/ FailureWritten
    PROVE  TypeOK' /\ JournalInv'
<1> USE DEF OperationInv, JournalInv
<1> DEFINE c == current.command
<1>1. /\ up /\ current # None /\ current' = None
      /\ phase \in {"recording", "failing"} /\ phase' = phase
      /\ disk' \in {disk, journal}
      /\ failures' \in {failures, failures + 1}
      /\ UNCHANGED <<up, journal, clock, forgotten, queue, base, plans, workspaceVars,
                     treeVars,
                     ghostVars, deliveries, crashes, reconciles, arrivals>>
  BY DEF RecordNotWritten, FailureNotWritten, FailureWritten, storeVars, countVars
<1>2. c \in Commands /\ journal[c] # None /\ journal[c].state \in {"running", "failed"}
  BY <1>1, CurrentParts DEF CurrentIsSound
<1>3. \A d \in Commands : journal[d] # None /\ journal[d].state = "succeeded" =>
          d # c /\ disk[d] = journal[d] /\ Done(journal[d].intent)
  BY <1>1, <1>2 DEF SuccessIsTrue
<1> HIDE DEF c
<1> USE <1>1, <1>3 DEF workspaceVars, treeVars, ghostVars, Done
<1>4. TypeOK'
  BY DEF TypeOK
<1>5. EffectsOnce' /\ BegunIsRecorded' /\ CurrentIsSound'
  BY DEF EffectsOnce, BegunIsRecorded, CurrentIsSound
<1>6. SuccessIsTrue'
  BY DEF SuccessIsTrue
<1>7. ToldIsKept'
  BY DEF ToldIsKept
<1>8. EarlyIsTrue'
  BY DEF EarlyIsTrue, Done
<1> QED BY <1>4, <1>5, <1>6, <1>7, <1>8

LEMMA SuccessWrittenStep == ASSUME OperationInv, SuccessWritten PROVE TypeOK' /\ JournalInv'
<1> USE DEF OperationInv, JournalInv
<1> DEFINE c == current.command
           i == plans[current.plan].intent
<1>1. /\ up /\ current # None /\ current' = None
      /\ phase = "succeeding" /\ disk' = journal
      /\ told' = told \cup {<<c, i>>}
      /\ UNCHANGED <<up, journal, clock, forgotten, queue, phase, base, plans,
                     workspaceVars, treeVars, begun, early, countVars>>
  BY DEF SuccessWritten
<1>2. /\ c \in Commands /\ i \in Intent /\ journal[c] # None
      /\ journal[c].intent = i /\ journal[c].state = "succeeded"
      /\ Done(i)
  BY <1>1, CurrentParts DEF CurrentIsSound
<1> HIDE DEF c, i
<1> USE <1>1, <1>2 DEF workspaceVars, treeVars, countVars, Done
<1>3. TypeOK'
  BY DEF TypeOK
<1>4. EffectsOnce' /\ BegunIsRecorded' /\ CurrentIsSound'
  BY DEF EffectsOnce, BegunIsRecorded, CurrentIsSound
<1>5. SuccessIsTrue'
  BY DEF SuccessIsTrue, c
<1>6. ToldIsKept'
  BY DEF ToldIsKept
<1>7. EarlyIsTrue'
  BY DEF EarlyIsTrue, Done
<1> QED BY <1>3, <1>4, <1>5, <1>6, <1>7

\* The effect, or the write of its success, has failed.
LEMMA FailStep ==
    ASSUME OperationInv, SuccessNotWritten \/ EffectFails
    PROVE  TypeOK' /\ JournalInv'
<1> USE DEF OperationInv, JournalInv
<1> DEFINE c == current.command
<1>1. /\ up /\ current # None /\ phase # "recording" /\ phase # "failing"
      /\ phase' = "failing" /\ Finish(c, "failed")
      /\ failures' \in {failures, failures + 1}
      /\ UNCHANGED <<up, disk, forgotten, queue, current, base, plans, workspaceVars,
                     treeVars,
                     ghostVars, deliveries, crashes, reconciles, arrivals>>
  BY DEF SuccessNotWritten, EffectFails, countVars
<1>2. c \in Commands /\ journal[c] # None
      /\ journal[c].intent = plans[current.plan].intent
  BY <1>1, CurrentParts DEF CurrentIsSound
<1>3. /\ journal' \in [Commands -> Receipt \cup {None}]
      /\ clock' \in Nat
      /\ journal'[c] # None
      /\ journal'[c].intent = journal[c].intent
      /\ journal'[c].state = "failed"
      /\ \A d \in Commands \ {c} : journal'[d] = journal[d]
  BY <1>1, <1>2, FinishEffect
<1> HIDE DEF c
<1> USE <1>1, <1>2, <1>3 DEF workspaceVars, treeVars, ghostVars, Done
<1>4. TypeOK'
  BY DEF TypeOK, Phase
<1>5. EffectsOnce' /\ BegunIsRecorded'
  BY DEF EffectsOnce, BegunIsRecorded
<1>6. CurrentIsSound'
  BY DEF CurrentIsSound, c
<1>7. SuccessIsTrue'
  BY DEF SuccessIsTrue, c
<1>8. ToldIsKept'
  BY DEF ToldIsKept, c
<1>9. EarlyIsTrue'
  BY DEF EarlyIsTrue, Done
<1> QED BY <1>4, <1>5, <1>6, <1>7, <1>8, <1>9

-----------------------------------------------------------------------------
\* The effects.  What each does to the workspace comes first; what that means
\* for the journal depends only on whether it ends the effect.
EffectPhase == Phase \ {"recording", "succeeding", "failing"}

WorkspaceTyped ==
    /\ revision \in Nat /\ base \in Nat
    /\ checkouts \in [Checkouts -> Lifecycle]
    /\ owned \in [Checkouts -> BOOLEAN]
    /\ tree \in [Checkouts -> BOOLEAN]
    /\ uses \in [Checkouts -> SUBSET Uses]
    /\ late \subseteq Uses

\* The Checkout of the current plan stays the same while a job is executed.
LEMMA CheckoutOfEffect ==
    ASSUME TypeOK, NEW kinds, NEW from, NEW to, Effect(kinds, from, to),
           Continue \/ Succeed
    PROVE  /\ up /\ current # None /\ phase = from /\ phase' = to
           /\ Kind(current.plan) \in kinds
           /\ plans[current.plan].intent \in Intent
           /\ Checkout \in Checkouts
           /\ plans' \in [Plans -> Plan]
           /\ \A q \in Plans : plans'[q].intent = plans[q].intent
           /\ plans'[current.plan].intent = plans[current.plan].intent
           /\ Checkout' = Checkout
<1>1. /\ up /\ current # None /\ current' = current
      /\ phase = from /\ phase' = to
      /\ Kind(current.plan) \in kinds
  BY DEF Effect
<1>2. /\ current.plan \in Plans
      /\ plans[current.plan].intent \in Intent
  BY <1>1, CurrentParts
<1>3. /\ plans' \in [Plans -> Plan]
      /\ \A q \in Plans : plans'[q].intent = plans[q].intent
  <2>1. CASE Continue
    BY <2>1 DEF Continue, TypeOK
  <2>2. CASE Succeed
    BY <1>2, <2>2, StatusEffect DEF Succeed
  <2> QED BY <2>1, <2>2
<1> QED BY <1>1, <1>2, <1>3 DEF Checkout, Target, Intent

LEMMA RegisterEffect ==
    ASSUME OperationInv, RegisterCheckout
    PROVE  /\ WorkspaceTyped' /\ WorkspaceInv'
           /\ \A i \in Intent : Done(i) => Done(i)'
<1> USE DEF OperationInv, WorkspaceInv
<1> DEFINE k == Checkout
<1>1. /\ k \in Checkouts /\ Checkout' = k
      /\ phase' = "preparing"
  BY CheckoutOfEffect DEF RegisterCheckout
<1>2. /\ checkouts[k] = "none"
      /\ checkouts' = [checkouts EXCEPT ![k] = "pending"]
      /\ owned' = [owned EXCEPT ![k] = Kind(current.plan) = "isolated"]
      /\ revision' = revision + 1 /\ base' = revision + 1
      /\ UNCHANGED <<tree, uses, late>>
  BY DEF RegisterCheckout, Creatable, treeVars
<1> HIDE DEF k
<1>3. WorkspaceTyped'
  <2>1. owned' \in [Checkouts -> BOOLEAN]
    BY <1>2, Zenon DEF TypeOK
  <2> QED BY <1>1, <1>2, <2>1 DEF WorkspaceTyped, TypeOK, Lifecycle
<1>4. EffectIsSound'
  BY <1>1, <1>2 DEF EffectIsSound, TypeOK
<1>5. RecordsMatchTrees'
  BY <1>1, <1>2 DEF RecordsMatchTrees, TypeOK
<1>6. \A i \in Intent : Done(i) => Done(i)'
  <2>1. \A l \in Checkouts : l # k => checkouts'[l] = checkouts[l] /\ owned'[l] = owned[l]
    BY <1>1, <1>2 DEF TypeOK
  <2>2. checkouts'[k] = "pending"
    BY <1>1, <1>2 DEF TypeOK
  <2> QED BY <1>1, <1>2, <2>1, <2>2 DEF Done, Intent
<1> QED BY <1>3, <1>4, <1>5, <1>6

LEMMA WorktreeEffect ==
    ASSUME OperationInv, AddWorktree
    PROVE  /\ WorkspaceTyped' /\ WorkspaceInv'
           /\ \A i \in Intent : Done(i) => Done(i)'
<1> USE DEF OperationInv, WorkspaceInv
<1> DEFINE k == Checkout
<1>1. /\ k \in Checkouts /\ Checkout' = k /\ current # None
      /\ phase = "preparing" /\ phase' = "prepared"
  BY CheckoutOfEffect DEF AddWorktree
<1>2. /\ tree' = [tree EXCEPT ![k] = TRUE]
      /\ UNCHANGED <<base, revision, checkouts, owned, uses, late>>
  BY DEF AddWorktree, workspaceVars
<1>3. checkouts[k] = "pending"
  BY <1>1 DEF EffectIsSound
<1> HIDE DEF k
<1>4. WorkspaceTyped'
  BY <1>1, <1>2 DEF WorkspaceTyped, TypeOK
<1>5. EffectIsSound'
  BY <1>1, <1>2, <1>3 DEF EffectIsSound, TypeOK
<1>6. RecordsMatchTrees'
  BY <1>1, <1>2, <1>3 DEF RecordsMatchTrees, TypeOK
<1> QED BY <1>2, <1>4, <1>5, <1>6 DEF Done

LEMMA ReadyEffect ==
    ASSUME OperationInv, CheckoutReady
    PROVE  /\ WorkspaceTyped' /\ WorkspaceInv'
           /\ \A i \in Intent : Done(i) => Done(i)'
           /\ Done(plans[current.plan].intent)'
<1> USE DEF OperationInv, WorkspaceInv
<1> DEFINE k == Checkout
<1>1. /\ k \in Checkouts /\ Checkout' = k /\ current # None
      /\ phase = "prepared" /\ phase' = "succeeding"
      /\ Kind(current.plan) \in Creating
      /\ plans[current.plan].intent \in Intent
      /\ plans'[current.plan].intent = plans[current.plan].intent
      /\ current' = current
  BY CheckoutOfEffect DEF CheckoutReady, Effect
<1>2. /\ checkouts' = [checkouts EXCEPT ![k] = "ready"]
      /\ revision' = revision + 1 /\ base' = revision + 1
      /\ UNCHANGED <<owned, tree, uses, late>>
  BY DEF CheckoutReady, UpdateLifecycle, treeVars
<1>3. checkouts[k] = "pending" /\ tree[k]
  BY <1>1 DEF EffectIsSound
<1>4. /\ plans[current.plan].intent.checkout = k
      /\ plans[current.plan].intent.kind \in Creating
  BY <1>1 DEF Checkout, Target, Kind
<1> HIDE DEF k
<1>5. WorkspaceTyped'
  BY <1>1, <1>2 DEF WorkspaceTyped, TypeOK, Lifecycle
<1>6. EffectIsSound'
  BY <1>1 DEF EffectIsSound
<1>7. RecordsMatchTrees'
  BY <1>1, <1>2, <1>3 DEF RecordsMatchTrees, TypeOK
<1>8. checkouts'[k] = "ready" /\ \A l \in Checkouts : l # k => checkouts'[l] = checkouts[l]
  BY <1>1, <1>2 DEF TypeOK
<1>9. \A i \in Intent : Done(i) => Done(i)'
  BY <1>1, <1>2, <1>3, <1>8 DEF Done, Intent
<1>10. Done(plans[current.plan].intent)'
  BY <1>1, <1>4, <1>8 DEF Done, Creating
<1> QED BY <1>5, <1>6, <1>7, <1>9, <1>10

LEMMA ScanEffect ==
    ASSUME OperationInv, ScanForLoss
    PROVE  /\ WorkspaceTyped' /\ WorkspaceInv'
           /\ \A i \in Intent : Done(i) => Done(i)'
<1> USE DEF OperationInv, WorkspaceInv
<1>1. /\ Checkout' = Checkout
      /\ phase = "effect" /\ phase' = "scanned"
  BY CheckoutOfEffect DEF ScanForLoss
<1>2. /\ checkouts[Checkout] = "ready" /\ owned[Checkout]
      /\ base' = revision /\ late' = {}
      /\ UNCHANGED <<revision, checkouts, owned, tree, uses>>
  BY DEF ScanForLoss, OwnedCheckout, Eligible, Promotable, workspaceVars
<1>3. WorkspaceTyped'
  BY <1>2 DEF WorkspaceTyped, TypeOK
<1>4. EffectIsSound'
  BY <1>1, <1>2 DEF EffectIsSound
<1>5. RecordsMatchTrees'
  BY <1>2 DEF RecordsMatchTrees
<1> QED BY <1>2, <1>3, <1>4, <1>5 DEF Done

LEMMA PlanCleanupEffect ==
    ASSUME OperationInv, PlanCleanup
    PROVE  /\ WorkspaceTyped' /\ WorkspaceInv'
           /\ \A i \in Intent : Done(i) => Done(i)'
<1> USE DEF OperationInv, WorkspaceInv
<1> DEFINE k == Checkout
<1>1. /\ k \in Checkouts /\ Checkout' = k /\ current # None
      /\ phase = "scanned" /\ phase' = "removing"
  BY CheckoutOfEffect DEF PlanCleanup
<1>2. /\ checkouts' = [checkouts EXCEPT ![k] = "cleanup-planned"]
      /\ revision' = revision + 1 /\ base' = revision + 1
      /\ UNCHANGED <<owned, tree, uses, late>>
  BY DEF PlanCleanup, UpdateLifecycle, treeVars
<1>3. checkouts[k] = "ready" /\ owned[k]
  BY <1>1 DEF EffectIsSound
<1> HIDE DEF k
<1>4. WorkspaceTyped'
  BY <1>1, <1>2 DEF WorkspaceTyped, TypeOK, Lifecycle
<1>5. EffectIsSound'
  BY <1>1, <1>2 DEF EffectIsSound, TypeOK
<1>6. RecordsMatchTrees'
  BY <1>1, <1>2 DEF RecordsMatchTrees, TypeOK
<1>7. /\ checkouts'[k] = "cleanup-planned"
      /\ \A l \in Checkouts : l # k => checkouts'[l] = checkouts[l]
  BY <1>1, <1>2 DEF TypeOK
<1>8. \A i \in Intent : Done(i) => Done(i)'
  BY <1>1, <1>2, <1>3, <1>7 DEF Done, Intent
<1> QED BY <1>4, <1>5, <1>6, <1>8

LEMMA RemoveEffect ==
    ASSUME OperationInv, RemoveWorktree
    PROVE  /\ WorkspaceTyped' /\ WorkspaceInv'
           /\ \A i \in Intent : Done(i) => Done(i)'
<1> USE DEF OperationInv, WorkspaceInv
<1> DEFINE k == Checkout
<1>1. /\ k \in Checkouts /\ Checkout' = k /\ current # None
      /\ phase = "removing" /\ phase' = "removed"
  BY CheckoutOfEffect DEF RemoveWorktree
<1>2. /\ tree' = [tree EXCEPT ![k] = FALSE]
      /\ uses' = [uses EXCEPT ![k] = {}]
      /\ UNCHANGED <<base, revision, checkouts, owned, late>>
  BY DEF RemoveWorktree, workspaceVars
<1>3. checkouts[k] = "cleanup-planned"
  BY <1>1 DEF EffectIsSound
<1> HIDE DEF k
<1>4. WorkspaceTyped'
  BY <1>1, <1>2 DEF WorkspaceTyped, TypeOK
<1>5. EffectIsSound'
  BY <1>1, <1>2, <1>3 DEF EffectIsSound, TypeOK
<1>6. RecordsMatchTrees'
  BY <1>1, <1>2, <1>3 DEF RecordsMatchTrees, TypeOK
<1> QED BY <1>2, <1>4, <1>5, <1>6 DEF Done

LEMMA RemovalEffect ==
    ASSUME OperationInv, RecordRemoval
    PROVE  /\ WorkspaceTyped' /\ WorkspaceInv'
           /\ \A i \in Intent : Done(i) => Done(i)'
           /\ Done(plans[current.plan].intent)'
<1> USE DEF OperationInv, WorkspaceInv
<1> DEFINE k == Checkout
<1>1. /\ k \in Checkouts /\ Checkout' = k /\ current # None
      /\ phase = "removed" /\ phase' = "succeeding"
      /\ Kind(current.plan) = "cleanup"
      /\ plans[current.plan].intent \in Intent
      /\ plans'[current.plan].intent = plans[current.plan].intent
      /\ current' = current
  BY CheckoutOfEffect DEF RecordRemoval, Effect
<1>2. /\ checkouts' = [checkouts EXCEPT ![k] = "removed"]
      /\ revision' = revision + 1 /\ base' = revision + 1
      /\ UNCHANGED <<owned, tree, uses, late>>
  BY DEF RecordRemoval, UpdateLifecycle, treeVars
<1>3. checkouts[k] = "cleanup-planned" /\ ~tree[k]
  BY <1>1 DEF EffectIsSound
<1>4. plans[current.plan].intent.checkout = k /\ plans[current.plan].intent.kind = "cleanup"
  BY <1>1 DEF Checkout, Target, Kind
<1> HIDE DEF k
<1>5. WorkspaceTyped'
  BY <1>1, <1>2 DEF WorkspaceTyped, TypeOK, Lifecycle
<1>6. EffectIsSound'
  BY <1>1 DEF EffectIsSound
<1>7. RecordsMatchTrees'
  BY <1>1, <1>2, <1>3 DEF RecordsMatchTrees, TypeOK
<1>8. /\ checkouts'[k] = "removed"
      /\ \A l \in Checkouts : l # k => checkouts'[l] = checkouts[l]
  BY <1>1, <1>2 DEF TypeOK
<1>9. \A i \in Intent : Done(i) => Done(i)'
  BY <1>1, <1>2, <1>3, <1>8 DEF Done, Intent
<1>10. Done(plans[current.plan].intent)'
  BY <1>1, <1>4, <1>8 DEF Done, Creating
<1> QED BY <1>5, <1>6, <1>7, <1>9, <1>10

LEMMA PromoteEffect ==
    ASSUME OperationInv, PromoteCheckout
    PROVE  /\ WorkspaceTyped' /\ WorkspaceInv'
           /\ \A i \in Intent : Done(i) => Done(i)'
           /\ Done(plans[current.plan].intent)'
<1> USE DEF OperationInv, WorkspaceInv
<1> DEFINE k == Checkout
<1>1. /\ k \in Checkouts /\ Checkout' = k /\ current # None
      /\ phase = "scanned" /\ phase' = "succeeding"
      /\ Kind(current.plan) = "promote"
      /\ plans[current.plan].intent \in Intent
      /\ plans'[current.plan].intent = plans[current.plan].intent
      /\ current' = current
  BY CheckoutOfEffect DEF PromoteCheckout, Effect
<1>2. /\ owned' = [owned EXCEPT ![k] = FALSE]
      /\ revision' = revision + 1 /\ base' = revision + 1
      /\ UNCHANGED <<checkouts, tree, uses, late>>
  BY DEF PromoteCheckout, treeVars
<1>3. checkouts[k] = "ready"
  BY <1>1 DEF EffectIsSound
<1>4. plans[current.plan].intent.checkout = k /\ plans[current.plan].intent.kind = "promote"
  BY <1>1 DEF Checkout, Target, Kind
<1> HIDE DEF k
<1>5. WorkspaceTyped'
  BY <1>1, <1>2 DEF WorkspaceTyped, TypeOK
<1>6. EffectIsSound'
  BY <1>1 DEF EffectIsSound
<1>7. RecordsMatchTrees'
  BY <1>2 DEF RecordsMatchTrees
<1>8. ~owned'[k] /\ \A l \in Checkouts : l # k => owned'[l] = owned[l]
  BY <1>1, <1>2 DEF TypeOK
<1>9. \A i \in Intent : Done(i) => Done(i)'
  BY <1>1, <1>2, <1>8 DEF Done, Intent
<1>10. Done(plans[current.plan].intent)'
  BY <1>1, <1>2, <1>3, <1>4, <1>8 DEF Done, Creating
<1> QED BY <1>5, <1>6, <1>7, <1>9, <1>10

LEMMA AlignEffect ==
    ASSUME OperationInv, AlignBranch
    PROVE  /\ WorkspaceTyped' /\ WorkspaceInv'
           /\ \A i \in Intent : Done(i) => Done(i)'
           /\ Done(plans[current.plan].intent)'
<1> USE DEF OperationInv, WorkspaceInv
<1>1. /\ phase' = "succeeding" /\ Kind(current.plan) = "align"
      /\ plans'[current.plan].intent = plans[current.plan].intent
      /\ current' = current
  BY CheckoutOfEffect DEF AlignBranch, Effect
<1>2. UNCHANGED <<base, revision, checkouts, owned, tree, uses, late>>
  BY DEF AlignBranch, workspaceVars, treeVars
<1>3. WorkspaceTyped'
  BY <1>2 DEF WorkspaceTyped, TypeOK
<1>4. EffectIsSound'
  BY <1>1 DEF EffectIsSound
<1>5. RecordsMatchTrees'
  BY <1>2 DEF RecordsMatchTrees
<1>6. Done(plans[current.plan].intent)'
  BY <1>1 DEF Done, Kind, Creating
<1> QED BY <1>2, <1>3, <1>4, <1>5, <1>6 DEF Done

\* A step that does not end the effect leaves the journal as it is.
LEMMA ContinueStep ==
    ASSUME OperationInv, NEW kinds, NEW from \in EffectPhase, NEW to \in EffectPhase,
           Effect(kinds, from, to), Continue,
           WorkspaceTyped', arrivals' = arrivals,
           \A i \in Intent : Done(i) => Done(i)'
    PROVE  TypeOK' /\ JournalInv'
<1> USE DEF OperationInv, JournalInv
<1>1. /\ up /\ current # None /\ phase = from /\ phase' = to
      /\ UNCHANGED <<up, journal, clock, plans, disk, forgotten, queue, current, begun,
                     told, early, deliveries, crashes, failures, reconciles, arrivals>>
  BY DEF Effect, Continue, ghostVars, countVars
<1>2. \A d \in Commands : /\ disk[d] # None => disk[d].intent \in Intent
                          /\ journal[d] # None => journal[d].intent \in Intent
  BY DEF TypeOK, Receipt
<1>3. TypeOK'
  BY <1>1 DEF TypeOK, WorkspaceTyped, EffectPhase
<1>4. EffectsOnce' /\ BegunIsRecorded'
  BY <1>1 DEF EffectsOnce, BegunIsRecorded
<1>5. CurrentIsSound'
  BY <1>1 DEF CurrentIsSound, EffectPhase
<1>6. SuccessIsTrue'
  BY <1>1, <1>2 DEF SuccessIsTrue, Done
<1>7. ToldIsKept'
  BY <1>1 DEF ToldIsKept, Done
<1>8. EarlyIsTrue'
  BY <1>1 DEF EarlyIsTrue, Done
<1> QED BY <1>3, <1>4, <1>5, <1>6, <1>7, <1>8

\* A step that ends it finishes the receipt of a success that is true.
LEMMA SucceedStep ==
    ASSUME OperationInv, NEW kinds, NEW from \in EffectPhase,
           Effect(kinds, from, "succeeding"), Succeed, WorkspaceTyped',
           \A i \in Intent : Done(i) => Done(i)',
           Done(plans[current.plan].intent)'
    PROVE  TypeOK' /\ JournalInv'
<1> USE DEF OperationInv, JournalInv
<1> DEFINE c == current.command
<1>1. /\ up /\ current # None /\ phase = from /\ phase' = "succeeding"
      /\ Finish(c, "succeeded")
      /\ UNCHANGED <<up, disk, forgotten, queue, current, begun,
                     told, early, deliveries, crashes, failures, reconciles, arrivals>>
  BY DEF Effect, Succeed, ghostVars, countVars
<1>2. /\ c \in Commands /\ current.plan \in Plans
      /\ journal[c] # None /\ journal[c].intent = plans[current.plan].intent
  BY <1>1, CurrentParts DEF CurrentIsSound
<1>3. /\ journal' \in [Commands -> Receipt \cup {None}]
      /\ clock' \in Nat
      /\ journal'[c] # None
      /\ journal'[c].intent = journal[c].intent
      /\ journal'[c].state = "succeeded"
      /\ \A d \in Commands \ {c} : journal'[d] = journal[d]
  BY <1>1, <1>2, FinishEffect
<1>4. /\ plans' \in [Plans -> Plan]
      /\ plans'[current.plan].intent = plans[current.plan].intent
  BY CheckoutOfEffect
<1>5. \A d \in Commands : /\ disk[d] # None => disk[d].intent \in Intent
                          /\ journal[d] # None => journal[d].intent \in Intent
  BY DEF TypeOK, Receipt
<1> HIDE DEF c
<1>6. TypeOK'
  BY <1>1, <1>3, <1>4 DEF TypeOK, WorkspaceTyped, Phase
<1>7. EffectsOnce' /\ BegunIsRecorded'
  BY <1>1, <1>2, <1>3 DEF EffectsOnce, BegunIsRecorded
<1>8. CurrentIsSound'
  BY <1>1, <1>2, <1>3, <1>4 DEF CurrentIsSound, c
<1>9. SuccessIsTrue'
  BY <1>1, <1>2, <1>3, <1>5 DEF SuccessIsTrue, Done, c
<1>10. ToldIsKept'
  BY <1>1, <1>2, <1>3 DEF ToldIsKept, Done, c
<1>11. EarlyIsTrue'
  BY <1>1 DEF EarlyIsTrue, Done
<1> QED BY <1>6, <1>7, <1>8, <1>9, <1>10, <1>11

LEMMA CrashStep == ASSUME OperationInv, Crash PROVE TypeOK' /\ JournalInv'
<1> USE DEF OperationInv, JournalInv
<1>1. /\ up /\ ~up' /\ crashes' = crashes + 1
      /\ disk' \in {disk, IF Writing THEN journal ELSE disk}
      /\ journal' = NoReceipts
      /\ queue' = <<>> /\ current' = None /\ phase' = "recording"
      /\ UNCHANGED <<clock, forgotten, base, workspaceVars, treeVars, ghostVars,
                     deliveries, failures, reconciles, arrivals>>
  BY DEF Crash, TypeOK
<1>2. plans' \in [Plans -> Plan]
  <2> SUFFICES ASSUME NEW p \in Plans
               PROVE  (IF plans[p].status = "active"
                         THEN [plans[p] EXCEPT !.status = "gone"] ELSE plans[p]) \in Plan
    BY DEF Crash
  <2>1. plans[p] \in Plan
    BY DEF TypeOK
  <2> QED BY <2>1 DEF Plan
<1>3. \A c \in Commands : journal'[c] = None
  BY <1>1 DEF NoReceipts
<1>4. disk' \in {disk, journal} /\ up' \in BOOLEAN
  BY <1>1 DEF Crash
<1>5. \A d \in Commands : journal[d] # None /\ journal[d].state = "succeeded" =>
          Done(journal[d].intent)
  BY CurrentParts DEF SuccessIsTrue, CurrentIsSound
<1> USE <1>1, <1>2, <1>3, <1>4 DEF workspaceVars, treeVars, ghostVars, Done
<1>6. TypeOK'
  BY DEF TypeOK, Phase, NoReceipts
<1>7. EffectsOnce' /\ BegunIsRecorded' /\ CurrentIsSound'
  BY DEF EffectsOnce, BegunIsRecorded, CurrentIsSound
<1>8. SuccessIsTrue'
  BY <1>5 DEF SuccessIsTrue
<1>9. ToldIsKept'
  BY DEF ToldIsKept
<1>10. EarlyIsTrue'
  BY DEF EarlyIsTrue, Done
<1> QED BY <1>6, <1>7, <1>8, <1>9, <1>10

LEMMA RestartStep == ASSUME OperationInv, Restart PROVE TypeOK' /\ JournalInv'
<1> USE DEF OperationInv, JournalInv
<1>1. /\ ~up /\ up' /\ up' \in BOOLEAN /\ disk' = journal'
      /\ journal' = [c \in Commands |-> Interrupted(disk[c])]
      /\ UNCHANGED <<clock, forgotten, execVars, plans, workspaceVars, treeVars,
                     ghostVars, countVars>>
  BY DEF Restart
<1>2. current = None
  BY <1>1 DEF CurrentIsSound
<1>3. \A c \in Commands :
          /\ Interrupted(disk[c]) \in Receipt \cup {None}
          /\ disk[c] # None => Interrupted(disk[c]) # None
          /\ Interrupted(disk[c]) # None => disk[c] # None
          /\ Interrupted(disk[c]) # None /\ Interrupted(disk[c]).state = "succeeded" =>
                Interrupted(disk[c]) = disk[c]
          /\ disk[c] # None /\ disk[c].state = "succeeded" => Interrupted(disk[c]) = disk[c]
  <2> SUFFICES ASSUME NEW c \in Commands, disk[c] # None
               PROVE  /\ Interrupted(disk[c]) \in Receipt
                      /\ Interrupted(disk[c]).state = "succeeded" =>
                            Interrupted(disk[c]) = disk[c]
                      /\ disk[c].state = "succeeded" => Interrupted(disk[c]) = disk[c]
    BY NoReceiptAssumption DEF Interrupted
  <2>1. disk[c] \in Receipt
    BY DEF TypeOK
  <2> QED BY <2>1 DEF Interrupted, Receipt, Unfinished
<1>4. \A c \in Commands : journal'[c] = Interrupted(disk[c])
  BY <1>1
<1> USE <1>1, <1>2, <1>4 DEF execVars, workspaceVars, treeVars, ghostVars, countVars, Done
<1>5. TypeOK'
  BY <1>3 DEF TypeOK
<1>6. EffectsOnce' /\ BegunIsRecorded' /\ CurrentIsSound'
  BY <1>3 DEF EffectsOnce, BegunIsRecorded, CurrentIsSound
<1>7. SuccessIsTrue'
  BY <1>3 DEF SuccessIsTrue
<1>8. ToldIsKept'
  BY <1>3 DEF ToldIsKept
<1>9. EarlyIsTrue'
  BY DEF EarlyIsTrue, Done
<1> QED BY <1>5, <1>6, <1>7, <1>8, <1>9

\* What changes nothing that the journal's part speaks of.
LEMMA OtherStep ==
    ASSUME OperationInv,
           Reconcile \/ UNCHANGED vars
           \/ \E k \in Checkouts : Settle(k) \/ \E use \in Uses : Use(k, use)
    PROVE  TypeOK' /\ JournalInv'
<1> USE DEF OperationInv, JournalInv
<1>1. UNCHANGED <<up, storeVars, execVars, plans, checkouts, owned, tree, ghostVars,
                  deliveries, crashes, failures>>
  BY DEF Reconcile, Settle, Use, vars, workspaceVars, treeVars, countVars
<1>2. /\ revision' \in {revision, revision + 1}
      /\ reconciles' \in {reconciles, reconciles + 1}
      /\ arrivals' \in {arrivals, arrivals + 1}
  BY DEF Reconcile, Settle, Use, vars, workspaceVars, treeVars, countVars
<1>3. uses' \in [Checkouts -> SUBSET Uses] /\ late' \subseteq Uses
  <2>1. uses \in [Checkouts -> SUBSET Uses] /\ late \subseteq Uses
    BY DEF TypeOK
  <2>2. CASE Reconcile \/ UNCHANGED vars
    BY <2>1, <2>2 DEF Reconcile, vars, treeVars
  <2>3. CASE \E k \in Checkouts : Settle(k)
    BY <2>1, <2>3 DEF Settle
  <2>4. CASE \E k \in Checkouts, use \in Uses : Use(k, use)
    <3>1. PICK k \in Checkouts, use \in Uses : Use(k, use)
      BY <2>4
    <3> QED BY <2>1, <3>1 DEF Use
  <2> QED BY <2>2, <2>3, <2>4
<1> USE <1>1 DEF storeVars, execVars, ghostVars, Done
<1>4. TypeOK'
  BY <1>2, <1>3 DEF TypeOK
<1>5. EffectsOnce' /\ BegunIsRecorded'
  BY DEF EffectsOnce, BegunIsRecorded
<1>6. CurrentIsSound' /\ SuccessIsTrue'
  BY DEF CurrentIsSound, SuccessIsTrue
<1>7. ToldIsKept' /\ EarlyIsTrue'
  BY DEF ToldIsKept, EarlyIsTrue
<1> QED BY <1>4, <1>5, <1>6, <1>7

\* A step outside the effects: the records and the trees stay, and the job that
\* is executed stays in its phase, ends, or is in one of which nothing is said.
LEMMA WorkspaceKept ==
    ASSUME OperationInv, UNCHANGED <<checkouts, owned, tree>>,
           \/ current' = None
           \/ phase' \in {"recording", "effect", "succeeding", "failing"}
           \/ /\ UNCHANGED <<current, phase>>
              /\ \A p \in Plans : plans'[p].intent = plans[p].intent
    PROVE  WorkspaceInv'
<1> USE DEF OperationInv, WorkspaceInv
<1>1. RecordsMatchTrees'
  BY DEF RecordsMatchTrees
<1>2. EffectIsSound'
  <2>1. CASE current' = None \/ phase' \in {"recording", "effect", "succeeding", "failing"}
    BY <2>1 DEF EffectIsSound
  <2>2. CASE /\ UNCHANGED <<current, phase>> /\ current # None
             /\ \A p \in Plans : plans'[p].intent = plans[p].intent
    BY <2>2, CurrentParts DEF EffectIsSound, Checkout, Target
  <2> QED BY <2>1, <2>2
<1> QED BY <1>1, <1>2

-----------------------------------------------------------------------------
LEMMA OperationNext == OperationInv /\ [Next]_vars => OperationInv'
<1> SUFFICES ASSUME OperationInv, [Next]_vars PROVE OperationInv'
  OBVIOUS
<1> USE DEF OperationInv
<1> USE DEF workspaceVars, treeVars, Done
<1>1. CASE \E p \in Plans : MakePlan(p)
  <2>1. PICK p \in Plans : MakePlan(p)
    BY <1>1
  <2>2. /\ TypeOK' /\ JournalInv'
        /\ \A q \in Plans : plans'[q].intent = plans[q].intent
        /\ UNCHANGED <<execVars, workspaceVars, treeVars>>
    BY <2>1, PlanStep
  <2> QED BY <2>2, WorkspaceKept DEF execVars
<1>2. CASE \E c \in Commands, p \in Plans, caller \in Callers : Deliver(c, p, caller)
  <2>1. PICK c \in Commands, p \in Plans, caller \in Callers : Deliver(c, p, caller)
    BY <1>2
  <2> QED BY <2>1, DeliverStep, WorkspaceKept DEF Deliver, Enqueue
<1>3. CASE Repeat
  BY <1>3, RepeatStep, WorkspaceKept DEF Repeat
<1>4. CASE Record
  BY <1>4, RecordStep, WorkspaceKept DEF Record
<1>5. CASE RecordWritten
  BY <1>5, RecordWrittenStep, WorkspaceKept DEF RecordWritten
<1>6. CASE SuccessWritten
  BY <1>6, SuccessWrittenStep, WorkspaceKept DEF SuccessWritten
<1>7. CASE RecordNotWritten \/ FailureNotWritten \/ FailureWritten
  BY <1>7, JobEnds, WorkspaceKept DEF RecordNotWritten, FailureNotWritten, FailureWritten
<1>8. CASE SuccessNotWritten \/ EffectFails
  BY <1>8, FailStep, WorkspaceKept DEF SuccessNotWritten, EffectFails
<1>9. CASE RegisterCheckout
  <2>1. Effect(Creating, "effect", "preparing") /\ Continue
    BY <1>9 DEF RegisterCheckout
  <2>2. arrivals' = arrivals
    BY <2>1 DEF Effect, countVars
  <2>3. "effect" \in EffectPhase /\ "preparing" \in EffectPhase
    BY DEF EffectPhase, Phase
  <2> QED BY <1>9, <2>1, <2>2, <2>3, RegisterEffect, ContinueStep
<1>10. CASE AddWorktree
  <2>1. Effect(Creating, "preparing", "prepared") /\ Continue
    BY <1>10 DEF AddWorktree
  <2>2. arrivals' = arrivals
    BY <2>1 DEF Effect, countVars
  <2>3. "preparing" \in EffectPhase /\ "prepared" \in EffectPhase
    BY DEF EffectPhase, Phase
  <2> QED BY <1>10, <2>1, <2>2, <2>3, WorktreeEffect, ContinueStep
<1>11. CASE ScanForLoss
  <2>1. Effect({"cleanup", "promote"}, "effect", "scanned") /\ Continue
    BY <1>11 DEF ScanForLoss
  <2>2. arrivals' = arrivals
    BY <2>1 DEF Effect, countVars
  <2>3. "effect" \in EffectPhase /\ "scanned" \in EffectPhase
    BY DEF EffectPhase, Phase
  <2> QED BY <1>11, <2>1, <2>2, <2>3, ScanEffect, ContinueStep
<1>12. CASE PlanCleanup
  <2>1. Effect({"cleanup"}, "scanned", "removing") /\ Continue
    BY <1>12 DEF PlanCleanup
  <2>2. arrivals' = arrivals
    BY <2>1 DEF Effect, countVars
  <2>3. "scanned" \in EffectPhase /\ "removing" \in EffectPhase
    BY DEF EffectPhase, Phase
  <2> QED BY <1>12, <2>1, <2>2, <2>3, PlanCleanupEffect, ContinueStep
<1>13. CASE RemoveWorktree
  <2>1. Effect({"cleanup"}, "removing", "removed") /\ Continue
    BY <1>13 DEF RemoveWorktree
  <2>2. arrivals' = arrivals
    BY <2>1 DEF Effect, countVars
  <2>3. "removing" \in EffectPhase /\ "removed" \in EffectPhase
    BY DEF EffectPhase, Phase
  <2> QED BY <1>13, <2>1, <2>2, <2>3, RemoveEffect, ContinueStep
<1>14. CASE CheckoutReady
  BY <1>14, ReadyEffect, SucceedStep DEF CheckoutReady, EffectPhase, Phase
<1>15. CASE RecordRemoval
  BY <1>15, RemovalEffect, SucceedStep DEF RecordRemoval, EffectPhase, Phase
<1>16. CASE PromoteCheckout
  BY <1>16, PromoteEffect, SucceedStep DEF PromoteCheckout, EffectPhase, Phase
<1>17. CASE AlignBranch
  BY <1>17, AlignEffect, SucceedStep DEF AlignBranch, EffectPhase, Phase
<1>18. CASE Crash
  BY <1>18, CrashStep, WorkspaceKept DEF Crash
<1>19. CASE Restart
  BY <1>19, RestartStep, WorkspaceKept DEF Restart, execVars
<1>20. CASE \/ Reconcile \/ UNCHANGED vars
            \/ \E k \in Checkouts : Settle(k) \/ \E use \in Uses : Use(k, use)
  <2>1. UNCHANGED <<checkouts, owned, tree, current, phase, plans>>
    BY <1>20 DEF Reconcile, Settle, Use, vars, execVars
  <2> QED BY <1>20, <2>1, OtherStep, WorkspaceKept
<1>21. CASE \E c \in Commands : GetCommand(c)
  <2>1. PICK c \in Commands : GetCommand(c)
    BY <1>21
  <2> QED BY <2>1, GetCommandStep, WorkspaceKept DEF GetCommand, execVars
<1> QED BY <1>1, <1>2, <1>3, <1>4, <1>5, <1>6, <1>7, <1>8, <1>9, <1>10, <1>11,
           <1>12, <1>13, <1>14, <1>15, <1>16, <1>17, <1>18, <1>19, <1>20, <1>21
        DEF Next, Execute

THEOREM OperationInvariance == Spec => []OperationInv
BY OperationInit, OperationNext, PTL DEF Spec

-----------------------------------------------------------------------------
\* The journal, the service and the workspace stay within their types.
THEOREM OperationTyping == Spec => []TypeOK
<1>1. OperationInv => TypeOK
  BY DEF OperationInv, JournalInv
<1> QED BY <1>1, OperationInvariance, PTL

\* DeviceOperationStore.executeNow: no effect is begun a second time, whatever
\* was delivered twice, failed or crashed, unless trim dropped the receipt.
THEOREM NoEffectIsRepeated == Spec => []EffectsOnce
<1>1. OperationInv => EffectsOnce
  BY DEF OperationInv, JournalInv
<1> QED BY <1>1, OperationInvariance, PTL

\* DeviceOperationStore.executeNow: the receipt is on disk before the effect.
THEOREM EffectsHaveReceipts == Spec => []EffectsAreRecorded
<1>1. OperationInv => EffectsAreRecorded
  BY DEF OperationInv, JournalInv, BegunIsRecorded, EffectsAreRecorded
<1> QED BY <1>1, OperationInvariance, PTL

\* What execute or getCommand reported as succeeded stays true, and its receipt is
\* on disk until it is trimmed, unless getCommand reported it while it was written.
THEOREM ReportedSuccessIsDurable == Spec => []SuccessIsDurable
<1>1. OperationInv => SuccessIsDurable
  BY DEF OperationInv, JournalInv, ToldIsKept, EarlyIsTrue, SuccessIsDurable
<1> QED BY <1>1, OperationInvariance, PTL

\* prepareWorkspaceLocation, cleanupIsolatedCheckout: whatever fails or crashes
\* between Git and the records, a ready Checkout has its Worktree and a removed
\* one has none.
THEOREM TreesFollowTheRecords == Spec => []RecordsMatchTrees
<1>1. OperationInv => RecordsMatchTrees
  BY DEF OperationInv, WorkspaceInv
<1> QED BY <1>1, OperationInvariance, PTL
-----------------------------------------------------------------------------
\* From the scan to the removal, what is in the Checkout came since the scan.
ScanIsSound ==
    /\ current # None /\ phase \in {"scanned", "removing"}
    /\ Kind(current.plan) = "cleanup"
    => uses[Checkout] \subseteq late

LEMMA ScanNext == OperationInv /\ ScanIsSound /\ [Next]_vars => ScanIsSound'
<1> SUFFICES ASSUME OperationInv, ScanIsSound, [Next]_vars PROVE ScanIsSound'
  OBVIOUS
<1> USE DEF OperationInv
<1>1. CASE current' = None \/ phase' \notin {"scanned", "removing"}
  BY <1>1 DEF ScanIsSound
<1>2. CASE ScanForLoss
  <2>1. /\ Checkout' = Checkout /\ current' = current /\ plans' = plans
        /\ current.plan \in Plans
        /\ Kind(current.plan) = "cleanup" => uses[Checkout] = {}
        /\ uses' = uses
    BY <1>2, CheckoutOfEffect, CurrentParts
    DEF ScanForLoss, Effect, Continue, Eligible
  <2> QED BY <2>1 DEF ScanIsSound, Kind
<1>3. CASE PlanCleanup
  <2>1. /\ Checkout' = Checkout /\ current' = current /\ plans' = plans
        /\ current # None /\ phase = "scanned"
        /\ uses' = uses /\ late' = late
    BY <1>3, CheckoutOfEffect DEF PlanCleanup, Effect, Continue, treeVars
  <2> QED BY <2>1 DEF ScanIsSound, Kind
<1>4. CASE \E k \in Checkouts : Settle(k) \/ \E use \in Uses : Use(k, use)
  <2> SUFFICES ASSUME current # None, phase \in {"scanned", "removing"},
                      Kind(current.plan) = "cleanup"
               PROVE  ScanIsSound'
    BY <1>4 DEF ScanIsSound, Settle, Use, execVars, Kind
  <2>1. UNCHANGED <<current, phase, plans>> /\ Checkout' = Checkout
    BY <1>4 DEF Settle, Use, execVars, Checkout, Target
  <2>2. Checkout \in Checkouts /\ uses[Checkout] \subseteq late
    BY CurrentParts DEF ScanIsSound, Checkout, Target, Intent
  <2>3. uses'[Checkout] \subseteq late'
    <3>1. CASE \E k \in Checkouts : Settle(k)
      BY <2>2, <3>1 DEF Settle, TypeOK
    <3>2. CASE \E k \in Checkouts, use \in Uses : Use(k, use)
      <4>1. PICK k \in Checkouts, use \in Uses : Use(k, use)
        BY <3>2
      <4>2. CASE Checkout = k
        BY <2>2, <4>1, <4>2 DEF Use, TypeOK
      <4>3. CASE Checkout # k
        BY <2>2, <4>1, <4>3 DEF Use, TypeOK
      <4> QED BY <4>2, <4>3
    <3> QED BY <1>4, <3>1, <3>2
  <2> QED BY <2>1, <2>3 DEF ScanIsSound
<1>5. CASE /\ UNCHANGED <<current, phase, uses, late>> /\ current # None
           /\ \A q \in Plans : plans'[q].intent = plans[q].intent
  BY <1>5, CurrentParts DEF ScanIsSound, Checkout, Target, Kind
<1>6. CASE \E p \in Plans : MakePlan(p)
  <2>1. PICK p \in Plans : MakePlan(p)
    BY <1>6
  <2>2. /\ \A q \in Plans : plans'[q].intent = plans[q].intent
        /\ UNCHANGED <<execVars, workspaceVars, treeVars>>
    BY <2>1, PlanStep
  <2> QED BY <1>1, <1>5, <2>2 DEF execVars, treeVars
<1>7. CASE \E c \in Commands, p \in Plans, caller \in Callers : Deliver(c, p, caller)
  BY <1>1, <1>5, <1>7 DEF Deliver, Enqueue, treeVars
<1>8. CASE Reconcile \/ UNCHANGED vars \/ \E c \in Commands : GetCommand(c)
  BY <1>1, <1>5, <1>8 DEF Reconcile, GetCommand, vars, execVars, treeVars
<1>9. CASE Repeat \/ Record \/ Crash
  BY <1>1, <1>9 DEF Repeat, Record, Ready, Crash
<1>10. CASE Restart
  BY <1>1, <1>10 DEF Restart, execVars, JournalInv, CurrentIsSound
<1>11. CASE \/ RecordWritten \/ SuccessWritten \/ FailureWritten
            \/ RecordNotWritten \/ SuccessNotWritten \/ FailureNotWritten \/ EffectFails
  BY <1>1, <1>11 DEF RecordWritten, SuccessWritten, FailureWritten, RecordNotWritten,
                     SuccessNotWritten, FailureNotWritten, EffectFails
<1>12. CASE \/ RegisterCheckout \/ AddWorktree \/ CheckoutReady \/ RemoveWorktree
            \/ RecordRemoval \/ PromoteCheckout \/ AlignBranch
  BY <1>1, <1>12 DEF RegisterCheckout, AddWorktree, CheckoutReady, RemoveWorktree,
                     RecordRemoval, PromoteCheckout, AlignBranch, Effect
<1> QED BY <1>2, <1>3, <1>4, <1>6, <1>7, <1>8, <1>9, <1>10, <1>11, <1>12
        DEF Next, Execute

\* Only the removal of a cleanup takes a Worktree away.
LEMMA TreesStay ==
    ASSUME OperationInv, [Next]_vars, ~RemoveWorktree
    PROVE  \A k \in Checkouts : tree[k] => tree'[k]
<1> USE DEF OperationInv
<1>1. CASE AddWorktree
  BY <1>1 DEF AddWorktree, TypeOK
<1>2. CASE \/ RegisterCheckout \/ CheckoutReady \/ ScanForLoss \/ PlanCleanup
           \/ RecordRemoval \/ PromoteCheckout \/ AlignBranch \/ EffectFails
  BY <1>2 DEF RegisterCheckout, CheckoutReady, ScanForLoss, PlanCleanup, RecordRemoval,
              PromoteCheckout, AlignBranch, EffectFails, treeVars
<1>3. CASE \/ Repeat \/ Record \/ RecordWritten \/ SuccessWritten \/ FailureWritten
           \/ RecordNotWritten \/ SuccessNotWritten \/ FailureNotWritten
  BY <1>3 DEF Repeat, Record, RecordWritten, SuccessWritten, FailureWritten,
              RecordNotWritten, SuccessNotWritten, FailureNotWritten, treeVars
<1>4. CASE \E p \in Plans : MakePlan(p)
  BY <1>4, PlanStep DEF treeVars
<1>5. CASE \/ \E c \in Commands, p \in Plans, caller \in Callers : Deliver(c, p, caller)
           \/ \E c \in Commands : GetCommand(c)
           \/ Reconcile \/ Crash \/ Restart \/ UNCHANGED vars
           \/ \E k \in Checkouts : Settle(k) \/ \E use \in Uses : Use(k, use)
  BY <1>5 DEF Deliver, GetCommand, Reconcile, Crash, Restart, Settle, Use, vars, treeVars
<1> QED BY <1>1, <1>2, <1>3, <1>4, <1>5 DEF Next, Execute

\* cleanupIsolatedCheckout: a cleanup takes with it nothing that its own loss
\* scan could have seen.
THEOREM CleanupsLoseNothing == Spec => CleanupLosesNothingScanned
<1>1. Init => ScanIsSound
  BY DEF Init, ScanIsSound
<1>2. OperationInv /\ ScanIsSound /\ [Next]_vars =>
        [\A k \in Checkouts : tree[k] /\ ~tree'[k] => uses[k] \subseteq late]_vars
  <2> SUFFICES ASSUME OperationInv, ScanIsSound, [Next]_vars,
                      NEW k \in Checkouts, tree[k], ~tree'[k]
               PROVE  uses[k] \subseteq late
    OBVIOUS
  <2>1. RemoveWorktree
    BY TreesStay
  <2>2. k = Checkout
    BY <2>1 DEF RemoveWorktree, OperationInv, TypeOK
  <2> QED BY <2>1, <2>2 DEF RemoveWorktree, Effect, ScanIsSound
<1> QED BY <1>1, <1>2, ScanNext, OperationInvariance, PTL
        DEF Spec, CleanupLosesNothingScanned
-----------------------------------------------------------------------------
\* A receipt on disk whose outcome is known and that was never trimmed is the
\* one in memory, so that its command is not executed.
OutcomesAreKept ==
    \A c \in Commands :
        disk[c] # None /\ disk[c].state # "running" /\ forgotten[c] = 0 =>
            /\ up => journal[c] = disk[c]
            /\ current # None => current.command # c

\* What a step may do to the outcomes on disk.
OutcomeStep ==
    \A c \in Commands : disk[c] # None /\ disk[c].state # "running" =>
        disk'[c] \in {disk[c], None} \/ forgotten'[c] > 0

\* A step of an effect, one that finishes a receipt in memory, or a job's end.
LEMMA OutcomesAtFinish ==
    ASSUME OperationInv, OutcomesAreKept, disk' = disk, forgotten' = forgotten, up' = up,
           current' \in {current, None},
           \/ journal' = journal
           \/ /\ current # None
              /\ \E state \in {"succeeded", "failed"} : Finish(current.command, state)
    PROVE  OutcomesAreKept' /\ OutcomeStep
<1>1. OutcomeStep
  BY DEF OutcomeStep
<1>2. CASE journal' = journal
  BY <1>1, <1>2 DEF OutcomesAreKept
<1>3. CASE /\ current # None
           /\ \E state \in {"succeeded", "failed"} : Finish(current.command, state)
  <2>1. current.command \in Commands /\ journal[current.command] # None
    BY <1>3, CurrentParts DEF OperationInv, JournalInv, CurrentIsSound
  <2>2. \A d \in Commands \ {current.command} : journal'[d] = journal[d]
    BY <1>3, <2>1, FinishEffect DEF OperationInv
  <2> QED BY <1>1, <1>3, <2>2 DEF OutcomesAreKept
<1> QED BY <1>2, <1>3

\* A new receipt is one of a command without a receipt; what trim drops is
\* forgotten from then on.
LEMMA OutcomesAtRecord ==
    ASSUME OperationInv, OutcomesAreKept, Record
    PROVE  OutcomesAreKept' /\ OutcomeStep
<1> DEFINE c == Head(queue).command
<1>1. /\ c \in Commands /\ journal[c] = None
      /\ forgotten'[c] = forgotten[c]
      /\ current' \in {None, Head(queue)}
      /\ \A d \in Commands \ {c} :
            \/ journal'[d] = journal[d] /\ forgotten'[d] = forgotten[d]
            \/ forgotten'[d] = forgotten[d] + 1
  BY RecordEffect DEF OperationInv
<1>2. up /\ up' = up /\ disk' = disk
  BY DEF Record, Ready
<1>3. \A d \in Commands : forgotten[d] \in Nat
  BY DEF OperationInv, TypeOK
<1>4. current' # None => current'.command = c
  BY <1>1
<1> HIDE DEF c
<1>5. ASSUME NEW d \in Commands, disk[d] # None, disk[d].state # "running",
             forgotten'[d] = 0
      PROVE  journal'[d] = disk[d] /\ d # c
  <2>1. CASE d = c
    BY <1>1, <1>2, <1>5, <2>1 DEF OutcomesAreKept
  <2>2. CASE d # c
    BY <1>1, <1>2, <1>3, <1>5, <2>2 DEF OutcomesAreKept
  <2> QED BY <2>1, <2>2
<1> QED BY <1>2, <1>4, <1>5 DEF OutcomesAreKept, OutcomeStep

\* The journal is written, or a crash leaves it written: what is on disk with an
\* outcome is in the journal as it is.
LEMMA OutcomesAtWrite ==
    ASSUME OperationInv, OutcomesAreKept, up, forgotten' = forgotten,
           disk' \in {disk, journal}
    PROVE  OutcomeStep
<1>1. \A c \in Commands : forgotten[c] \in Nat
  BY DEF OperationInv, TypeOK
<1> QED BY <1>1 DEF OutcomesAreKept, OutcomeStep

\* The receipt of a command that is to have its effect says that it runs.
LEMMA OutcomesAtRecordWritten ==
    ASSUME OperationInv, OutcomesAreKept, RecordWritten
    PROVE  OutcomesAreKept'
<1>1. /\ up /\ up' = up /\ current # None /\ current' = current
      /\ phase = "recording" /\ disk' = journal
      /\ journal' = journal \/ Finish(current.command, "failed")
  BY DEF RecordWritten
<1>2. /\ current.command \in Commands /\ journal[current.command] # None
      /\ journal[current.command].state = "running"
  BY <1>1, CurrentParts DEF OperationInv, JournalInv, CurrentIsSound
<1>3. \A d \in Commands \ {current.command} : journal'[d] = journal[d]
  BY <1>1, <1>2, FinishEffect DEF OperationInv
<1> QED BY <1>1, <1>2, <1>3 DEF OutcomesAreKept

\* init changes nothing of a receipt that does not say it runs.
LEMMA OutcomesAtRestart ==
    ASSUME OperationInv, OutcomesAreKept, Restart
    PROVE  OutcomesAreKept' /\ OutcomeStep
<1>1. /\ ~up /\ up' /\ disk' = journal' /\ current' = current
      /\ \A c \in Commands : disk'[c] = Interrupted(disk[c])
  BY DEF Restart, execVars
<1>2. current = None
  BY <1>1 DEF OperationInv, JournalInv, CurrentIsSound
<1> QED BY <1>1, <1>2 DEF OutcomesAreKept, OutcomeStep, Interrupted

LEMMA OutcomeNext ==
    ASSUME OperationInv, OutcomesAreKept, [Next]_vars
    PROVE  OutcomesAreKept' /\ OutcomeStep
<1>1. CASE Record
  BY <1>1, OutcomesAtRecord
<1>2. CASE RecordWritten
  BY <1>2, OutcomesAtRecordWritten, OutcomesAtWrite DEF RecordWritten
<1>3. CASE SuccessWritten \/ FailureWritten
  <2>1. /\ up /\ up' = up /\ forgotten' = forgotten /\ disk' = journal
        /\ journal' = journal /\ current' = None
    BY <1>3 DEF SuccessWritten, FailureWritten
  <2> QED BY <2>1, OutcomesAtWrite DEF OutcomesAreKept
<1>4. CASE Crash
  <2>1. /\ up /\ ~up' /\ forgotten' = forgotten /\ disk' \in {disk, journal}
        /\ current' = None
    BY <1>4 DEF Crash
  <2> QED BY <2>1, OutcomesAtWrite DEF OutcomesAreKept
<1>5. CASE Restart
  BY <1>5, OutcomesAtRestart
<1>6. CASE SuccessNotWritten \/ EffectFails
  BY <1>6, OutcomesAtFinish DEF SuccessNotWritten, EffectFails
<1>7. CASE CheckoutReady \/ RecordRemoval \/ PromoteCheckout \/ AlignBranch
  BY <1>7, OutcomesAtFinish
  DEF CheckoutReady, RecordRemoval, PromoteCheckout, AlignBranch, Effect, Succeed
<1>8. CASE \/ RegisterCheckout \/ AddWorktree \/ ScanForLoss \/ PlanCleanup
           \/ RemoveWorktree
  BY <1>8, OutcomesAtFinish
  DEF RegisterCheckout, AddWorktree, ScanForLoss, PlanCleanup, RemoveWorktree, Effect,
      Continue
<1>9. CASE Repeat \/ RecordNotWritten \/ FailureNotWritten
  BY <1>9, OutcomesAtFinish DEF Repeat, RecordNotWritten, FailureNotWritten, storeVars
<1>10. CASE \E p \in Plans : MakePlan(p)
  <2>1. \E p \in Plans : RememberPlan(p)
    BY <1>10 DEF MakePlan, PlanCreation, PlanLifecycle, PlanAlignment
  <2> QED BY <2>1, OutcomesAtFinish DEF RememberPlan, storeVars, execVars
<1>11. CASE \E c \in Commands, p \in Plans, caller \in Callers : Deliver(c, p, caller)
  BY <1>11, OutcomesAtFinish DEF Deliver, Enqueue, storeVars
<1>12. CASE \/ Reconcile \/ UNCHANGED vars \/ \E c \in Commands : GetCommand(c)
            \/ \E k \in Checkouts : Settle(k) \/ \E use \in Uses : Use(k, use)
  BY <1>12, OutcomesAtFinish DEF Reconcile, GetCommand, Settle, Use, vars, storeVars, execVars
<1> QED BY <1>1, <1>2, <1>3, <1>4, <1>5, <1>6, <1>7, <1>8, <1>9, <1>10, <1>11, <1>12
        DEF Next, Execute

\* DeviceOperationStore: an outcome that has reached the disk stays there as it
\* is, over duplicates, failing writes, crashes and restarts, until it is trimmed.
THEOREM OutcomesStay == Spec => OutcomesAreFinal
<1>1. Init => OutcomesAreKept
  BY DEF Init, OutcomesAreKept, NoReceipts
<1>2. OperationInv /\ OutcomesAreKept /\ [Next]_vars => OutcomesAreKept'
  BY OutcomeNext
<1>3. OperationInv /\ OutcomesAreKept /\ [Next]_vars =>
        [\A c \in Commands : disk[c] # None /\ disk[c].state # "running" =>
            disk'[c] \in {disk[c], None} \/ forgotten'[c] > 0]_vars
  BY OutcomeNext DEF OutcomeStep
<1> QED BY <1>1, <1>2, <1>3, OperationInvariance, PTL DEF Spec, OutcomesAreFinal
=============================================================================
