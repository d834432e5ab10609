-------------------------- MODULE RuntimeHostProofs --------------------------
(***************************************************************************)
(* Machine-checked proofs about RuntimeHost.                               *)
(*                                                                         *)
(* Every step of the Runtime is a step of the lease manager or leaves it   *)
(* alone, so what TerminalInputLeaseProofs proves carries over.  HostInv   *)
(* adds what relates the terminals map, the Session map, the processes,    *)
(* the leases and the pending stops.                                       *)
(***************************************************************************)
EXTENDS RuntimeHost, TerminalInputLeaseProofs

\* A terminal in the map was started and its exit event is still to come.
RunningTerminals ==
    \A t \in running : /\ starts[t] = "started"
                       /\ process[t] \in {"alive", "dead"}
                       /\ sizes[t] \in Sizes

\* A process exists for the starts that succeeded; while the host is open it
\* leaves the terminals map only by its exit event.
StartedTerminals ==
    \A t \in Terminals :
        /\ process[t] = "none" <=> starts[t] # "started"
        /\ open /\ starts[t] = "started" /\ t \notin running => process[t] = "exited"

\* A stop is of a started terminal, and a successful one of an exited process.
StopsAreOfTerminals ==
    \A r \in Requests :
        /\ stops[r].stage \in {"waiting", "forced", "stopped"} =>
              /\ stops[r].terminal \in Terminals
              /\ starts[stops[r].terminal] = "started"
        /\ stops[r].stage = "stopped" => process[stops[r].terminal] = "exited"

HostInv ==
    /\ LeaseInv
    /\ HostTypeOK
    /\ RunningTerminals
    /\ StartedTerminals
    /\ StopsAreOfTerminals
    /\ SessionMapIsSound
    /\ LeaseOnlyWhileRunning

-----------------------------------------------------------------------------
LEMMA HostInitInv == Init => HostInv
<1> SUFFICES ASSUME Init PROVE HostInv
  OBVIOUS
<1>1. LeaseInv
  BY LeaseInitInv DEF Init
<1>2. HostTypeOK
  BY DEF Init, HostTypeOK, Unseen, StopStages
<1> QED BY <1>1, <1>2 DEF Init, LeaseInit, HostInv, RunningTerminals, StartedTerminals,
           StopsAreOfTerminals, SessionMapIsSound, LeaseOnlyWhileRunning

\* The handlers call the lease manager within its interface: the size they pass
\* is a running terminal's.
LEMMA HostStepsAreLeaseSteps ==
    HostInv /\ [Next]_vars => [LeaseNext]_leaseVars
<1> SUFFICES ASSUME HostInv, Next PROVE [LeaseNext]_leaseVars
  BY DEF vars
<1>1. ASSUME NEW t \in Terminals, NEW d \in Devices, NEW o \in Owners,
             NEW takeover \in BOOLEAN, AcquireInputLease(t, d, o, takeover)
      PROVE  LeaseNext
  <2>1. sizes[t] \in Sizes
    BY <1>1 DEF AcquireInputLease, HostInv, RunningTerminals
  <2> QED BY <1>1, <2>1 DEF AcquireInputLease, LeaseNext
<1>2. ASSUME NEW t \in Terminals, NEW p \in granted[t], WriteInput(t, p) \/ LetGo(t, p)
      PROVE  LeaseNext
  BY <1>2 DEF WriteInput, LetGo, LeaseNext
<1>3. ASSUME NEW t \in Terminals, NEW p \in granted[t], NEW size \in Sizes,
             ResizeTerminal(t, p, size)
      PROVE  LeaseNext
  BY <1>3 DEF ResizeTerminal, LeaseNext
<1>4. ASSUME NEW t \in Terminals, Exit(t)
      PROVE  [LeaseNext]_leaseVars
  BY <1>4 DEF Exit, LeaseNext
<1>5. CASE Shutdown
  BY <1>5 DEF Shutdown, LeaseNext
<1>6. ASSUME NEW c \in Clients, Connect(c) \/ Disconnect(c)
      PROVE  UNCHANGED leaseVars
  BY <1>6 DEF Connect, Disconnect, ReleaseTransportClient
<1>7. ASSUME NEW t \in Terminals, Start(t) \/ SpawnFailed(t) \/ Data(t) \/ Die(t)
      PROVE  UNCHANGED leaseVars
  BY <1>7 DEF Start, SpawnFailed, Data, Die
<1>8. ASSUME NEW t \in Terminals, NEW size \in Sizes, Spawned(t, size)
      PROVE  UNCHANGED leaseVars
  BY <1>8 DEF Spawned
<1>9. ASSUME NEW r \in Requests, NEW t \in Terminals, Stop(r, t)
      PROVE  UNCHANGED leaseVars
  BY <1>9 DEF Stop
<1>10. ASSUME NEW r \in Requests, ForceTimer(r) \/ FailureTimer(r)
       PROVE  UNCHANGED leaseVars
  BY <1>10 DEF ForceTimer, FailureTimer
<1>11. CASE ShutdownThrows
  BY <1>11 DEF ShutdownThrows
<1> QED BY <1>1, <1>2, <1>3, <1>4, <1>5, <1>6, <1>7, <1>8, <1>9, <1>10, <1>11 DEF Next

-----------------------------------------------------------------------------
(* HostInv is kept, one lemma for each group of actions. *)

HostPart == /\ HostTypeOK /\ RunningTerminals /\ StartedTerminals
            /\ StopsAreOfTerminals /\ SessionMapIsSound /\ LeaseOnlyWhileRunning

Seen == [seq : Nat, exited : BOOLEAN]

\* What a socket was told stays well typed when an event is added.
LEMMA SeenTyping ==
    ASSUME NEW f \in [Terminals -> Seen], NEW t \in Terminals, NEW n \in Nat
    PROVE  /\ [f EXCEPT ![t].seq = n] \in [Terminals -> Seen]
           /\ [f EXCEPT ![t].exited = TRUE] \in [Terminals -> Seen]
<1>1. f[t] \in Seen
  OBVIOUS
<1>2. [f[t] EXCEPT !.seq = n] \in Seen
  BY <1>1 DEF Seen
<1>3. [f[t] EXCEPT !.exited = TRUE] \in Seen
  BY <1>1 DEF Seen
<1> QED BY <1>2, <1>3

LEMMA ConnectionSteps ==
    ASSUME HostInv, NEW c \in Clients, Connect(c) \/ Disconnect(c)
    PROVE  HostPart'
<1> USE DEF HostInv, HostPart
<1>1. HostTypeOK'
  <2>1. CASE Connect(c)
    <3>1. [t \in Terminals |-> Unseen] \in [Terminals -> [seq : Nat, exited : BOOLEAN]]
      BY DEF Unseen
    <3> QED BY <2>1, <3>1 DEF Connect, HostTypeOK
  <2>2. CASE Disconnect(c)
    BY <2>2 DEF Disconnect, HostTypeOK
  <2> QED BY <2>1, <2>2
<1>2. UNCHANGED <<leases, open, starts, running, terminalBySession, sizes, process, stops>>
  BY DEF Connect, Disconnect, ReleaseTransportClient, leaseVars
<1> QED BY <1>1, <1>2 DEF RunningTerminals, StartedTerminals, StopsAreOfTerminals,
           SessionMapIsSound, LeaseOnlyWhileRunning

LEMMA StartSteps ==
    ASSUME HostInv, NEW t \in Terminals, Start(t) \/ SpawnFailed(t)
    PROVE  HostPart'
<1> USE DEF HostInv, HostPart, HostTypeOK
<1>1. PICK x \in {"spawning", "refused", "failed"} :
         starts' = [starts EXCEPT ![t] = x] /\ starts[t] \in {"unused", "spawning"}
  BY DEF Start, SpawnFailed
<1>2. UNCHANGED <<leases, open, sockets, running, terminalBySession, outputSequence,
                  sizes, process, signalled, chunks, stops, seen>>
  BY DEF Start, SpawnFailed, leaseVars
<1>3. t \notin running
  BY <1>1 DEF RunningTerminals
<1>4. HostTypeOK'
  BY <1>1, <1>2
<1>5. RunningTerminals' /\ StartedTerminals' /\ StopsAreOfTerminals'
  BY <1>1, <1>2, <1>3 DEF RunningTerminals, StartedTerminals, StopsAreOfTerminals
<1>6. SessionMapIsSound' /\ LeaseOnlyWhileRunning'
  BY <1>2 DEF SessionMapIsSound, LeaseOnlyWhileRunning
<1> QED BY <1>4, <1>5, <1>6

LEMMA SpawnedStep ==
    ASSUME HostInv, NEW t \in Terminals, NEW size \in Sizes, Spawned(t, size)
    PROVE  HostPart'
<1> USE DEF HostInv, HostPart, HostTypeOK, Spawned
<1>1. SessionOf[t] \in Sessions
  BY SessionAssumption
<1>2. HostTypeOK'
  OBVIOUS
<1>3. RunningTerminals' /\ StartedTerminals'
  BY DEF RunningTerminals, StartedTerminals
<1>4. StopsAreOfTerminals'
  BY DEF StopsAreOfTerminals
<1>5. SessionMapIsSound'
  BY <1>1 DEF SessionMapIsSound
<1>6. LeaseOnlyWhileRunning'
  BY DEF LeaseOnlyWhileRunning, leaseVars
<1> QED BY <1>2, <1>3, <1>4, <1>5, <1>6

LEMMA DataStep ==
    ASSUME HostInv, NEW t \in Terminals, Data(t)
    PROVE  HostPart'
<1> USE DEF HostInv, HostPart
<1>1. outputSequence' \in [Terminals -> Nat] /\ chunks' \in [Terminals -> Nat]
  <2>1. chunks' = [chunks EXCEPT ![t] = @ + 1]
    BY DEF Data
  <2>2. \/ outputSequence' = [outputSequence EXCEPT ![t] = @ + 1]
        \/ outputSequence' = outputSequence
    BY DEF Data
  <2>3. outputSequence \in [Terminals -> Nat] /\ chunks \in [Terminals -> Nat]
    BY DEF HostTypeOK
  <2> QED BY <2>1, <2>2, <2>3
<1>2. seen' \in [Clients -> [Terminals -> [seq : Nat, exited : BOOLEAN]]]
  <2>1. outputSequence[t] + 1 \in Nat
    BY DEF HostTypeOK
  <2>2. CASE UNCHANGED seen
    BY <2>2 DEF HostTypeOK
  <2>3. CASE BroadcastOutput(t, outputSequence[t] + 1)
    <3>1. ASSUME NEW c \in Clients
          PROVE  [seen[c] EXCEPT ![t].seq = outputSequence[t] + 1]
                    \in [Terminals -> [seq : Nat, exited : BOOLEAN]]
      BY <2>1, SeenTyping DEF HostTypeOK, Seen
    <3> QED BY <2>3, <3>1 DEF BroadcastOutput, HostTypeOK
  <2> QED BY <2>2, <2>3 DEF Data
<1>3. UNCHANGED <<leases, open, sockets, starts, running, terminalBySession, sizes,
                  process, signalled, stops>>
  BY DEF Data, leaseVars
<1>4. HostTypeOK'
  BY <1>1, <1>2, <1>3 DEF HostTypeOK
<1> QED BY <1>3, <1>4 DEF RunningTerminals, StartedTerminals, StopsAreOfTerminals,
           SessionMapIsSound, LeaseOnlyWhileRunning

LEMMA DieStep ==
    ASSUME HostInv, NEW t \in Terminals, Die(t)
    PROVE  HostPart'
<1> USE DEF HostInv, HostPart, HostTypeOK, Die
<1>1. HostTypeOK' /\ SessionMapIsSound' /\ LeaseOnlyWhileRunning'
  BY DEF SessionMapIsSound, LeaseOnlyWhileRunning, leaseVars
<1>2. RunningTerminals' /\ StartedTerminals' /\ StopsAreOfTerminals'
  BY DEF RunningTerminals, StartedTerminals, StopsAreOfTerminals
<1> QED BY <1>1, <1>2

LEMMA ExitStep ==
    ASSUME HostInv, NEW t \in Terminals, Exit(t)
    PROVE  HostPart'
<1> USE DEF HostInv, HostPart
<1>1. /\ process[t] = "dead"
      /\ process' = [process EXCEPT ![t] = "exited"]
      /\ running' = running \ {t}
      /\ UNCHANGED <<open, sockets, starts, sizes, signalled, chunks>>
  BY DEF Exit
<1>2. stops' = [r \in Requests |->
                  IF stops[r].terminal = t /\ stops[r].stage \in {"waiting", "forced"}
                  THEN [stops[r] EXCEPT !.stage = "stopped"]
                  ELSE stops[r]]
  BY DEF Exit
<1>3. \A r \in Requests :
         /\ stops'[r].terminal = stops[r].terminal
         /\ \/ stops'[r].stage = stops[r].stage
            \/ /\ stops[r].terminal = t
               /\ stops[r].stage \in {"waiting", "forced"}
               /\ stops'[r].stage = "stopped"
  BY <1>2 DEF HostTypeOK
<1>4. starts[t] = "started"
  BY <1>1 DEF StartedTerminals
<1>5. SessionOf[t] \in Sessions
  BY SessionAssumption
<1>6. CASE t \in running
  <2>1. /\ terminalBySession' = [terminalBySession EXCEPT ![SessionOf[t]] = None]
        /\ outputSequence' = [outputSequence EXCEPT ![t] = 0]
        /\ ClearTerminal(t)
        /\ BroadcastExit(t)
    BY <1>6 DEF Exit
  <2>2. seen' \in [Clients -> [Terminals -> [seq : Nat, exited : BOOLEAN]]]
    <3>1. ASSUME NEW c \in Clients
          PROVE  [seen[c] EXCEPT ![t].exited = TRUE]
                    \in [Terminals -> [seq : Nat, exited : BOOLEAN]]
      BY SeenTyping, 0 \in Nat DEF HostTypeOK, Seen
    <3> QED BY <2>1, <3>1 DEF BroadcastExit, HostTypeOK
  <2>3. stops' \in [Requests -> [terminal : Terminals \cup {None}, stage : StopStages]]
    BY <1>2 DEF HostTypeOK, StopStages
  <2>4. HostTypeOK'
    BY <1>1, <2>1, <2>2, <2>3 DEF HostTypeOK
  <2>5. RunningTerminals' /\ StartedTerminals'
    BY <1>1, <1>4 DEF RunningTerminals, StartedTerminals, HostTypeOK
  <2>6. StopsAreOfTerminals'
    BY <1>1, <1>3, <1>4 DEF StopsAreOfTerminals, HostTypeOK
  <2>7. SessionMapIsSound'
    BY <1>1, <1>5, <2>1 DEF SessionMapIsSound, HostTypeOK
  <2>8. \A u \in Terminals : leases'[u] # None => u # t /\ leases[u] # None
    BY <2>1 DEF ClearTerminal, EndLease, leaseVars, LeaseInv, LeaseTypeOK
  <2>9. LeaseOnlyWhileRunning'
    BY <1>1, <2>8 DEF LeaseOnlyWhileRunning
  <2> QED BY <2>4, <2>5, <2>6, <2>7, <2>9
<1>7. CASE t \notin running
  <2>1. UNCHANGED <<leases, running, terminalBySession, outputSequence, seen>>
    BY <1>7 DEF Exit, leaseVars
  <2>2. stops' \in [Requests -> [terminal : Terminals \cup {None}, stage : StopStages]]
    BY <1>2 DEF HostTypeOK, StopStages
  <2>3. HostTypeOK'
    BY <1>1, <2>1, <2>2 DEF HostTypeOK
  <2>4. RunningTerminals' /\ StartedTerminals'
    BY <1>1, <1>4, <1>7 DEF RunningTerminals, StartedTerminals, HostTypeOK
  <2>5. StopsAreOfTerminals'
    BY <1>1, <1>3, <1>4 DEF StopsAreOfTerminals, HostTypeOK
  <2>6. SessionMapIsSound' /\ LeaseOnlyWhileRunning'
    BY <2>1 DEF SessionMapIsSound, LeaseOnlyWhileRunning
  <2> QED BY <2>3, <2>4, <2>5, <2>6
<1> QED BY <1>6, <1>7
\* A stop request moves to another stage; nothing but the signals sent changes.
LEMMA StopSteps ==
    ASSUME HostInv, NEW r \in Requests, NEW t \in Terminals,
           NEW stage \in StopStages, Settle(r, t, stage),
           starts[t] = "started",
           stage = "stopped" => process[t] = "exited",
           signalled' \in [Terminals -> {"none", "SIGHUP", "SIGKILL"}],
           UNCHANGED <<leaseVars, open, sockets, starts, running, terminalBySession,
                       outputSequence, sizes, process, chunks, seen>>
    PROVE  HostPart'
<1> USE DEF HostInv, HostPart
<1>1. [terminal |-> t, stage |-> stage] \in [terminal : Terminals \cup {None}, stage : StopStages]
  OBVIOUS
<1>2. HostTypeOK'
  BY <1>1 DEF Settle, HostTypeOK
<1>3. StopsAreOfTerminals'
  BY DEF StopsAreOfTerminals, Settle, HostTypeOK
<1> QED BY <1>2, <1>3 DEF RunningTerminals, StartedTerminals, SessionMapIsSound,
           LeaseOnlyWhileRunning, leaseVars

LEMMA HangupTyping ==
    ASSUME HostInv, NEW T, Hangup(T)
    PROVE  signalled' \in [Terminals -> {"none", "SIGHUP", "SIGKILL"}]
BY DEF HostInv, HostTypeOK, Hangup

LEMMA StopRequestStep ==
    ASSUME HostInv, NEW r \in Requests, NEW t \in Terminals, Stop(r, t)
    PROVE  HostPart'
<1>1. /\ starts[t] = "started"
      /\ UNCHANGED <<leaseVars, open, sockets, starts, running, terminalBySession,
                     outputSequence, sizes, process, chunks, seen>>
  BY DEF Stop
<1>2. signalled \in [Terminals -> {"none", "SIGHUP", "SIGKILL"}]
  BY DEF HostInv, HostTypeOK
<1>3. CASE t \notin running /\ Settle(r, t, "stopped") /\ UNCHANGED signalled
  <2>1. process[t] = "exited"
    BY <1>3 DEF Stop, HostInv, StartedTerminals
  <2> QED BY <1>1, <1>2, <1>3, <2>1, StopSteps DEF StopStages
<1>4. CASE t \in running /\ Settle(r, t, "waiting") /\ Hangup({t})
  BY <1>1, <1>4, HangupTyping, StopSteps DEF StopStages
<1>5. CASE t \in running /\ Settle(r, t, "failed") /\ UNCHANGED signalled
  BY <1>1, <1>2, <1>5, StopSteps DEF StopStages
<1> QED BY <1>3, <1>4, <1>5 DEF Stop

LEMMA TimerSteps ==
    ASSUME HostInv, NEW r \in Requests, ForceTimer(r) \/ FailureTimer(r)
    PROVE  HostPart'
<1> DEFINE t == stops[r].terminal
<1>1. /\ t \in Terminals
      /\ starts[t] = "started"
  BY DEF HostInv, StopsAreOfTerminals, ForceTimer, FailureTimer
<1>2. UNCHANGED <<leaseVars, open, sockets, starts, running, terminalBySession,
                  outputSequence, sizes, process, chunks, seen>>
  BY DEF ForceTimer, FailureTimer
<1>3. PICK stage \in {"forced", "failed"} : Settle(r, t, stage)
  BY DEF ForceTimer, FailureTimer
<1>4. signalled' \in [Terminals -> {"none", "SIGHUP", "SIGKILL"}]
  BY DEF HostInv, HostTypeOK, ForceTimer, FailureTimer
<1> QED BY <1>1, <1>2, <1>3, <1>4, StopSteps DEF StopStages

\* A step of the lease manager on behalf of a running terminal, or one that
\* ends leases, keeps every lease on a running terminal.
LEMMA LeaseRequestSteps ==
    ASSUME HostInv,
           UNCHANGED <<open, sockets, starts, running, terminalBySession,
                       outputSequence, process, signalled, chunks, stops, seen>>,
           sizes' \in [Terminals -> Sizes \cup {None}],
           \A t \in running : sizes'[t] \in Sizes,
           \A t \in Terminals : leases'[t] # None => leases[t] # None \/ t \in running
    PROVE  HostPart'
BY DEF HostInv, HostPart, HostTypeOK, RunningTerminals, StartedTerminals,
       StopsAreOfTerminals, SessionMapIsSound, LeaseOnlyWhileRunning

LEMMA AcquireStep ==
    ASSUME HostInv, NEW t \in Terminals, NEW d \in Devices, NEW o \in Owners,
           NEW takeover \in BOOLEAN, AcquireInputLease(t, d, o, takeover)
    PROVE  HostPart'
<1>1. t \in running /\ UNCHANGED hostVars
  BY DEF AcquireInputLease
<1>2. \A u \in Terminals : leases'[u] # None => leases[u] # None \/ u \in running
  <2>1. CASE UNCHANGED leaseVars
    BY <2>1 DEF leaseVars
  <2>2. CASE Grant(t, d, o, sizes[t])
    BY <1>1, <2>2 DEF Grant, HostInv, LeaseInv, LeaseTypeOK
  <2> QED BY <2>1, <2>2 DEF AcquireInputLease, Acquire
<1> QED BY <1>1, <1>2, LeaseRequestSteps DEF hostVars, HostInv, HostTypeOK, RunningTerminals

LEMMA ProofSteps ==
    ASSUME HostInv, NEW t \in Terminals, NEW p \in granted[t],
           WriteInput(t, p) \/ LetGo(t, p)
    PROVE  HostPart'
<1>1. UNCHANGED hostVars
  BY DEF WriteInput, LetGo
<1>2. \A u \in Terminals : leases'[u] # None => leases[u] # None
  BY DEF WriteInput, LetGo, Write, Release, Park, EndLease, leaseVars,
         HostInv, LeaseInv, LeaseTypeOK
<1> QED BY <1>1, <1>2, LeaseRequestSteps DEF hostVars, HostInv, HostTypeOK, RunningTerminals

LEMMA ResizeStep ==
    ASSUME HostInv, NEW t \in Terminals, NEW p \in granted[t], NEW size \in Sizes,
           ResizeTerminal(t, p, size)
    PROVE  HostPart'
<1>1. UNCHANGED <<open, sockets, starts, running, terminalBySession,
                  outputSequence, process, signalled, chunks, stops, seen>>
  BY DEF ResizeTerminal
<1>2. sizes' = [sizes EXCEPT ![t] = size] \/ sizes' = sizes
  BY DEF ResizeTerminal
<1>3. \A u \in Terminals : leases'[u] # None => leases[u] # None
  <2>1. CASE UNCHANGED leaseVars
    BY <2>1 DEF leaseVars
  <2>2. CASE Authorized(t, p) /\ SetSize(t, size)
    BY <2>2 DEF SetSize, Authorized, HostInv, LeaseInv, LeaseTypeOK
  <2> QED BY <2>1, <2>2 DEF ResizeTerminal, Resize
<1>4. /\ sizes' \in [Terminals -> Sizes \cup {None}]
      /\ \A u \in running : sizes'[u] \in Sizes
  <2>1. /\ sizes \in [Terminals -> Sizes \cup {None}] /\ running \subseteq Terminals
        /\ \A u \in running : sizes[u] \in Sizes
    BY DEF HostInv, HostTypeOK, RunningTerminals
  <2>2. CASE sizes' = sizes
    BY <2>1, <2>2
  <2>3. CASE sizes' = [sizes EXCEPT ![t] = size]
    <3>1. sizes' \in [Terminals -> Sizes \cup {None}]
      BY <2>1, <2>3
    <3>2. \A u \in Terminals : sizes'[u] = IF u = t THEN size ELSE sizes[u]
      BY <2>1, <2>3
    <3> QED BY <2>1, <3>1, <3>2
  <2> QED BY <1>2, <2>2, <2>3
<1> QED BY <1>1, <1>3, <1>4, LeaseRequestSteps

LEMMA ShutdownSteps ==
    ASSUME HostInv, Shutdown \/ ShutdownThrows
    PROVE  HostPart'
<1> USE DEF HostInv, HostPart
<1>1. CASE Shutdown
  <2>1. /\ open' = FALSE /\ running' = {} /\ sockets' = {}
        /\ terminalBySession' = [s \in Sessions |-> None]
        /\ outputSequence' = [t \in Terminals |-> 0]
        /\ leases' = [t \in Terminals |-> None]
        /\ Hangup(running)
        /\ UNCHANGED <<starts, sizes, process, chunks, stops, seen>>
    BY <1>1 DEF Shutdown, Clear
  <2>2. HostTypeOK'
    BY <2>1, HangupTyping DEF HostTypeOK
  <2> QED BY <2>1, <2>2 DEF RunningTerminals, StartedTerminals, StopsAreOfTerminals,
             SessionMapIsSound, LeaseOnlyWhileRunning
<1>2. CASE ShutdownThrows
  <2>1. UNCHANGED <<leaseVars, open, sockets, starts, running, terminalBySession,
                    outputSequence, sizes, process, chunks, stops, seen>>
    BY <1>2 DEF ShutdownThrows
  <2>2. HostTypeOK'
    BY <1>2, <2>1, HangupTyping DEF ShutdownThrows, HostTypeOK
  <2> QED BY <2>1, <2>2 DEF RunningTerminals, StartedTerminals, StopsAreOfTerminals,
             SessionMapIsSound, LeaseOnlyWhileRunning, leaseVars
<1> QED BY <1>1, <1>2

LEMMA HostStepInv == HostInv /\ [Next]_vars => HostInv'
<1> SUFFICES ASSUME HostInv, [Next]_vars PROVE HostInv'
  OBVIOUS
<1>1. LeaseInv'
  BY HostStepsAreLeaseSteps, LeaseStepInv DEF HostInv
<1>2. HostPart'
  <2>1. CASE UNCHANGED vars
    BY <2>1 DEF vars, leaseVars, hostVars, HostInv, HostPart, HostTypeOK, RunningTerminals,
                StartedTerminals, StopsAreOfTerminals, SessionMapIsSound,
                LeaseOnlyWhileRunning
  <2>2. CASE Next
    BY <2>2, ConnectionSteps, StartSteps, SpawnedStep, DataStep, DieStep, ExitStep,
       StopRequestStep, TimerSteps, AcquireStep, ProofSteps, ResizeStep, ShutdownSteps
       DEF Next
  <2> QED BY <2>1, <2>2
<1> QED BY <1>1, <1>2 DEF HostInv, HostPart

THEOREM HostInvariant == Spec => []HostInv
BY HostInitInv, HostStepInv, PTL DEF Spec

-----------------------------------------------------------------------------
\* Type correctness of the Environment Runtime.
THEOREM HostTyping == Spec => []TypeOK
<1>1. HostInv => TypeOK
  BY DEF HostInv, LeaseInv, TypeOK
<1> QED BY <1>1, HostInvariant, PTL

\* Whatever the order of exits, stops, shutdown and late requests, a lease is
\* only ever in force on a terminal of the terminals map.
THEOREM LeasesNeedTerminals == Spec => []LeaseOnlyWhileRunning
<1>1. HostInv => LeaseOnlyWhileRunning
  BY DEF HostInv
<1> QED BY <1>1, HostInvariant, PTL

\* The Session map names running terminals of the right Session, even when
\* starts of one Session race.
THEOREM SessionMapNamesTerminals == Spec => []SessionMapIsSound
<1>1. HostInv => SessionMapIsSound
  BY DEF HostInv
<1> QED BY <1>1, HostInvariant, PTL

\* An acknowledged stop means an exited PTY, for any number of stops, timers
\* and terminals.
THEOREM AcknowledgedStops == Spec => []AckMeansStopped
<1>1. HostInv => AckMeansStopped
  <2> SUFFICES ASSUME HostInv, NEW r \in Requests, stops[r].stage = "stopped"
               PROVE  /\ process[stops[r].terminal] = "exited"
                      /\ stops[r].terminal \notin running
                      /\ terminalBySession[SessionOf[stops[r].terminal]] # stops[r].terminal
    BY DEF AckMeansStopped
  <2>1. stops[r].terminal \in Terminals /\ process[stops[r].terminal] = "exited"
    BY DEF HostInv, StopsAreOfTerminals
  <2>2. stops[r].terminal \notin running
    BY <2>1 DEF HostInv, RunningTerminals
  <2> QED BY <2>1, <2>2, SessionAssumption, NoTerminalAssumption DEF HostInv, SessionMapIsSound
<1> QED BY <1>1, HostInvariant, PTL

\* The Runtime's behaviours are behaviours of the lease manager.
THEOREM HostImplementsLeases == Spec => ImplementsLeases
<1>1. Init => LeaseInit
  BY DEF Init
<1> QED BY <1>1, HostInvariant, HostStepsAreLeaseSteps, PTL
        DEF Spec, LeaseSpec, ImplementsLeases

\* And so the Runtime keeps the promise of Session Control.
THEOREM HostImplementsSessionControl == Spec => ImplementsSessionControl
BY HostImplementsLeases, LeasesImplementSessionControl DEF ImplementsLeases
-----------------------------------------------------------------------------
(* The lease shows the size of the PTY. *)

LEMMA SizeStep == HostInv /\ LeaseSizeIsPtySize /\ [Next]_vars => LeaseSizeIsPtySize'
<1> SUFFICES ASSUME HostInv, LeaseSizeIsPtySize, [Next]_vars, NEW u \in Terminals,
                    leases'[u] # None, process'[u] = "alive"
             PROVE  leases'[u].size = sizes'[u]
  BY DEF LeaseSizeIsPtySize
<1> USE DEF HostInv, LeaseInv, LeaseTypeOK, HostTypeOK
\* A step that leaves the leases, the sizes and the processes alive alone.
<1>0. ASSUME UNCHANGED <<leases, sizes>>, process'[u] = "alive" => process[u] = "alive"
      PROVE  leases'[u].size = sizes'[u]
  BY <1>0 DEF LeaseSizeIsPtySize
<1>1. CASE UNCHANGED vars
  BY <1>0, <1>1 DEF vars, leaseVars, hostVars
<1>2. ASSUME NEW c \in Clients, Connect(c) \/ Disconnect(c)
      PROVE  leases'[u].size = sizes'[u]
  BY <1>0, <1>2 DEF Connect, Disconnect, ReleaseTransportClient, leaseVars
<1>3. ASSUME NEW t \in Terminals, Start(t) \/ SpawnFailed(t) \/ Data(t) \/ Die(t)
      PROVE  leases'[u].size = sizes'[u]
  <2>1. UNCHANGED <<leases, sizes>>
    BY <1>3 DEF Start, SpawnFailed, Data, Die, leaseVars
  <2>2. process' = process \/ process' = [process EXCEPT ![t] = "dead"]
    BY <1>3 DEF Start, SpawnFailed, Data, Die
  <2> QED BY <1>0, <2>1, <2>2
<1>4. ASSUME NEW t \in Terminals, NEW size \in Sizes, Spawned(t, size)
      PROVE  leases'[u].size = sizes'[u]
  <2>1. leases[u] # None /\ u \in running /\ u # t
    BY <1>4 DEF Spawned, leaseVars, LeaseOnlyWhileRunning, RunningTerminals
  <2>2. leases' = leases /\ sizes'[u] = sizes[u] /\ process'[u] = process[u]
    BY <1>4, <2>1 DEF Spawned, leaseVars
  <2> QED BY <2>1, <2>2 DEF LeaseSizeIsPtySize
<1>5. ASSUME NEW t \in Terminals, Exit(t)
      PROVE  leases'[u].size = sizes'[u]
  <2>1. u # t /\ process[u] = "alive"
    BY <1>5 DEF Exit
  <2>2. leases'[u] = leases[u] /\ sizes' = sizes
    BY <1>5, <2>1 DEF Exit, ClearTerminal, EndLease, leaseVars
  <2> QED BY <2>1, <2>2 DEF LeaseSizeIsPtySize
<1>6. ASSUME NEW r \in Requests, NEW t \in Terminals,
             Stop(r, t) \/ ForceTimer(r) \/ FailureTimer(r)
      PROVE  leases'[u].size = sizes'[u]
  BY <1>0, <1>6 DEF Stop, ForceTimer, FailureTimer, leaseVars
<1>7. ASSUME NEW t \in Terminals, NEW d \in Devices, NEW o \in Owners,
             NEW takeover \in BOOLEAN, AcquireInputLease(t, d, o, takeover)
      PROVE  leases'[u].size = sizes'[u]
  <2>1. sizes' = sizes /\ process' = process
    BY <1>7 DEF AcquireInputLease, hostVars
  <2>2. CASE UNCHANGED leaseVars
    BY <1>0, <2>1, <2>2 DEF leaseVars
  <2>3. CASE Grant(t, d, o, sizes[t])
    <3>1. CASE u = t
      BY <2>1, <2>3, <3>1 DEF Grant
    <3>2. CASE u # t
      BY <2>1, <2>3, <3>2 DEF Grant, LeaseSizeIsPtySize
    <3> QED BY <3>1, <3>2
  <2> QED BY <1>7, <2>2, <2>3 DEF AcquireInputLease, Acquire
<1>8. ASSUME NEW t \in Terminals, NEW p \in granted[t], WriteInput(t, p) \/ LetGo(t, p)
      PROVE  leases'[u].size = sizes'[u]
  <2>1. leases'[u] = leases[u]
    BY <1>8 DEF WriteInput, LetGo, Write, Release, Park, EndLease, leaseVars
  <2>2. sizes' = sizes /\ process' = process
    BY <1>8 DEF WriteInput, LetGo, hostVars
  <2> QED BY <2>1, <2>2 DEF LeaseSizeIsPtySize
<1>9. ASSUME NEW t \in Terminals, NEW p \in granted[t], NEW size \in Sizes,
             ResizeTerminal(t, p, size)
      PROVE  leases'[u].size = sizes'[u]
  <2>1. process' = process
    BY <1>9 DEF ResizeTerminal
  <2>2. CASE ~Authorized(t, p)
    BY <1>0, <1>9, <2>1, <2>2 DEF ResizeTerminal, Resize, SetSize, leaseVars
  <2>3. CASE Authorized(t, p) /\ u # t
    <3>1. leases'[u] = leases[u] /\ sizes'[u] = sizes[u]
      BY <1>9, <2>3 DEF ResizeTerminal, Resize, SetSize, leaseVars
    <3> QED BY <2>1, <3>1 DEF LeaseSizeIsPtySize
  <2>4. CASE Authorized(t, p) /\ u = t
    <3>1. sizes'[t] = size
      BY <1>9, <2>1, <2>4 DEF ResizeTerminal
    <3>2. leases[t] \in Lease
      BY <2>4 DEF Authorized
    <3>3. leases'[t].size = size
      BY <1>9, <2>4, <3>2 DEF ResizeTerminal, Resize, SetSize, leaseVars, Lease
    <3> QED BY <2>4, <3>1, <3>3
  <2> QED BY <2>2, <2>3, <2>4
<1>10. CASE Shutdown
  BY <1>10 DEF Shutdown, Clear
<1>11. CASE ShutdownThrows
  BY <1>0, <1>11 DEF ShutdownThrows, leaseVars
<1> QED BY <1>1, <1>2, <1>3, <1>4, <1>5, <1>6, <1>7, <1>8, <1>9, <1>10, <1>11 DEF Next

\* Clients that skip a resize because the lease shows the size are right to.
THEOREM LeaseShowsPtySize == Spec => []LeaseSizeIsPtySize
<1>1. Init => LeaseSizeIsPtySize
  BY DEF Init, LeaseInit, LeaseSizeIsPtySize
<1> QED BY <1>1, SizeStep, HostInvariant, PTL DEF Spec

-----------------------------------------------------------------------------
(* One terminal for each Session, if a Session's starts do not overlap. *)

\* A spawn that is awaited is the only one of its Session, which has no running
\* terminal either.
SpawnsAreAlone ==
    \A t, u \in Terminals :
        starts[t] = "spawning" /\ SessionOf[u] = SessionOf[t] =>
            /\ u \notin running
            /\ starts[u] = "spawning" => u = t

LEMMA OneTerminalStep ==
    ASSUME SerialStarts, HostInv, OneTerminalPerSession, SpawnsAreAlone, [Next]_vars
    PROVE  OneTerminalPerSession' /\ SpawnsAreAlone'
<1> USE DEF HostInv, HostTypeOK, OneTerminalPerSession, SpawnsAreAlone
<1>0. ASSUME UNCHANGED <<starts, running, terminalBySession>>
      PROVE  OneTerminalPerSession' /\ SpawnsAreAlone'
  BY <1>0
<1>1. CASE UNCHANGED vars
  BY <1>0, <1>1 DEF vars, hostVars
<1>2. ASSUME NEW c \in Clients, Connect(c) \/ Disconnect(c)
      PROVE  OneTerminalPerSession' /\ SpawnsAreAlone'
  BY <1>0, <1>2 DEF Connect, Disconnect
<1>3. ASSUME NEW t \in Terminals, Data(t) \/ Die(t)
      PROVE  OneTerminalPerSession' /\ SpawnsAreAlone'
  BY <1>0, <1>3 DEF Data, Die
<1>4. ASSUME NEW t \in Terminals, Start(t)
      PROVE  OneTerminalPerSession' /\ SpawnsAreAlone'
  <2>1. /\ UNCHANGED <<running, terminalBySession>>
        /\ starts' = [starts EXCEPT ![t] = IF SessionIsFree(SessionOf[t])
                                           THEN "spawning" ELSE "refused"]
        /\ \A u \in Terminals : SessionOf[u] = SessionOf[t] => starts[u] # "spawning"
    BY <1>4 DEF Start
  <2>2. CASE SessionIsFree(SessionOf[t])
    <3>1. \A u \in running : SessionOf[u] # SessionOf[t]
      BY <2>2, NoTerminalAssumption DEF SessionIsFree
    <3> QED BY <2>1, <2>2, <3>1
  <2>3. CASE ~SessionIsFree(SessionOf[t])
    BY <2>1, <2>3
  <2> QED BY <2>2, <2>3
<1>5. ASSUME NEW t \in Terminals, SpawnFailed(t)
      PROVE  OneTerminalPerSession' /\ SpawnsAreAlone'
  BY <1>5 DEF SpawnFailed
<1>6. ASSUME NEW t \in Terminals, NEW size \in Sizes, Spawned(t, size)
      PROVE  OneTerminalPerSession' /\ SpawnsAreAlone'
  <2>1. /\ starts[t] = "spawning"
        /\ starts' = [starts EXCEPT ![t] = "started"]
        /\ running' = running \cup {t}
        /\ terminalBySession' = [terminalBySession EXCEPT ![SessionOf[t]] = t]
    BY <1>6 DEF Spawned
  <2>2. \A u \in Terminals : SessionOf[u] \in Sessions
    BY SessionAssumption
  <2> QED BY <2>1, <2>2
<1>7. ASSUME NEW t \in Terminals, Exit(t)
      PROVE  OneTerminalPerSession' /\ SpawnsAreAlone'
  <2>1. starts' = starts /\ running' = running \ {t}
    BY <1>7 DEF Exit
  <2>2. SpawnsAreAlone'
    BY <2>1
  <2>3. \A u \in running \ {t} : terminalBySession'[SessionOf[u]] = u
    <3>1. CASE t \in running
      <4>1. terminalBySession' = [terminalBySession EXCEPT ![SessionOf[t]] = None]
        BY <1>7, <3>1 DEF Exit
      <4>2. \A u \in running \ {t} : SessionOf[u] \in Sessions /\ SessionOf[u] # SessionOf[t]
        BY <3>1, SessionAssumption
      <4> QED BY <4>1, <4>2
    <3>2. CASE t \notin running
      BY <1>7, <3>2 DEF Exit
    <3> QED BY <3>1, <3>2
  <2> QED BY <2>1, <2>2, <2>3
<1>8. ASSUME NEW r \in Requests, NEW t \in Terminals, Stop(r, t)
      PROVE  OneTerminalPerSession' /\ SpawnsAreAlone'
  BY <1>0, <1>8 DEF Stop
<1>9. ASSUME NEW t \in Terminals, NEW d \in Devices, NEW o \in Owners,
             NEW takeover \in BOOLEAN, AcquireInputLease(t, d, o, takeover)
      PROVE  OneTerminalPerSession' /\ SpawnsAreAlone'
  BY <1>0, <1>9 DEF AcquireInputLease, hostVars
<1>10. ASSUME NEW t \in Terminals, NEW p \in granted[t], WriteInput(t, p) \/ LetGo(t, p)
       PROVE  OneTerminalPerSession' /\ SpawnsAreAlone'
  BY <1>0, <1>10 DEF WriteInput, LetGo, hostVars
<1>11. ASSUME NEW t \in Terminals, NEW p \in granted[t], NEW size \in Sizes,
              ResizeTerminal(t, p, size)
       PROVE  OneTerminalPerSession' /\ SpawnsAreAlone'
  BY <1>0, <1>11 DEF ResizeTerminal
<1>12. CASE Shutdown
  BY <1>12 DEF Shutdown
<1>13. CASE ShutdownThrows
  BY <1>0, <1>13 DEF ShutdownThrows
<1>14. ASSUME NEW r \in Requests, ForceTimer(r) \/ FailureTimer(r)
       PROVE  OneTerminalPerSession' /\ SpawnsAreAlone'
  BY <1>0, <1>14 DEF ForceTimer, FailureTimer
<1> QED BY <1>1, <1>2, <1>3, <1>4, <1>5, <1>6, <1>7, <1>8, <1>9, <1>10, <1>11, <1>12,
           <1>13, <1>14 DEF Next

\* As long as the clients never have two starts of a Session under way, a
\* Session has one running terminal and the Session map names it.
THEOREM SerialStartsKeepOneTerminal ==
    ASSUME SerialStarts PROVE Spec => []OneTerminalPerSession
<1>1. Init => OneTerminalPerSession /\ SpawnsAreAlone
  BY DEF Init, OneTerminalPerSession, SpawnsAreAlone
<1>2. HostInv /\ OneTerminalPerSession /\ SpawnsAreAlone /\ [Next]_vars
         => OneTerminalPerSession' /\ SpawnsAreAlone'
  BY OneTerminalStep
<1> QED BY <1>1, <1>2, HostInvariant, PTL DEF Spec

-----------------------------------------------------------------------------
(* What the Runtime owes to the clients of a terminal. *)

\* What the lease manager promises of events and of input, the Runtime keeps.
THEOREM HostKeepsLeasePromises ==
    Spec => /\ []ListenersKnowTheLease
            /\ GenerationsOrderObservations
            /\ InputsFollowTenures
BY HostImplementsLeases, ListenersFollow, EventsInGenerationOrder, InputsInTenureOrder
   DEF ImplementsLeases

\* A step of the lease manager that ends or changes a lease of t.
LEMMA LeaseChanges ==
    ASSUME HostInv, Next, NEW t \in Terminals, leases[t] # None, t \in running',
           ~(leases'[t] # None /\ leases'[t].leaseId = leases[t].leaseId)
    PROVE  \/ LetGo(t, ProofOf(leases[t]))
           \/ \E d \in Devices, o \in Owners : AcquireInputLease(t, d, o, TRUE)
<1> USE DEF HostInv, LeaseInv, LeaseTypeOK
<1>0. leases'[t] # leases[t]
  OBVIOUS
<1>1. ASSUME NEW u \in Terminals, NEW p \in granted[u], LetGo(u, p)
      PROVE  LetGo(t, ProofOf(leases[t]))
  <2>1. Authorized(u, p) /\ u = t
    BY <1>0, <1>1 DEF LetGo, Release, Park, EndLease, leaseVars
  <2>2. p = ProofOf(leases[t])
    BY <2>1 DEF Authorized, SameControl, LeaseIsNewest, GrantsAreNumbered, ProofOf
  <2> QED BY <1>1, <2>1, <2>2
<1>2. ASSUME NEW u \in Terminals, NEW d \in Devices, NEW o \in Owners,
             NEW takeover \in BOOLEAN, AcquireInputLease(u, d, o, takeover)
      PROVE  AcquireInputLease(t, d, o, TRUE)
  <2>1. ~UNCHANGED leaseVars
    BY <1>0 DEF leaseVars
  <2>2. u = t /\ takeover = TRUE
    BY <1>0, <1>2, <2>1 DEF AcquireInputLease, Acquire, Grant, MayAcquire
  <2> QED BY <1>2, <2>2
<1>3. ASSUME NEW u \in Terminals, NEW p \in granted[u], NEW size \in Sizes,
             ResizeTerminal(u, p, size)
      PROVE  FALSE
  <2>1. SetSize(u, size) /\ u = t
    BY <1>0, <1>3 DEF ResizeTerminal, Resize, SetSize, leaseVars
  <2>2. leases[t] \in Lease /\ leases'[t] = [leases[t] EXCEPT !.size = size]
    BY <2>1 DEF SetSize
  <2>3. leases'[t] \in Lease /\ leases'[t].leaseId = leases[t].leaseId
    BY <2>2 DEF Lease
  <2> QED BY <2>3, NoneAssumption
<1>4. ASSUME NEW u \in Terminals, NEW p \in granted[u], WriteInput(u, p)
      PROVE  FALSE
  BY <1>0, <1>4 DEF WriteInput, Write, leaseVars
<1>5. ASSUME NEW u \in Terminals, Exit(u)
      PROVE  FALSE
  <2>1. u = t /\ running' = running \ {u}
    BY <1>0, <1>5 DEF Exit, ClearTerminal, EndLease, leaseVars
  <2> QED BY <2>1
<1>6. ASSUME Shutdown PROVE FALSE
  BY <1>6 DEF Shutdown
<1>7. ASSUME NEW c \in Clients, Connect(c) \/ Disconnect(c)
      PROVE  FALSE
  BY <1>0, <1>7 DEF Connect, Disconnect, ReleaseTransportClient, leaseVars
<1>8. ASSUME NEW u \in Terminals, Start(u) \/ SpawnFailed(u) \/ Data(u) \/ Die(u)
      PROVE  FALSE
  BY <1>0, <1>8 DEF Start, SpawnFailed, Data, Die, leaseVars
<1>9. ASSUME NEW u \in Terminals, NEW size \in Sizes, Spawned(u, size)
      PROVE  FALSE
  BY <1>0, <1>9 DEF Spawned, leaseVars
<1>10. ASSUME NEW r \in Requests, NEW u \in Terminals, Stop(r, u)
       PROVE  FALSE
  BY <1>0, <1>10 DEF Stop, leaseVars
<1>11. ASSUME NEW r \in Requests, ForceTimer(r) \/ FailureTimer(r)
       PROVE  FALSE
  BY <1>0, <1>11 DEF ForceTimer, FailureTimer, leaseVars
<1>12. ASSUME ShutdownThrows PROVE FALSE
  BY <1>0, <1>12 DEF ShutdownThrows, leaseVars
<1> QED BY <1>1, <1>2, <1>3, <1>4, <1>5, <1>6, <1>7, <1>8, <1>9, <1>10, <1>11, <1>12
        DEF Next

\* A lease of a terminal that runs on is only ended by its holder's proof, or by
\* another Device that asks to take over: no exit of another terminal, transport
\* that ends or resize does.
THEOREM LeasesEndByDesign == Spec => LeaseEndsByDesign
<1>1. HostInv /\ [Next]_vars =>
        [\A t \in Terminals :
           (leases[t] # None /\ t \in running') =>
              \/ leases'[t] # None /\ leases'[t].leaseId = leases[t].leaseId
              \/ LetGo(t, ProofOf(leases[t]))
              \/ \E d \in Devices, o \in Owners : AcquireInputLease(t, d, o, TRUE)]_leases
  BY LeaseChanges DEF vars, leaseVars
<1> QED BY <1>1, HostInvariant, PTL DEF Spec, LeaseEndsByDesign

-----------------------------------------------------------------------------
\* A socket is at the point that broadcast has reached, or was not told anything
\* yet; what it was told of is a terminal that started.
SocketsFollow ==
    \A c \in Clients, t \in Terminals : c \in sockets =>
        /\ starts[t] # "started" => seen[c][t] = Unseen
        /\ t \in running /\ seen[c][t].seq # 0 => seen[c][t].seq = outputSequence[t]
        /\ seen[c][t].exited => t \notin running

\* How a step moves what the sockets were told.
Follows(c, t) ==
    /\ seen[c][t].seq # 0 =>
         seen'[c][t].seq \in {seen[c][t].seq, seen[c][t].seq + 1}
    /\ seen[c][t].exited => seen'[c][t] = seen[c][t]

LEMMA SocketStep ==
    ASSUME HostInv, SocketsFollow, [Next]_vars
    PROVE  /\ SocketsFollow'
           /\ \A c \in sockets, t \in Terminals : c \in sockets' => Follows(c, t)
<1> USE DEF HostInv, HostTypeOK
<1>0. ASSUME UNCHANGED <<starts, running, outputSequence, seen>>, sockets' \subseteq sockets
      PROVE  /\ SocketsFollow'
             /\ \A c \in sockets, t \in Terminals : c \in sockets' => Follows(c, t)
  BY <1>0 DEF SocketsFollow, Follows
<1>1. CASE UNCHANGED vars
  BY <1>0, <1>1 DEF vars, hostVars
<1>2. ASSUME NEW c \in Clients, Connect(c)
      PROVE  /\ SocketsFollow'
             /\ \A e \in sockets, t \in Terminals : e \in sockets' => Follows(e, t)
  <2>1. /\ c \notin sockets /\ sockets' = sockets \cup {c}
        /\ seen' = [seen EXCEPT ![c] = [t \in Terminals |-> Unseen]]
        /\ UNCHANGED <<starts, running, outputSequence>>
    BY <1>2 DEF Connect
  <2>2. /\ \A t \in Terminals : seen'[c][t] = Unseen
        /\ \A e \in Clients \ {c} : seen'[e] = seen[e]
    BY <2>1
  <2>3. Unseen.seq = 0 /\ Unseen.exited = FALSE
    BY DEF Unseen
  <2>4. SocketsFollow'
    BY <2>1, <2>2, <2>3 DEF SocketsFollow
  <2>5. \A e \in sockets, t \in Terminals : Follows(e, t)
    BY <2>1, <2>2 DEF Follows
  <2> QED BY <2>4, <2>5
<1>3. ASSUME NEW c \in Clients, Disconnect(c)
      PROVE  /\ SocketsFollow'
             /\ \A e \in sockets, t \in Terminals : e \in sockets' => Follows(e, t)
  BY <1>0, <1>3 DEF Disconnect
<1>4. ASSUME NEW u \in Terminals, Start(u) \/ SpawnFailed(u)
      PROVE  /\ SocketsFollow'
             /\ \A c \in sockets, t \in Terminals : c \in sockets' => Follows(c, t)
  <2>1. UNCHANGED <<sockets, running, outputSequence, seen>>
    BY <1>4 DEF Start, SpawnFailed
  <2>2. \A t \in Terminals : starts[t] = "started" => starts'[t] = "started"
    BY <1>4 DEF Start, SpawnFailed
  <2> QED BY <2>1, <2>2 DEF SocketsFollow, Follows
<1>5. ASSUME NEW u \in Terminals, Die(u)
      PROVE  /\ SocketsFollow'
             /\ \A c \in sockets, t \in Terminals : c \in sockets' => Follows(c, t)
  BY <1>0, <1>5 DEF Die
<1>6. ASSUME NEW u \in Terminals, Data(u)
      PROVE  /\ SocketsFollow'
             /\ \A c \in sockets, t \in Terminals : c \in sockets' => Follows(c, t)
  <2>1. UNCHANGED <<sockets, starts, running>>
    BY <1>6 DEF Data
  <2>2. CASE u \in running
    <3>1. /\ outputSequence' = [outputSequence EXCEPT ![u] = @ + 1]
          /\ seen' = [c \in Clients |->
                        IF c \in sockets
                        THEN [seen[c] EXCEPT ![u].seq = outputSequence[u] + 1]
                        ELSE seen[c]]
      BY <1>6, <2>2 DEF Data, BroadcastOutput
    <3>2. ASSUME NEW c \in sockets, NEW t \in Terminals
          PROVE  IF t = u THEN /\ seen'[c][t].seq = outputSequence[u] + 1
                               /\ seen'[c][t].exited = seen[c][t].exited
                 ELSE seen'[c][t] = seen[c][t]
      BY <3>1
    <3>3. starts[u] = "started"
      BY <2>2 DEF RunningTerminals
    <3>4. outputSequence[u] \in Nat /\ outputSequence'[u] = outputSequence[u] + 1
      BY <3>1
    <3>5. SocketsFollow'
      BY <2>1, <2>2, <3>1, <3>2, <3>3 DEF SocketsFollow
    <3>6. \A c \in sockets, t \in Terminals : Follows(c, t)
      BY <2>2, <3>2 DEF SocketsFollow, Follows
    <3> QED BY <3>5, <3>6
  <2>3. CASE u \notin running
    BY <1>0, <1>6, <2>1, <2>3 DEF Data
  <2> QED BY <2>2, <2>3
<1>7. ASSUME NEW u \in Terminals, Exit(u)
      PROVE  /\ SocketsFollow'
             /\ \A c \in sockets, t \in Terminals : c \in sockets' => Follows(c, t)
  <2>1. UNCHANGED <<sockets, starts>>
    BY <1>7 DEF Exit
  <2>2. CASE u \in running
    <3>1. /\ outputSequence' = [outputSequence EXCEPT ![u] = 0]
          /\ running' = running \ {u}
          /\ seen' = [c \in Clients |->
                        IF c \in sockets
                        THEN [seen[c] EXCEPT ![u].exited = TRUE] ELSE seen[c]]
      BY <1>7, <2>2 DEF Exit, BroadcastExit
    <3>2. ASSUME NEW c \in sockets, NEW t \in Terminals
          PROVE  IF t = u THEN seen'[c][t].seq = seen[c][t].seq
                 ELSE seen'[c][t] = seen[c][t]
      BY <3>1
    <3>3. starts[u] = "started"
      BY <2>2 DEF RunningTerminals
    <3>4. SocketsFollow'
      BY <2>1, <2>2, <3>1, <3>2, <3>3 DEF SocketsFollow
    <3>5. \A c \in sockets, t \in Terminals : Follows(c, t)
      BY <2>2, <3>2 DEF SocketsFollow, Follows
    <3> QED BY <3>4, <3>5
  <2>3. CASE u \notin running
    BY <1>0, <1>7, <2>1, <2>3 DEF Exit
  <2> QED BY <2>2, <2>3
<1>8. ASSUME NEW u \in Terminals, NEW size \in Sizes, Spawned(u, size)
      PROVE  /\ SocketsFollow'
             /\ \A c \in sockets, t \in Terminals : c \in sockets' => Follows(c, t)
  <2>1. /\ starts[u] = "spawning" /\ starts' = [starts EXCEPT ![u] = "started"]
        /\ running' = running \cup {u}
        /\ outputSequence' = [outputSequence EXCEPT ![u] = 0]
        /\ UNCHANGED <<sockets, seen>>
    BY <1>8 DEF Spawned
  <2>2. \A c \in Clients : c \in sockets => seen[c][u] = Unseen
    BY <2>1 DEF SocketsFollow
  <2>3. Unseen.seq = 0 /\ Unseen.exited = FALSE
    BY DEF Unseen
  <2> QED BY <2>1, <2>2, <2>3 DEF SocketsFollow, Follows
<1>9. CASE Shutdown
  BY <1>9 DEF Shutdown, SocketsFollow, Follows
<1>10. ASSUME NEW r \in Requests, NEW u \in Terminals, Stop(r, u)
       PROVE  UNCHANGED <<sockets, starts, running, outputSequence, seen>>
  BY <1>10 DEF Stop
<1>11. ASSUME NEW u \in Terminals, NEW d \in Devices, NEW o \in Owners,
              NEW takeover \in BOOLEAN, AcquireInputLease(u, d, o, takeover)
       PROVE  UNCHANGED <<sockets, starts, running, outputSequence, seen>>
  BY <1>11 DEF AcquireInputLease, hostVars
<1>12. ASSUME NEW u \in Terminals, NEW p \in granted[u], WriteInput(u, p) \/ LetGo(u, p)
       PROVE  UNCHANGED <<sockets, starts, running, outputSequence, seen>>
  BY <1>12 DEF WriteInput, LetGo, hostVars
<1>13. ASSUME NEW u \in Terminals, NEW p \in granted[u], NEW size \in Sizes,
              ResizeTerminal(u, p, size)
       PROVE  UNCHANGED <<sockets, starts, running, outputSequence, seen>>
  BY <1>13 DEF ResizeTerminal
<1>14. ASSUME ShutdownThrows
       PROVE  UNCHANGED <<sockets, starts, running, outputSequence, seen>>
  BY <1>14 DEF ShutdownThrows
<1>15. ASSUME NEW r \in Requests, ForceTimer(r) \/ FailureTimer(r)
       PROVE  UNCHANGED <<sockets, starts, running, outputSequence, seen>>
  BY <1>15 DEF ForceTimer, FailureTimer
<1> QED BY <1>0, <1>1, <1>2, <1>3, <1>4, <1>5, <1>6, <1>7, <1>8, <1>9, <1>10, <1>11,
           <1>12, <1>13, <1>14, <1>15 DEF Next

\* A client that stays connected is told of a terminal's output without gaps or
\* repeats, and of nothing after its exit, for any number of clients, terminals
\* and restarts of a Session (broadcast, the data and exit listeners of start).
THEOREM ClientsFollowOutput == Spec => ClientsSeeOrderedOutput
<1>1. Init => SocketsFollow
  BY DEF Init, SocketsFollow
<1>2. HostInv /\ SocketsFollow /\ [Next]_vars => SocketsFollow'
  BY SocketStep
<1>3. HostInv /\ SocketsFollow /\ [Next]_vars =>
        [\A c \in sockets, t \in Terminals :
           c \in sockets' =>
              /\ seen[c][t].seq # 0 =>
                   seen'[c][t].seq \in {seen[c][t].seq, seen[c][t].seq + 1}
              /\ seen[c][t].exited => seen'[c][t] = seen[c][t]]_seen
  BY SocketStep DEF Follows
<1> QED BY <1>1, <1>2, <1>3, HostInvariant, PTL DEF Spec, ClientsSeeOrderedOutput
=============================================================================
