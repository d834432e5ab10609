----------------------------- MODULE RuntimeHost -----------------------------
(***************************************************************************)
(* RuntimeHost (apps/runtime/src), the Environment Runtime: the process    *)
(* that owns every PTY and outlives the servers and clients that use it.   *)
(*                                                                         *)
(* A start request checks that the Session is free, awaits the spawn, and  *)
(* only then enters the terminal in the maps.  A PTY process may exit by   *)
(* itself or after a signal, and its exit event comes later than its       *)
(* death.  stop signals the process, escalates to SIGKILL after one timer  *)
(* and gives up after another.  Leases are TerminalInputLease's; this      *)
(* module adds the guards and the calls of RuntimeHost's handlers.         *)
(*                                                                         *)
(* Everything between two awaits is one action: the Runtime is one         *)
(* JavaScript thread.  The terminal's text, its cwd and its retained       *)
(* history are left out.                                                   *)
(***************************************************************************)
EXTENDS TerminalInputLease, FiniteSets

CONSTANTS
    Sessions,      \* Session ids
    SessionOf,     \* the Session a terminal is started for
    Clients,       \* control connections
    Requests,      \* stop requests
    MaxChunks,     \* bound on a process's output, for TLC
    SerialStarts   \* TRUE: clients start a Session once at a time

ASSUME SessionAssumption == SessionOf \in [Terminals -> Sessions]
ASSUME NoTerminalAssumption == None \notin Terminals
ASSUME HostBounds == MaxChunks \in Nat /\ SerialStarts \in BOOLEAN

VARIABLES
    open,               \* the server listens
    sockets,            \* connected clients
    starts,             \* starts[t]: what became of the start request of t
    running,            \* the keys of the terminals map
    terminalBySession,  \* the map, None where a Session has no entry
    outputSequence,     \* outputSequence[t]; 0 where deleted
    sizes,              \* sizes[t]: cols and rows of t's state
    process,            \* process[t]: t's PTY process
    signalled,          \* signalled[t]: the strongest signal it was sent
    chunks,             \* how many chunks t's process has emitted
    stops,              \* stops[r]: the terminal and the stage of a stop
    seen                \* seen[c][t]: output and exit events written to c's
                        \* socket about t since c connected

hostVars == <<open, sockets, starts, running, terminalBySession, outputSequence,
              sizes, process, signalled, chunks, stops, seen>>
vars == <<leaseVars, hostVars>>

StopStages == {"idle", "waiting", "forced", "stopped", "failed"}

HostTypeOK ==
    /\ open \in BOOLEAN
    /\ sockets \subseteq Clients
    /\ starts \in [Terminals -> {"unused", "spawning", "started", "refused", "failed"}]
    /\ running \subseteq Terminals
    /\ terminalBySession \in [Sessions -> Terminals \cup {None}]
    /\ outputSequence \in [Terminals -> Nat]
    /\ sizes \in [Terminals -> Sizes \cup {None}]
    /\ process \in [Terminals -> {"none", "alive", "dead", "exited"}]
    /\ signalled \in [Terminals -> {"none", "SIGHUP", "SIGKILL"}]
    /\ chunks \in [Terminals -> Nat]
    /\ stops \in [Requests -> [terminal : Terminals \cup {None}, stage : StopStages]]
    /\ seen \in [Clients -> [Terminals -> [seq : Nat, exited : BOOLEAN]]]

TypeOK == LeaseTypeOK /\ HostTypeOK

Unseen == [seq |-> 0, exited |-> FALSE]

Init ==
    /\ LeaseInit
    /\ open = TRUE
    /\ sockets = {}
    /\ starts = [t \in Terminals |-> "unused"]
    /\ running = {}
    /\ terminalBySession = [s \in Sessions |-> None]
    /\ outputSequence = [t \in Terminals |-> 0]
    /\ sizes = [t \in Terminals |-> None]
    /\ process = [t \in Terminals |-> "none"]
    /\ signalled = [t \in Terminals |-> "none"]
    /\ chunks = [t \in Terminals |-> 0]
    /\ stops = [r \in Requests |-> [terminal |-> None, stage |-> "idle"]]
    /\ seen = [c \in Clients |-> [t \in Terminals |-> Unseen]]

-----------------------------------------------------------------------------
(* Connections *)

Connect(c) ==
    /\ open
    /\ c \notin sockets
    /\ sockets' = sockets \cup {c}
    /\ seen' = [seen EXCEPT ![c] = [t \in Terminals |-> Unseen]]
    /\ UNCHANGED <<leaseVars, open, starts, running, terminalBySession,
                   outputSequence, sizes, process, signalled, chunks, stops>>

\* releaseSocket, on end, close or error of the socket.
Disconnect(c) ==
    /\ c \in sockets
    /\ sockets' = sockets \ {c}
    /\ ReleaseTransportClient
    /\ UNCHANGED <<open, starts, running, terminalBySession, outputSequence,
                   sizes, process, signalled, chunks, stops, seen>>

\* broadcast: an event of t, written to every connected socket.
BroadcastOutput(t, seq) ==
    seen' = [c \in Clients |-> IF c \in sockets
                               THEN [seen[c] EXCEPT ![t].seq = seq] ELSE seen[c]]
BroadcastExit(t) ==
    seen' = [c \in Clients |-> IF c \in sockets
                               THEN [seen[c] EXCEPT ![t].exited = TRUE] ELSE seen[c]]

-----------------------------------------------------------------------------
(* start *)

\* Fault: start without the check of the Session map.
BugSessionNotChecked(s) == TRUE

SessionIsFree(s) == terminalBySession[s] = None

\* Up to the await of the spawn.
Start(t) ==
    /\ open
    /\ starts[t] = "unused"
    /\ SerialStarts => \A u \in Terminals : SessionOf[u] = SessionOf[t]
                                              => starts[u] # "spawning"
    /\ starts' = [starts EXCEPT ![t] =
                    IF SessionIsFree(SessionOf[t]) THEN "spawning" ELSE "refused"]
    /\ UNCHANGED <<leaseVars, open, sockets, running, terminalBySession,
                   outputSequence, sizes, process, signalled, chunks, stops, seen>>

\* After the await: the terminal is entered in the maps.
Spawned(t, size) ==
    /\ starts[t] = "spawning"
    /\ starts' = [starts EXCEPT ![t] = "started"]
    /\ process' = [process EXCEPT ![t] = "alive"]
    /\ running' = running \cup {t}
    /\ terminalBySession' = [terminalBySession EXCEPT ![SessionOf[t]] = t]
    /\ outputSequence' = [outputSequence EXCEPT ![t] = 0]
    /\ sizes' = [sizes EXCEPT ![t] = size]
    /\ UNCHANGED <<leaseVars, open, sockets, signalled, chunks, stops, seen>>

SpawnFailed(t) ==
    /\ starts[t] = "spawning"
    /\ starts' = [starts EXCEPT ![t] = "failed"]
    /\ UNCHANGED <<leaseVars, open, sockets, running, terminalBySession,
                   outputSequence, sizes, process, signalled, chunks, stops, seen>>

-----------------------------------------------------------------------------
(* The PTY process and its events *)

\* Fault: the data listener does not ask whether the terminal still runs.
BugDataAfterExit(t) ==
    /\ process[t] # "none"
    /\ chunks[t] < MaxChunks
    /\ chunks' = [chunks EXCEPT ![t] = @ + 1]
    /\ outputSequence' = [outputSequence EXCEPT ![t] = @ + 1]
    /\ BroadcastOutput(t, outputSequence[t] + 1)
    /\ UNCHANGED <<leaseVars, open, sockets, starts, running, terminalBySession,
                   sizes, process, signalled, stops>>

\* Output may come until, and even after, the exit event.
Data(t) ==
    /\ process[t] # "none"
    /\ chunks[t] < MaxChunks
    /\ chunks' = [chunks EXCEPT ![t] = @ + 1]
    /\ IF t \in running
       THEN /\ outputSequence' = [outputSequence EXCEPT ![t] = @ + 1]
            /\ BroadcastOutput(t, outputSequence[t] + 1)
       ELSE UNCHANGED <<outputSequence, seen>>
    /\ UNCHANGED <<leaseVars, open, sockets, starts, running, terminalBySession,
                   sizes, process, signalled, stops>>

\* The process ends, by itself or signalled; its exit event is still to come.
Die(t) ==
    /\ process[t] = "alive"
    /\ process' = [process EXCEPT ![t] = "dead"]
    /\ UNCHANGED <<leaseVars, open, sockets, starts, running, terminalBySession,
                   outputSequence, sizes, signalled, chunks, stops, seen>>

\* Fault: the exit listener never runs its cleanup.
BugExitForgetsTerminal(t) ==
    /\ process[t] = "dead"
    /\ process' = [process EXCEPT ![t] = "exited"]
    /\ UNCHANGED <<leaseVars, open, sockets, starts, running, terminalBySession,
                   outputSequence, sizes, signalled, chunks, stops, seen>>

\* The exit listeners: start's cleanup first, then onExit of every stop that
\* waits for the process.
Exit(t) ==
    /\ process[t] = "dead"
    /\ process' = [process EXCEPT ![t] = "exited"]
    /\ IF t \in running
       THEN /\ running' = running \ {t}
            /\ terminalBySession' = [terminalBySession EXCEPT ![SessionOf[t]] = None]
            /\ outputSequence' = [outputSequence EXCEPT ![t] = 0]
            /\ ClearTerminal(t)
            /\ BroadcastExit(t)
       ELSE UNCHANGED <<leaseVars, running, terminalBySession, outputSequence, seen>>
    /\ stops' = [r \in Requests |->
                   IF stops[r].terminal = t /\ stops[r].stage \in {"waiting", "forced"}
                   THEN [stops[r] EXCEPT !.stage = "stopped"]
                   ELSE stops[r]]
    /\ UNCHANGED <<open, sockets, starts, sizes, signalled, chunks>>

-----------------------------------------------------------------------------
(* stop: stopAndAwait.  A kill may throw, which fails the stop at once. *)

Settle(r, t, stage) == stops' = [stops EXCEPT ![r] = [terminal |-> t, stage |-> stage]]

\* kill() sends the default signal; a SIGKILL sent earlier stays the strongest.
Hangup(T) ==
    signalled' = [t \in Terminals |-> IF t \in T /\ signalled[t] = "none"
                                      THEN "SIGHUP" ELSE signalled[t]]

\* Fault: a stop is acknowledged once the signal is sent.
BugStopAcknowledgesKill(r, t) ==
    /\ open
    /\ stops[r].stage = "idle"
    /\ starts[t] = "started"
    /\ Settle(r, t, "stopped")
    /\ Hangup({t})
    /\ UNCHANGED <<leaseVars, open, sockets, starts, running, terminalBySession,
                   outputSequence, sizes, process, chunks, seen>>

\* A client names a terminal it knows from the start response or the list.
Stop(r, t) ==
    /\ open
    /\ stops[r].stage = "idle"
    /\ starts[t] = "started"
    /\ \/ t \notin running /\ Settle(r, t, "stopped") /\ UNCHANGED signalled
       \/ t \in running /\ Settle(r, t, "waiting") /\ Hangup({t})
       \/ t \in running /\ Settle(r, t, "failed") /\ UNCHANGED signalled
    /\ UNCHANGED <<leaseVars, open, sockets, starts, running, terminalBySession,
                   outputSequence, sizes, process, chunks, seen>>

ForceTimer(r) ==
    /\ stops[r].stage = "waiting"
    /\ \/ /\ Settle(r, stops[r].terminal, "forced")
          /\ signalled' = [signalled EXCEPT ![stops[r].terminal] = "SIGKILL"]
       \/ /\ Settle(r, stops[r].terminal, "failed")
          /\ UNCHANGED signalled
    /\ UNCHANGED <<leaseVars, open, sockets, starts, running, terminalBySession,
                   outputSequence, sizes, process, chunks, seen>>

\* Fault: no failure timer.
BugFailureTimerMissing(r) == FALSE /\ UNCHANGED vars

FailureTimer(r) ==
    /\ stops[r].stage = "forced"
    /\ Settle(r, stops[r].terminal, "failed")
    /\ UNCHANGED <<leaseVars, open, sockets, starts, running, terminalBySession,
                   outputSequence, sizes, process, signalled, chunks, seen>>

-----------------------------------------------------------------------------
(* Session Control requests: requireTerminal, then the lease manager *)

AcquireInputLease(t, d, o, takeover) ==
    /\ open
    /\ t \in running
    /\ Acquire(t, d, o, takeover, sizes[t])
    /\ UNCHANGED hostVars

\* Fault: write without authorizeControl.
BugWriteWithoutProof(t, p) ==
    /\ open
    /\ t \in running
    /\ inputs' = [inputs EXCEPT ![t] = p.generation]
    /\ UNCHANGED <<hostVars, leases, affinities, generations, issued, published, granted>>

WriteInput(t, p) ==
    /\ open
    /\ t \in running
    /\ Write(t, p)
    /\ UNCHANGED hostVars

\* Fault: resize does not write the size back to the terminal's state.
BugResizeLeaseOnly(t, p, size) ==
    /\ open
    /\ t \in running
    /\ Resize(t, p, size)
    /\ UNCHANGED hostVars

\* The lease takes the new size before the PTY does, and the PTY of a process
\* that is gone may refuse it.
ResizeTerminal(t, p, size) ==
    /\ open
    /\ t \in running
    /\ Resize(t, p, size)
    /\ \/ Authorized(t, p) /\ sizes' = [sizes EXCEPT ![t] = size]
       \/ Authorized(t, p) /\ process[t] = "dead" /\ UNCHANGED sizes
       \/ ~Authorized(t, p) /\ UNCHANGED sizes
    /\ UNCHANGED <<open, sockets, starts, running, terminalBySession,
                   outputSequence, process, signalled, chunks, stops, seen>>

\* releaseInputLease and parkInputLease do not ask whether t is running.
LetGo(t, p) ==
    /\ open
    /\ Release(t, p) \/ Park(t, p)
    /\ UNCHANGED hostVars

-----------------------------------------------------------------------------
(* shutdown *)

Shutdown ==
    /\ open
    /\ open' = FALSE
    /\ Hangup(running)
    /\ running' = {}
    /\ terminalBySession' = [s \in Sessions |-> None]
    /\ outputSequence' = [t \in Terminals |-> 0]
    /\ Clear
    /\ sockets' = {}
    /\ UNCHANGED <<starts, sizes, process, chunks, stops, seen>>

\* A kill that throws leaves the rest of shutdown undone.
ShutdownThrows ==
    /\ open
    /\ \E T \in SUBSET running : T # running /\ Hangup(T)
    /\ UNCHANGED <<leaseVars, open, sockets, starts, running, terminalBySession,
                   outputSequence, sizes, process, chunks, stops, seen>>

-----------------------------------------------------------------------------
Next ==
    \/ \E c \in Clients : Connect(c) \/ Disconnect(c)
    \/ \E t \in Terminals : Start(t) \/ SpawnFailed(t) \/ Data(t) \/ Die(t) \/ Exit(t)
    \/ \E t \in Terminals, size \in Sizes : Spawned(t, size)
    \/ \E r \in Requests, t \in Terminals : Stop(r, t)
    \/ \E r \in Requests : ForceTimer(r) \/ FailureTimer(r)
    \/ \E t \in Terminals, d \in Devices, o \in Owners, takeover \in BOOLEAN :
          AcquireInputLease(t, d, o, takeover)
    \/ \E t \in Terminals : \E p \in granted[t] : WriteInput(t, p) \/ LetGo(t, p)
    \/ \E t \in Terminals : \E p \in granted[t], size \in Sizes : ResizeTerminal(t, p, size)
    \/ Shutdown
    \/ ShutdownThrows

Spec == Init /\ [][Next]_vars

\* Timers fire and node-pty reports the exit of a process that has ended.
TimerFairness ==
    /\ \A r \in Requests : WF_vars(ForceTimer(r)) /\ WF_vars(FailureTimer(r))
    /\ \A t \in Terminals : WF_vars(Exit(t))

\* The operating system ends a process it was told to kill; a process may
\* ignore the first signal for ever.
KillFairness == \A t \in Terminals : WF_vars(signalled[t] = "SIGKILL" /\ Die(t))

TimerSpec == Spec /\ TimerFairness
-----------------------------------------------------------------------------
(***************************************************************************)
(* The properties.                                                         *)
(***************************************************************************)
\* A lease never outlives its terminal's place in the terminals map: exit and
\* shutdown end it, and no request that was on its way brings it back.
LeaseOnlyWhileRunning == \A t \in Terminals : leases[t] # None => t \in running

\* The Session map never names a terminal that is gone, or another Session's:
\* a start is refused only because of a terminal that really runs.
SessionMapIsSound ==
    \A s \in Sessions : terminalBySession[s] # None =>
        /\ terminalBySession[s] \in running
        /\ SessionOf[terminalBySession[s]] = s

\* The acknowledgement of a stop means that the PTY has exited and that its
\* Session may be started again, as far as this terminal is concerned
\* (RuntimeHost.test.ts:651).
AckMeansStopped ==
    \A r \in Requests : stops[r].stage = "stopped" =>
        LET t == stops[r].terminal
        IN  /\ process[t] = "exited"
            /\ t \notin running
            /\ terminalBySession[SessionOf[t]] # t

\* The size in the lease is the size of the PTY, for as long as there is a
\* PTY to have a size: clients skip a resize when their lease shows the size.
LeaseSizeIsPtySize ==
    \A t \in Terminals : leases[t] # None /\ process[t] = "alive"
        => leases[t].size = sizes[t]

\* A client that stays connected sees the output of a terminal without gaps or
\* repeats, and no output and no second exit after its exit.
ClientsSeeOrderedOutput ==
    [][\A c \in sockets, t \in Terminals :
         c \in sockets' =>
            /\ seen[c][t].seq # 0 =>
                 seen'[c][t].seq \in {seen[c][t].seq, seen[c][t].seq + 1}
            /\ seen[c][t].exited => seen'[c][t] = seen[c][t]]_seen

\* "It remains authoritative across Client, tab, and transport inactivity until
\* explicit release, Terminal exit, Environment Runtime shutdown, or takeover"
\* (CONTEXT.md): nothing else ends a lease or changes who holds it.
LeaseEndsByDesign ==
    [][\A t \in Terminals :
         (leases[t] # None /\ t \in running') =>
            \/ leases'[t] # None /\ leases'[t].leaseId = leases[t].leaseId
            \/ LetGo(t, ProofOf(leases[t]))
            \/ \E d \in Devices, o \in Owners : AcquireInputLease(t, d, o, TRUE)]_leases

\* A Session has one running terminal, the one the Session map names: no start
\* slips in beside it, and no exit forgets it.  It needs SerialStarts.
OneTerminalPerSession ==
    \A t \in running : terminalBySession[SessionOf[t]] = t

\* The lease binds "one Session to one controlling Soloe Device" (CONTEXT.md).
OneControllerPerSession ==
    \A t, u \in Terminals :
        SessionOf[t] = SessionOf[u] /\ leases[t] # None /\ leases[u] # None
            => leases[t].controller = leases[u].controller

\* The Runtime adds guards to the lease manager and breaks none of its promises.
ImplementsLeases == LeaseSpec

\* A stop is always answered, unless the Runtime goes away first, even when the
\* process survives every signal.
StopIsAnswered ==
    \A r \in Requests :
        stops[r].stage \in {"waiting", "forced"}
            ~> (stops[r].stage \in {"stopped", "failed"} \/ ~open)

\* A stop that came as far as SIGKILL frees the terminal, whether it was
\* answered in time or not, provided that the operating system does its part.
ForcedStopEndsTerminal ==
    KillFairness =>
        \A t \in Terminals : signalled[t] = "SIGKILL" ~> t \notin running
=============================================================================
