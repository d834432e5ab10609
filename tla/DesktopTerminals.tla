--------------------------- MODULE DesktopTerminals ---------------------------
(***************************************************************************)
(* How the desktop process and the Environment Runtime agree on which      *)
(* terminals run (PtyManager.ts on RemoteRuntimePtyProcessFactory.ts, over *)
(* one RuntimeClient socket).  The desktop starts, stops and restarts the  *)
(* terminals of Sessions; the Runtime owns the processes, which outlive    *)
(* the desktop: a desktop that starts again takes them over.               *)
(*                                                                         *)
(* A terminal id is given to one start call only, so a member of Terminals *)
(* stands for a call of start (or restart) and for the terminal it makes.  *)
(* The desktop runs on one thread: the continuation of a promise runs      *)
(* before the next timer or call, but after the frames that came in the    *)
(* same chunk of the socket.  Output is left out: the factory drops that   *)
(* of a terminal it does not know yet, and snapshots make up for it.       *)
(***************************************************************************)
EXTENDS Naturals, Sequences, FiniteSets, SequencesExt

CONSTANTS Sessions, Terminals, None,
          Providers, ProviderOf,  \* [Sessions -> provider of its agent, or None]
          MaxLaunches             \* bounds how often the desktop starts

ASSUME DesktopAssumption ==
  /\ None \notin Sessions /\ None \notin Terminals
  /\ ProviderOf \in [Sessions -> Providers \cup {None}]
  /\ MaxLaunches \in Nat

VARIABLES
  \* the Runtime
  process,       \* [Terminals -> {"none", "running", "ended"}]
  killed,        \* processes that were sent their signal
  spawning,      \* starts that await their spawn
  bySession,     \* the keys of terminalBySession
  \* the socket
  requests,      \* to the Runtime
  frames,        \* to the desktop
  \* the desktop
  call,          \* [Terminals -> how far the start call has come]
  session,       \* [Terminals -> the Session it is for, or None]
  replaces,      \* [Terminals -> the terminal a restart stops first, or None]
  entry,         \* sessionToTerminal
  shown,         \* the keys of PtyManager's terminals, all of them running
  processes,     \* the keys of the factory's processes
  queue,         \* [Providers -> calls in the order of agentSpawnQueues]
  settling,      \* calls whose release waits for its timer
  boot,          \* "listing", "adopting" or "ready"
  found,         \* terminals that rehydrate has yet to take over
  current,       \* the one of them the factory listens to already, or None
  launches,
  missed,        \* history: exits that came before the desktop listened
  overwritten    \* history: Sessions of which one terminal overwrote another's entry

runtime == <<process, killed, spawning, bySession>>
starting == <<call, session, replaces>>
slots == <<queue, settling>>
booting == <<boot, found, current, launches>>
vars == <<runtime, requests, frames, starting, entry, shown, processes, slots,
          booting, missed, overwritten>>

Continuations == {"freed", "lapsed", "answered", "refused"}
Entered == {"entered", "queued", "asked", "answered", "refused"}
Spawning == {"asked", "answered", "refused"}
Pending == Entered \cup {"stopping", "freed", "lapsed", "reading"}
Phases == Pending \cup {"none", "done", "returned", "failed"}

Message(kind, t) == [kind |-> kind, terminal |-> t]
Send(kind, t) == requests' = Append(requests, Message(kind, t))
Running == {t \in Terminals : process[t] = "running"}
ExitsComing == {frame.terminal : frame \in {f \in ToSet(frames) : f.kind = "exit"}}

(* No promise waits for its continuation: timers and calls may run.        *)
Settled == \A t \in Terminals : call[t] \notin Continuations
Ready == boot = "ready" /\ Settled

Agent(t) == ProviderOf[session[t]]
Phase(t, phase) == call' = [call EXCEPT ![t] = phase]

Init ==
  /\ process = [t \in Terminals |-> "none"] /\ killed = {}
  /\ spawning = {} /\ bySession = {}
  /\ requests = <<>> /\ frames = <<>>
  /\ call = [t \in Terminals |-> "none"]
  /\ session = [t \in Terminals |-> None]
  /\ replaces = [t \in Terminals |-> None]
  /\ entry = [s \in Sessions |-> None]
  /\ shown = {} /\ processes = {}
  /\ queue = [p \in Providers |-> <<>>] /\ settling = {}
  /\ boot = "ready" /\ found = {} /\ current = None /\ launches = 0
  /\ missed = {} /\ overwritten = {}

----------------------------------------------------------------------------
(* The calls of the desktop's user.                                        *)

(* start of a Session without an entry; with one it returns the running    *)
(* terminal or fails, and changes nothing.                                 *)
Start(t, s) ==
  /\ Ready
  /\ session[t] = None
  /\ entry[s] = None
  /\ session' = [session EXCEPT ![t] = s]
  /\ Phase(t, "reading")
  /\ UNCHANGED <<runtime, requests, frames, replaces, entry, shown, processes, slots,
                 booting, missed, overwritten>>

(* Fault: restart does not wait for the terminal to end.                   *)
BugRestartDoesNotWait(t) == Phase(t, "freed")

(* What stopAndAwait waits for before the rest of restart runs.            *)
WaitForExit(t) == Phase(t, "stopping")

(* restart of a Session whose terminal runs.                               *)
Restart(t, s) ==
  /\ Ready
  /\ session[t] = None
  /\ entry[s] \in shown
  /\ session' = [session EXCEPT ![t] = s]
  /\ replaces' = [replaces EXCEPT ![t] = entry[s]]
  /\ WaitForExit(t)
  /\ Send("stop", entry[s])
  /\ UNCHANGED <<runtime, frames, entry, shown, processes, slots, booting,
                 missed, overwritten>>

(* stop; a second one changes nothing that this one has not.               *)
Stop(u) ==
  /\ Ready
  /\ u \in shown \ killed
  /\ Message("stop", u) \notin ToSet(requests)
  /\ Send("stop", u)
  /\ UNCHANGED <<runtime, frames, starting, entry, shown, processes, slots, booting,
                 missed, overwritten>>

(* Two seconds after the signal stopAndAwait sends it again and gives up.  *)
StopTimer(t) ==
  /\ Settled
  /\ call[t] = "stopping"
  /\ Phase(t, "lapsed")
  /\ Send("stop", replaces[t])
  /\ UNCHANGED <<runtime, frames, session, replaces, entry, shown, processes, slots,
                 booting, missed, overwritten>>

(* The rest of restart: start with the Session as it is now.               *)
Look(t) ==
  LET u == entry[session[t]] IN
  /\ call[t] \in {"freed", "lapsed"}
  /\ Phase(t, IF u = None THEN "reading" ELSE IF u \in shown THEN "returned" ELSE "failed")
  /\ UNCHANGED <<runtime, requests, frames, session, replaces, entry, shown, processes,
                 slots, booting, missed, overwritten>>

----------------------------------------------------------------------------
(* The steps of a start.                                                   *)

(* The Session and the settings are read: the start gets its terminal id   *)
(* and enters it, whatever was entered meanwhile.                          *)
Enter(t) ==
  LET s == session[t] IN
  /\ Settled
  /\ call[t] = "reading"
  /\ \/ /\ Phase(t, "entered")
        /\ entry' = [entry EXCEPT ![s] = t]
        /\ overwritten' = IF entry[s] # None THEN overwritten \cup {s} ELSE overwritten
     \/ /\ Phase(t, "failed")     \* the Session is gone
        /\ UNCHANGED <<entry, overwritten>>
  /\ UNCHANGED <<runtime, requests, frames, session, replaces, shown, processes, slots,
                 booting, missed>>

Ask(t) == Phase(t, "asked") /\ Send("start", t)

(* acquireAgentSpawnSlot, after the awaits that precede it.                *)
Queue(t) ==
  /\ Settled
  /\ call[t] = "entered"
  /\ \/ /\ Agent(t) = None
        /\ Ask(t)
        /\ UNCHANGED queue
     \/ /\ Agent(t) # None
        /\ queue' = [queue EXCEPT ![Agent(t)] = Append(@, t)]
        /\ Phase(t, "queued")
        /\ UNCHANGED requests
  /\ UNCHANGED <<runtime, frames, session, replaces, entry, shown, processes, settling,
                 booting, missed, overwritten>>

(* Fault: a slot is released when the agent has spawned, unsettled.        *)
BugSlotIsNotSettled(t) ==
  /\ Settled
  /\ call[t] = "queued"
  /\ \A u \in ToSet(queue[Agent(t)]) : call[u] \in {"queued", "done"}
  /\ Ask(t)
  /\ UNCHANGED <<runtime, frames, session, replaces, entry, shown, processes, slots,
                 booting, missed, overwritten>>

(* The starts before it have released the slot.                            *)
Turn(t) ==
  /\ Settled
  /\ call[t] = "queued"
  /\ Head(queue[Agent(t)]) = t
  /\ Ask(t)
  /\ UNCHANGED <<runtime, frames, session, replaces, entry, shown, processes, slots,
                 booting, missed, overwritten>>

Release(t) ==
  queue' = IF Agent(t) = None THEN queue ELSE [queue EXCEPT ![Agent(t)] = Tail(@)]

(* Fault: the factory forgets the process it has started.                  *)
BugAttachForgetsProcess(t) ==
  /\ call[t] = "answered"
  /\ Phase(t, "done")
  /\ shown' = shown \cup {t}
  /\ settling' = IF Agent(t) = None THEN settling ELSE settling \cup {t}
  /\ UNCHANGED <<runtime, requests, frames, session, replaces, entry, processes, queue,
                 booting, missed, overwritten>>

(* What follows the Runtime's yes: the factory knows the process, the      *)
(* manager the terminal, and both listen from here on.                     *)
Attach(t) ==
  /\ call[t] = "answered"
  /\ Phase(t, "done")
  /\ processes' = processes \cup {t}
  /\ shown' = shown \cup {t}
  /\ settling' = IF Agent(t) = None THEN settling ELSE settling \cup {t}
  /\ UNCHANGED <<runtime, requests, frames, session, replaces, entry, queue, booting,
                 missed, overwritten>>

(* Fault: a start that fails keeps its slot.                               *)
BugFailKeepsSlot(t) ==
  /\ call[t] = "refused"
  /\ Phase(t, "failed")
  /\ entry' = [entry EXCEPT ![session[t]] = None]
  /\ UNCHANGED <<runtime, requests, frames, session, replaces, shown, processes, slots,
                 booting, missed, overwritten>>

(* What follows its no.  The entry is removed, whichever terminal it names.*)
Fail(t) ==
  /\ call[t] = "refused"
  /\ Phase(t, "failed")
  /\ Release(t)
  /\ entry' = [entry EXCEPT ![session[t]] = None]
  /\ UNCHANGED <<runtime, requests, frames, session, replaces, shown, processes, settling,
                 booting, missed, overwritten>>

(* 600 ms after the spawn.                                                 *)
Settle(t) ==
  /\ Settled
  /\ t \in settling
  /\ settling' = settling \ {t}
  /\ Release(t)
  /\ UNCHANGED <<runtime, requests, frames, starting, entry, shown, processes, booting,
                 missed, overwritten>>

----------------------------------------------------------------------------
(* The Runtime (RuntimeHost models it in full).                            *)

Reply(kind, t) == frames' = Append(frames, Message(kind, t))

(* start, until it awaits the spawn: only Sessions that are entered by now *)
(* count as running.                                                       *)
HandleStart(t) ==
  \/ /\ session[t] \in bySession
     /\ Reply("refused", t)
     /\ UNCHANGED spawning
  \/ /\ session[t] \notin bySession
     /\ spawning' = spawning \cup {t}
     /\ UNCHANGED frames

(* One request after another begins, in order; a start waits for its spawn,*)
(* and a stop, for whose answer nobody waits.                              *)
Handle ==
  /\ requests # <<>>
  /\ LET request == Head(requests)
         t == request.terminal
     IN  \/ /\ request.kind = "start"
            /\ HandleStart(t)
            /\ UNCHANGED <<process, killed>>
         \/ /\ request.kind = "stop"
            /\ killed' = killed \cup ({t} \cap Running)
            /\ UNCHANGED <<process, spawning, frames>>
         \/ /\ request.kind = "list"
            /\ Reply("listed", Running)
            /\ UNCHANGED <<process, killed, spawning>>
  /\ requests' = Tail(requests)
  /\ UNCHANGED <<bySession, starting, entry, shown, processes, slots, booting, missed,
                 overwritten>>

(* The rest of start.  A desktop that has started again since has another  *)
(* socket and gets no answer.                                              *)
SpawnEnds(t) ==
  /\ t \in spawning
  /\ spawning' = spawning \ {t}
  /\ \/ /\ process' = [process EXCEPT ![t] = "running"]
        /\ bySession' = bySession \cup {session[t]}
        /\ IF call[t] = "asked" THEN Reply("started", t) ELSE UNCHANGED frames
     \/ /\ IF call[t] = "asked" THEN Reply("refused", t) ELSE UNCHANGED frames
        /\ UNCHANGED <<process, bySession>>
  /\ UNCHANGED <<killed, requests, starting, entry, shown, processes, slots, booting,
                 missed, overwritten>>

(* A process ends, stopped or by itself: no terminal of its Session counts *)
(* as running any more.                                                    *)
ProcessEnds(t) ==
  /\ t \in Running
  /\ process' = [process EXCEPT ![t] = "ended"]
  /\ bySession' = bySession \ {session[t]}
  /\ Reply("exit", t)
  /\ UNCHANGED <<killed, spawning, requests, starting, entry, shown, processes, slots, booting,
                 missed, overwritten>>

----------------------------------------------------------------------------
(* Frames from the Runtime.                                                *)

Answered(t, phase) ==
  /\ Phase(t, phase)
  /\ UNCHANGED <<entry, shown, processes, boot, found, missed>>

Waiting(t) == {c \in Terminals : call[c] = "stopping" /\ replaces[c] = t}

(* Fault: the entry of a Session outlives its terminal.                    *)
BugExitKeepsEntry(t) ==
  /\ shown' = shown \ {t}
  /\ UNCHANGED entry

(* handleExit, with the listeners of stopAndAwait behind it.               *)
HandleExit(t) ==
  /\ shown' = shown \ {t}
  /\ entry' = [entry EXCEPT ![session[t]] = None]

(* Terminals that will be shown, and are not listened to yet.              *)
Unheard == found \cup {t \in Terminals : call[t] = "answered"}

(* An exit reaches a terminal only through the factory and its listener;   *)
(* without both of them it is dropped.                                     *)
Exited(t) ==
  /\ processes' = processes \ {t}
  /\ \/ /\ t \in processes \cap shown
        /\ HandleExit(t)
        /\ call' = [c \in Terminals |-> IF c \in Waiting(t) THEN "freed" ELSE call[c]]
        /\ UNCHANGED missed
     \/ /\ t \notin processes \cap shown
        /\ missed' = missed \cup ({t} \cap Unheard)
        /\ UNCHANGED <<call, shown, entry>>
  /\ UNCHANGED <<boot, found>>

Deliver ==
  /\ frames # <<>>
  /\ \A t \in Terminals : call[t] # "lapsed"
  /\ LET frame == Head(frames)
         t == frame.terminal
     IN  \/ frame.kind = "started" /\ Answered(t, "answered")
         \/ frame.kind = "refused" /\ Answered(t, "refused")
         \/ frame.kind = "exit" /\ Exited(t)
         \/ /\ frame.kind = "listed"
            /\ boot' = "adopting" /\ found' = t
            /\ UNCHANGED <<call, entry, shown, processes, missed>>
  /\ frames' = Tail(frames)
  /\ UNCHANGED <<runtime, requests, session, replaces, slots, current, launches,
                 overwritten>>

----------------------------------------------------------------------------
(* The desktop ends, with every call it was in, and starts again.  What it *)
(* had written may or may not have reached the Runtime.                    *)
Relaunch ==
  /\ launches < MaxLaunches
  /\ launches' = launches + 1
  /\ call' = [t \in Terminals |-> IF call[t] \in Pending THEN "failed" ELSE call[t]]
  /\ requests' = <<Message("list", None)>> /\ frames' = <<>>
  /\ entry' = [s \in Sessions |-> None]
  /\ shown' = {} /\ processes' = {}
  /\ queue' = [p \in Providers |-> <<>>] /\ settling' = {}
  /\ boot' = "listing" /\ found' = {} /\ current' = None
  /\ missed' = {} /\ overwritten' = {}
  /\ UNCHANGED <<runtime, session, replaces>>

(* rehydrate: the factory listens to a terminal, then the configuration of *)
(* its agent is read, then the manager listens too.                        *)
AdoptProcess(t) ==
  /\ boot = "adopting"
  /\ t \in found /\ current = None
  /\ \/ current' = t /\ processes' = processes \cup {t} /\ UNCHANGED found
     \/ found' = found \ {t} /\ UNCHANGED <<processes, current>>   \* the Session is gone
  /\ UNCHANGED <<runtime, requests, frames, starting, entry, shown, slots, boot, launches,
                 missed, overwritten>>

AdoptTerminal(t) ==
  /\ current = t
  /\ shown' = shown \cup {t}
  /\ entry' = [entry EXCEPT ![session[t]] = t]
  /\ overwritten' = overwritten \cup {s \in {session[t]} : entry[s] # None}
  /\ found' = found \ {t} /\ current' = None
  /\ UNCHANGED <<runtime, requests, frames, starting, processes, slots, boot, launches,
                 missed>>

Rehydrated ==
  /\ boot = "adopting" /\ found = {}
  /\ boot' = "ready"
  /\ UNCHANGED <<runtime, requests, frames, starting, entry, shown, processes, slots,
                 found, current, launches, missed, overwritten>>

Next ==
  \/ \E t \in Terminals, s \in Sessions : Start(t, s) \/ Restart(t, s)
  \/ \E t \in Terminals :
       \/ Stop(t) \/ StopTimer(t) \/ Look(t)
       \/ Enter(t) \/ Queue(t) \/ Turn(t) \/ Attach(t) \/ Fail(t) \/ Settle(t)
       \/ SpawnEnds(t) \/ ProcessEnds(t) \/ AdoptProcess(t) \/ AdoptTerminal(t)
  \/ Handle \/ Deliver \/ Relaunch \/ Rehydrated

Spec == Init /\ [][Next]_vars

----------------------------------------------------------------------------
Requests == [kind: {"start", "stop"}, terminal: Terminals]
              \cup [kind: {"list"}, terminal: {None}]
Frames == [kind: {"started", "refused", "exit"}, terminal: Terminals]
            \cup [kind: {"listed"}, terminal: SUBSET Terminals]

TypeOK ==
  /\ process \in [Terminals -> {"none", "running", "ended"}] /\ killed \subseteq Terminals
  /\ spawning \subseteq Terminals /\ bySession \subseteq Sessions
  /\ requests \in Seq(Requests) /\ frames \in Seq(Frames)
  /\ call \in [Terminals -> Phases]
  /\ session \in [Terminals -> Sessions \cup {None}]
  /\ replaces \in [Terminals -> Terminals \cup {None}]
  /\ entry \in [Sessions -> Terminals \cup {None}]
  /\ shown \subseteq Terminals /\ processes \subseteq Terminals
  /\ queue \in [Providers -> Seq(Terminals)] /\ settling \subseteq Terminals
  /\ boot \in {"listing", "adopting", "ready"} /\ found \subseteq Terminals
  /\ current \in found \cup {None} /\ launches \in 0 .. MaxLaunches
  /\ missed \subseteq Terminals /\ overwritten \subseteq Sessions

(* A terminal the desktop shows runs in the Runtime, or its exit is on its *)
(* way: none is left behind as running for ever, unless its exit came with *)
(* the answer to its start, or after the list at a launch and before       *)
(* rehydrate had attached its listener.                                    *)
NoGhosts ==
  \A t \in shown : process[t] # "running" => t \in ExitsComing \cup missed

(* A terminal the desktop shows can be found by its Session, and an entry  *)
(* names a terminal that runs or one that is being started, so that the    *)
(* Session can be started again when neither is the case.  Two starts of a *)
(* Session at once are another matter: the lookup precedes three awaits,   *)
(* and the second overwrites the entry of the first.  So are two terminals *)
(* of a Session that a launch takes over, which the Runtime may run after  *)
(* a start that overlapped with another, or with a launch.                 *)
EntriesNameTerminals ==
  \A s \in Sessions \ overwritten :
    /\ entry[s] # None => \/ entry[s] \in shown
                          \/ call[entry[s]] \in Entered
    /\ \A t \in shown : session[t] = s => entry[s] = t

(* Agents of one provider do not start together: from the request to spawn *)
(* one until 600 ms after the answer no other is asked for.                *)
AgentSpawnsAreApart ==
  \A t, u \in {c \in Terminals : call[c] \in Spawning \/ c \in settling} :
    Agent(t) = Agent(u) /\ Agent(t) # None => t = u

(* A restart that has seen its terminal exit does not answer with it.      *)
RestartsReplace ==
  [][\A t \in Terminals :
       call[t] = "freed" /\ call'[t] = "returned"
         => entry[session[t]] # replaces[t]]_vars

(* No start is stuck: one that has asked the Runtime has its spawn or its  *)
(* answer coming, and one that waits for its slot waits behind a start     *)
(* that will release it, having yet to be answered or to let its 600 ms    *)
(* pass, whatever became of the terminal or of the starts before it.       *)
NoStartIsStuck ==
  \A t \in Terminals :
    /\ call[t] = "asked" =>
         Message("start", t) \in ToSet(requests) \/ t \in spawning
           \/ {Message("started", t), Message("refused", t)} \cap ToSet(frames) # {}
    /\ call[t] = "queued" =>
         LET first == Head(queue[Agent(t)]) IN
         call[first] \in Spawning \cup {"queued"} \/ first \in settling
=============================================================================
