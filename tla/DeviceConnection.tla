--------------------------- MODULE DeviceConnection ---------------------------
(***************************************************************************)
(* One Device as another machine sees it: RemoteSessionDevice.ts and       *)
(* DeviceTransport.ts on this side, the event sockets of SoloeServer.ts on *)
(* the other.  The Device is described over HTTP, an event socket is       *)
(* opened, the terminals whose output is wanted are named again, and the   *)
(* Device is ready.  A socket may be lost, a call may fail, the server may *)
(* restart; a reconnect timer and a liveness check bring the Device back.  *)
(*                                                                         *)
(* An HTTP call and its answer are one step of the server; what the client *)
(* does with a description is another.  The server forgets a client whose  *)
(* last socket has been gone for a while (the grace timer).  Faults, events *)
(* and changes of demand are bounded; timers and probes are not.  Of a     *)
(* Device that is disposed only what the client still does is kept.        *)
(***************************************************************************)
EXTENDS Naturals, Sequences, FiniteSets

CONSTANTS Terminals, None,
          MaxFaults,   \* lost sockets, failed calls and restarts of an instance
          MaxEvents,   \* events of an instance
          MaxDemands   \* changes of demand of an instance

ASSUME ConnectionAssumption ==
  /\ None \notin Nat
  /\ None \notin [desired: SUBSET Terminals, off: SUBSET Terminals, on: SUBSET Terminals]
  /\ MaxFaults \in Nat /\ MaxEvents \in Nat /\ MaxDemands \in Nat

VARIABLES
  \* RemoteSessionDevice
  status,          \* currentStatus.state
  known,           \* the epoch of currentStatus.descriptor
  request,         \* connectRequest and how far it is
  reconnectTimer, livenessTimer,
  probe,           \* a liveness check that has not come to its end
  demanded,        \* demandedTerminals
  call,            \* a call of setTerminalOutputDemand
  disposed,
  \* DeviceTransport
  transport,       \* state
  descriptor,      \* its epoch
  socket,          \* the generation of the open socket
  lastSequence,
  \* every socket there was, by generation, and what is on its way
  links,
  \* SoloeServer, as far as this client goes
  epoch, sequence, demand, grace,
  \* bounds and history
  faults, events, demands,
  risks            \* history: what went wrong since the socket was opened

device == <<status, known, request, reconnectTimer, livenessTimer, disposed>>
stream == <<transport, descriptor, socket, lastSequence>>
wishes == <<demanded, call, demands>>
server == <<epoch, sequence, demand, grace>>
vars == <<device, probe, stream, links, wishes, server, faults, events, risks>>

----------------------------------------------------------------------------
Generations == DOMAIN links
Accepted == {g \in Generations : links[g].at = "accepted"}

NewLink == [at |-> "opening", cut |-> FALSE, wire |-> <<>>, epoch |-> None]
Gone == [at |-> "released", cut |-> TRUE, wire |-> <<>>, epoch |-> None]

Fault == ~disposed /\ faults < MaxFaults /\ faults' = faults + 1

\* scheduleReconnect, given whether connectRequest is set
Rescheduled(requested) == IF disposed \/ requested THEN reconnectTimer ELSE TRUE

\* Fault: a Device that is ready does not follow its transport.
BugFollows(state, described) ==
  /\ transport' = state
  /\ status' = CASE status = "ready" -> "ready"
                 [] state = "disconnected" -> "offline"
                 [] OTHER -> "connecting"
  /\ known' = IF described = None THEN known ELSE described
  /\ UNCHANGED <<livenessTimer, reconnectTimer>>

\* updateTransportStatus: the Device follows a state of the transport
Follows(state, described) ==
  LET next == CASE state = "disconnected" -> "offline"
                [] state = "connected" -> (IF status = "ready" THEN "ready" ELSE "connecting")
                [] OTHER -> state
  IN /\ transport' = state
     /\ status' = next
     /\ known' = IF described = None THEN known ELSE described
     /\ livenessTimer' = (livenessTimer /\ next # "offline")
     /\ reconnectTimer' = IF next = "offline" THEN Rescheduled(request # None)
                                              ELSE reconnectTimer

\* DeviceTransport.disconnect, and what the socket's close and error do
Disconnects ==
  /\ Follows("disconnected", descriptor)
  /\ socket' = None
  /\ risks' = IF request # None /\ request.phase = "asserting"
              THEN risks \cup {"unnoticed"} ELSE risks
  /\ UNCHANGED <<request, disposed, descriptor, lastSequence>>

\* Fault: a failed connection is not tried again.
BugConnectFails ==
  /\ status' = "offline"
  /\ request' = None
  /\ UNCHANGED reconnectTimer

\* the catch of connectNow, and the finally of connect
ConnectFails ==
  /\ status' = "offline"
  /\ request' = None
  /\ reconnectTimer' = Rescheduled(FALSE)

Init ==
  /\ status = "idle" /\ known = None /\ request = None
  /\ reconnectTimer = FALSE /\ livenessTimer = FALSE /\ probe = None
  /\ demanded = {} /\ call = None /\ disposed = FALSE
  /\ transport = "idle" /\ descriptor = None /\ socket = None /\ lastSequence = None
  /\ links = <<>>
  /\ epoch = 1 /\ sequence = 0 /\ demand = {} /\ grace = FALSE
  /\ faults = 0 /\ events = 0 /\ demands = 0 /\ risks = {}

----------------------------------------------------------------------------
(* Connecting *)

\* connect, up to the answer of the description
BeginConnect ==
  /\ ~disposed /\ status # "ready" /\ request = None
  /\ request' = [phase |-> "describing", epoch |-> None, todo |-> {}]
  /\ reconnectTimer' = FALSE
  /\ transport' = "connecting" /\ status' = "connecting"
  /\ descriptor' = None /\ socket' = None /\ lastSequence' = None
  /\ UNCHANGED <<known, livenessTimer, disposed>>

\* a refresh of the Sessions connects every Device
Connect == BeginConnect /\ UNCHANGED <<probe, links, wishes, server, faults, events, risks>>

ReconnectTimer ==
  /\ reconnectTimer
  /\ \/ BeginConnect
     \/ /\ status = "ready" \/ request # None
        /\ reconnectTimer' = FALSE
        /\ UNCHANGED <<status, known, request, livenessTimer, disposed, stream>>
  /\ UNCHANGED <<probe, links, wishes, server, faults, events, risks>>

\* the server answers /api/device/describe
Describe ==
  /\ request # None /\ request.phase = "describing" /\ ~disposed
  /\ request' = [request EXCEPT !.phase = "described", !.epoch = epoch]
  /\ UNCHANGED <<status, known, reconnectTimer, livenessTimer, disposed, probe, stream, links,
                 wishes, server, faults, events, risks>>

DescribeFails ==
  /\ request # None /\ request.phase = "describing"
  /\ \/ Fault
     \/ disposed /\ UNCHANGED faults      \* dispose aborts the call
  /\ ConnectFails
  /\ transport' = IF disposed THEN transport ELSE "disconnected"
  /\ livenessTimer' = FALSE
  /\ UNCHANGED <<known, disposed, probe, descriptor, socket, lastSequence, links, wishes, server,
                 events, risks>>

\* Fault: the server is not told again what it is to send.
BugOpenSocket ==
  /\ request # None /\ request.phase = "described" /\ ~disposed
  /\ links' = Append(links, NewLink)
  /\ socket' = Len(links) + 1
  /\ descriptor' = request.epoch
  /\ lastSequence' = None
  /\ Follows("connected", request.epoch)
  /\ request' = [request EXCEPT !.phase = "asserting", !.todo = {}]
  /\ risks' = IF call = None THEN {} ELSE {"overlap"}
  /\ UNCHANGED <<disposed, probe, wishes, server, faults, events>>

\* the rest of DeviceTransport.connect: the event socket is opened
OpenSocket ==
  /\ request # None /\ request.phase = "described"
  /\ IF disposed
     THEN /\ ConnectFails
          /\ UNCHANGED <<known, livenessTimer, stream, links, risks>>
     ELSE /\ links' = Append(links, NewLink)
          /\ socket' = Len(links) + 1
          /\ descriptor' = request.epoch
          /\ lastSequence' = None
          /\ Follows("connected", request.epoch)
          /\ request' = [request EXCEPT !.phase = "asserting", !.todo = demanded]
          /\ risks' = IF call = None THEN {} ELSE {"overlap"}
  /\ UNCHANGED <<disposed, probe, wishes, server, faults, events>>

\* reassertTerminalOutputDemand
Reassert(t) ==
  /\ request # None /\ request.phase = "asserting" /\ t \in request.todo
  /\ demand' = demand \cup {t}
  /\ request' = [request EXCEPT !.todo = @ \ {t}]
  /\ UNCHANGED <<status, known, reconnectTimer, livenessTimer, disposed, probe, stream, links,
                 wishes, epoch, sequence, grace, faults, events, risks>>

\* the call fails, before or after the server has done it
ReassertFails(t) ==
  /\ request # None /\ request.phase = "asserting" /\ t \in request.todo
  /\ Fault
  /\ demand' \in {demand, demand \cup {t}}
  /\ ConnectFails
  /\ known' = IF descriptor = None THEN known ELSE descriptor
  /\ UNCHANGED <<livenessTimer, disposed, probe, stream, links, wishes, epoch, sequence, grace,
                 events, risks>>

\* the end of connectNow; nothing looks at the transport again
BecomeReady ==
  /\ request # None /\ request.phase = "asserting" /\ request.todo = {}
  /\ status' = "ready" /\ known' = descriptor
  /\ request' = None
  /\ livenessTimer' = ~disposed
  /\ UNCHANGED <<reconnectTimer, disposed, probe, stream, links, wishes, server, faults, events,
                 risks>>

----------------------------------------------------------------------------
(* The event socket *)

\* the server accepts the upgrade
Accept(g) ==
  /\ ~disposed /\ g \in Generations /\ links[g].at = "opening" /\ ~links[g].cut
  /\ links' = [links EXCEPT ![g].at = "accepted", ![g].epoch = epoch]
  /\ grace' = FALSE
  /\ UNCHANGED <<device, probe, stream, wishes, epoch, sequence, demand, faults, events, risks>>

\* publish: every socket of the client gets the next number of the client
Publish ==
  /\ events < MaxEvents /\ ~disposed /\ Accepted # {}
  /\ events' = events + 1
  /\ links' = [g \in Generations |->
                 IF g \in Accepted
                 THEN [links[g] EXCEPT !.wire = IF links[g].cut THEN <<>> ELSE
                         Append(@, sequence + Cardinality({h \in Accepted : h <= g}))]
                 ELSE links[g]]
  /\ sequence' = sequence + Cardinality(Accepted)
  /\ risks' = IF Cardinality(Accepted) > 1 THEN risks \cup {"crowded"} ELSE risks
  /\ UNCHANGED <<device, probe, stream, wishes, epoch, demand, grace, faults>>

\* Fault: events of an earlier socket are taken as well.
BugReceive(g) ==
  /\ ~disposed /\ g \in Generations /\ links[g].wire # <<>>
  /\ links' = [links EXCEPT ![g].wire = Tail(@)]
  /\ LET number == Head(links[g].wire)
     IN IF /\ transport = "connected" /\ links[g].epoch = descriptor
           /\ lastSequence = None \/ number = lastSequence + 1
        THEN /\ lastSequence' = number
             /\ Follows("connected", descriptor)
        ELSE UNCHANGED <<lastSequence, transport, status, known, livenessTimer, reconnectTimer>>
  /\ UNCHANGED <<request, disposed, probe, descriptor, socket, wishes, server, faults, events, risks>>

\* receiveEvent; an event that is refused changes nothing, lastSequence included
Receive(g) ==
  /\ ~disposed /\ g \in Generations /\ links[g].wire # <<>>
  /\ links' = [links EXCEPT ![g].wire = Tail(@)]
  /\ LET number == Head(links[g].wire)
     IN IF /\ socket = g /\ transport = "connected"
           /\ links[g].epoch = descriptor
           /\ lastSequence = None \/ number = lastSequence + 1
        THEN /\ lastSequence' = number
             /\ Follows("connected", descriptor)
        ELSE UNCHANGED <<lastSequence, transport, status, known, livenessTimer, reconnectTimer>>
  /\ UNCHANGED <<request, disposed, probe, descriptor, socket, wishes, server, faults, events, risks>>

\* the network loses a socket
Cut(g) ==
  /\ g \in Generations /\ ~links[g].cut /\ (g = socket \/ g \in Accepted)
  /\ Fault
  /\ links' = [links EXCEPT ![g].cut = TRUE, ![g].wire = <<>>]
  /\ UNCHANGED <<device, probe, stream, wishes, server, events, risks>>

\* the client learns that its socket is lost
SocketCloses ==
  /\ socket # None /\ links[socket].cut
  /\ Disconnects
  /\ UNCHANGED <<probe, links, wishes, server, faults, events>>

\* releaseClientSocket: the heartbeat missed the client, or the client closed the socket
Release(g) ==
  /\ ~disposed /\ g \in Accepted /\ (links[g].cut \/ g # socket)
  /\ links' = [links EXCEPT ![g] = Gone]
  /\ grace' = (grace \/ Accepted = {g})
  /\ UNCHANGED <<device, probe, stream, wishes, epoch, sequence, demand, faults, events, risks>>

\* the timer that releaseClientSocket set
GraceEnds ==
  /\ ~disposed /\ grace
  /\ grace' = FALSE
  /\ IF Accepted = {} THEN demand' = {} /\ sequence' = 0 ELSE UNCHANGED <<demand, sequence>>
  /\ risks' = IF socket = None THEN risks ELSE risks \cup {"grace"}
  /\ UNCHANGED <<device, probe, stream, links, wishes, epoch, faults, events>>

Restart ==
  /\ Fault
  /\ epoch' = epoch + 1
  /\ links' = [g \in Generations |-> Gone]
  /\ sequence' = 0 /\ demand' = {} /\ grace' = FALSE
  /\ UNCHANGED <<device, probe, stream, wishes, events, risks>>

----------------------------------------------------------------------------
(* The liveness check: it has two seconds, and the next one comes after fifteen *)

LivenessTimer ==
  /\ livenessTimer /\ probe = None
  /\ livenessTimer' = FALSE
  /\ probe' = IF disposed \/ status # "ready" THEN None ELSE [since |-> known, answer |-> None]
  /\ UNCHANGED <<status, known, request, reconnectTimer, disposed, stream, links, wishes, server,
                 faults, events, risks>>

Probe ==
  /\ probe # None /\ probe.answer = None
  /\ probe' = [probe EXCEPT !.answer = epoch]
  /\ UNCHANGED <<device, stream, links, wishes, server, faults, events, risks>>

ProbeReturns ==
  /\ probe # None /\ probe.answer # None
  /\ probe' = None
  /\ \/ /\ disposed \/ status # "ready"
        /\ UNCHANGED <<device, stream, risks>>
     \/ /\ ~disposed /\ status = "ready" /\ probe.answer = probe.since
        /\ livenessTimer' = TRUE
        /\ UNCHANGED <<status, known, request, reconnectTimer, disposed, stream, risks>>
     \/ /\ ~disposed /\ status = "ready" /\ probe.answer # probe.since
        /\ Disconnects
  /\ UNCHANGED <<links, wishes, server, faults, events>>

ProbeFails ==
  /\ probe # None /\ Fault
  /\ probe' = None
  /\ IF disposed THEN UNCHANGED <<device, stream, risks>> ELSE Disconnects
  /\ UNCHANGED <<links, wishes, server, events>>

----------------------------------------------------------------------------
(* What the user looks at *)

\* setTerminalOutputDemand; the renderer makes one call at a time
SetDemand(desired) ==
  /\ ~disposed /\ call = None /\ demands < MaxDemands
  /\ demands' = demands + 1
  /\ call' = [desired |-> desired, off |-> demanded \ desired, on |-> desired \ demanded]
  /\ UNCHANGED <<device, probe, stream, links, demanded, server, faults, events, risks>>

\* the next of its calls has been answered
DemandStep(t) ==
  /\ call # None
  /\ IF call.off # {}
     THEN t \in call.off /\ call' = [call EXCEPT !.off = @ \ {t}] /\ demand' = demand \ {t}
     ELSE t \in call.on /\ call' = [call EXCEPT !.on = @ \ {t}] /\ demand' = demand \cup {t}
  /\ UNCHANGED <<device, probe, stream, links, demanded, demands, epoch, sequence, grace, faults,
                 events, risks>>

DemandFails(t) ==
  /\ call # None /\ Fault
  /\ IF call.off # {}
     THEN t \in call.off /\ demand' \in {demand, demand \ {t}}
     ELSE t \in call.on /\ demand' \in {demand, demand \cup {t}}
  /\ call' = None
  /\ risks' = risks \cup {"answer"}
  /\ UNCHANGED <<device, probe, stream, links, demanded, demands, epoch, sequence, grace, events>>

DemandDone ==
  /\ call # None /\ call.off = {} /\ call.on = {}
  /\ demanded' = call.desired
  /\ call' = None
  /\ UNCHANGED <<device, probe, stream, links, demands, server, faults, events, risks>>

Dispose ==
  /\ ~disposed
  /\ disposed' = TRUE
  /\ status' = "disposed" /\ transport' = "disposed" /\ socket' = None
  /\ reconnectTimer' = FALSE /\ livenessTimer' = FALSE
  /\ UNCHANGED <<known, request, probe, descriptor, lastSequence, links, wishes, server, faults,
                 events, risks>>

----------------------------------------------------------------------------
Next ==
  \/ Connect \/ ReconnectTimer \/ Describe \/ DescribeFails \/ OpenSocket \/ BecomeReady
  \/ \E t \in Terminals : Reassert(t) \/ ReassertFails(t) \/ DemandStep(t) \/ DemandFails(t)
  \/ \E g \in Generations : Accept(g) \/ Receive(g) \/ Cut(g) \/ Release(g)
  \/ Publish \/ SocketCloses \/ GraceEnds \/ Restart
  \/ LivenessTimer \/ Probe \/ ProbeReturns \/ ProbeFails
  \/ \E desired \in SUBSET Terminals : SetDemand(desired)
  \/ DemandDone \/ Dispose

Spec == Init /\ [][Next]_vars

\* Calls are answered, timers run off, an open connection is accepted and a lost one
\* noticed.  The Sessions are refreshed once when the Device is known.
Fairness ==
  /\ WF_vars(Connect /\ status = "idle") /\ WF_vars(ReconnectTimer)
  /\ WF_vars(Describe) /\ WF_vars(OpenSocket) /\ WF_vars(BecomeReady)
  /\ WF_vars(\E t \in Terminals : Reassert(t))
  /\ WF_vars(\E g \in Generations : Accept(g)) /\ WF_vars(SocketCloses)
  /\ WF_vars(LivenessTimer) /\ WF_vars(Probe) /\ WF_vars(ProbeReturns)

FairSpec == Spec /\ Fairness

----------------------------------------------------------------------------
Requests == [phase: {"describing", "described", "asserting"},
             epoch: Nat \cup {None}, todo: SUBSET Terminals]
Links == [at: {"opening", "accepted", "released"}, cut: BOOLEAN, wire: Seq(Nat),
          epoch: Nat \cup {None}]
Calls == [desired: SUBSET Terminals, off: SUBSET Terminals, on: SUBSET Terminals]

DeviceTypeOK ==
  /\ status \in {"idle", "connecting", "ready", "offline", "disposed"}
  /\ known \in Nat \cup {None}
  /\ request \in {None} \cup Requests
  /\ reconnectTimer \in BOOLEAN /\ livenessTimer \in BOOLEAN /\ disposed \in BOOLEAN

StreamTypeOK ==
  /\ transport \in {"idle", "connecting", "connected", "disconnected", "disposed"}
  /\ descriptor \in Nat \cup {None}
  /\ links \in Seq(Links)
  /\ socket \in Generations \cup {None} /\ lastSequence \in Nat \cup {None}

WishTypeOK ==
  /\ demanded \subseteq Terminals /\ call \in {None} \cup Calls /\ demands \in Nat

ServerTypeOK ==
  /\ epoch \in Nat /\ sequence \in Nat /\ demand \subseteq Terminals /\ grace \in BOOLEAN

TypeOK ==
  /\ DeviceTypeOK /\ StreamTypeOK /\ WishTypeOK /\ ServerTypeOK
  /\ probe \in {None} \cup [since: Nat \cup {None}, answer: Nat \cup {None}]
  /\ faults \in Nat /\ events \in Nat
  /\ risks \subseteq {"unnoticed", "overlap", "crowded", "grace", "answer"}

\* A Device that is shown as ready has an open event socket, unless the socket was lost
\* while the demand was asserted again (RemoteSessionDevice.connectNow).
ReadyDevicesListen ==
  (status = "ready" /\ ~disposed) =>
    (transport = "connected" /\ socket # None) \/ "unnoticed" \in risks

\* The events on the socket continue what was received: an event is refused as a gap only
\* when another socket of the client was served beside it (SoloeServer.nextEventEnvelope).
StreamsHaveNoGaps ==
  (socket # None /\ "crowded" \notin risks) =>
    LET wire == links[socket].wire
    IN \A i \in DOMAIN wire :
         /\ lastSequence # None => wire[i] = lastSequence + i
         /\ wire[i] = wire[1] + i - 1

Streaming == /\ socket # None /\ links[socket].at = "accepted" /\ ~links[socket].cut
             /\ links[socket].epoch = descriptor

\* A ready Device sends the output of every terminal its client believes it asked for,
\* unless an answer was lost, a change of demand went on across the reconnect, or the
\* grace timer ran off before the server saw the new socket.
DemandIsHonoured ==
  (status = "ready" /\ Streaming /\ call = None /\ risks \cap {"answer", "overlap", "grace"} = {})
    => demanded \subseteq demand

\* After losses, failures and restarts a Device is ready and heard again, unless the loss
\* went unnoticed or the Device is no longer wanted.
DevicesComeBack ==
  []<>(disposed \/ (status = "ready" /\ Streaming) \/ "unnoticed" \in risks)
=============================================================================
