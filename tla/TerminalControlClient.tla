------------------------ MODULE TerminalControlClient ------------------------
(***************************************************************************)
(* TerminalControlCoordinator (src/lib/terminal-control.ts), the part of a *)
(* client window that claims terminals, takes them over and knows who      *)
(* controls them, with the TerminalInputLeaseManager that answers it.      *)
(*                                                                         *)
(* A call is a message to the server and an answer, or an error, back; the *)
(* coordinator's code after each await is what Answered does with it.      *)
(* Lease events come back beside the answers.  Over Electron's IPC all     *)
(* messages of a window stay in order.  A browser sends each call as an    *)
(* HTTP request of its own and gets the events over a WebSocket: its calls *)
(* overtake each other and the events, they may fail, also when the server *)
(* has handled them or is yet to, and the events of a connection that      *)
(* breaks are lost.                                                        *)
(*                                                                         *)
(* The server at the end of "ipc" is TerminalIpc (electron/ipc), that of   *)
(* "http" is RuntimeHost.  They differ in two things: TerminalIpc answers  *)
(* current for any terminal, and starts every lease with default           *)
(* dimensions.                                                             *)
(***************************************************************************)
EXTENDS TerminalInputLease, FiniteSets, SequencesExt

CONSTANTS
    Clients,     \* windows and tabs
    DeviceOf,    \* the Soloe Device a client runs on
    Host,        \* the Device that owns the terminals
    Transports,  \* how clients may be connected: {"ipc"}, {"http"} or both
    MaxMoves,    \* bound on what the users do, for TLC
    MaxFaults    \* bound on the messages lost, for TLC

ASSUME ClientAssumption ==
    /\ DeviceOf \in [Clients -> Devices]
    /\ Host \in Owners
    /\ None \notin Terminals
    /\ Transports \subseteq {"ipc", "http"}
    /\ MaxMoves \in Nat /\ MaxFaults \in Nat

VARIABLES
    transport,   \* how the clients are connected
    alive,       \* terminals whose PTY has not exited
    leaseSize,   \* leaseSize[t]: the size a new lease of t starts with
    observed,    \* observed[c][t]: the map leases, None where null or absent
    owned,       \* owned[c][t]: the map owned, None where absent
    selected,    \* selected[c]: selectedTerminalId
    visible,     \* visible[c]: pageVisible
    epoch,       \* epoch[c]: selectionEpoch
    takeovers,   \* takeovers[c]: the keys of takeoverRequests
    outbox,      \* outbox[c]: the calls on the way to the server
    inbox,       \* inbox[c]: the answers and events on the way back
    moves,       \* how much the users have done
    faults,      \* how many messages were lost
    held,        \* held[t]: generations of t's leases some claim has installed
    released     \* released[t]: generations of t's leases users have released

clientVars == <<observed, owned, selected, visible, epoch, takeovers>>
wires == <<outbox, inbox>>
ghosts == <<held, released>>
vars == <<leaseVars, clientVars, wires, ghosts, transport, alive, leaseSize, moves, faults>>

Methods == {"acquire", "current", "park", "input", "resize"}
NoProof == None

\* What a client sends.  epoch is the selectionEpoch a claim was made in;
\* takeover marks the claim of a takeover request and its refresh; failed marks
\* a call that has failed for its client and is on its way all the same.
Call(method, t, takeover, e, proof, size) ==
    [method |-> method, terminal |-> t, takeover |-> takeover, epoch |-> e,
     proof |-> proof, size |-> size, failed |-> FALSE]
Claim(t, takeover, e) == Call("acquire", t, takeover, e, NoProof, None)
Current(t, takeover)  == Call("current", t, takeover, 0, NoProof, None)
ParkCall(t, l)        == Call("park", t, FALSE, 0, ProofOf(l), None)

Answer(call, ok, l) == [kind |-> "answer", call |-> call, ok |-> ok, lease |-> l]
EventOf(t, e) == [kind |-> "event", terminal |-> t, lease |-> e.lease,
                  generation |-> e.generation]

LeaseOrNone == Lease \cup {None}
Calls == [method : Methods, terminal : Terminals, takeover : BOOLEAN, epoch : Nat,
          proof : Proof \cup {None}, size : Sizes \cup {None}, failed : BOOLEAN]
Messages == [kind : {"answer"}, call : Calls, ok : BOOLEAN, lease : LeaseOrNone]
              \cup [kind : {"event"}, terminal : Terminals, lease : LeaseOrNone,
                    generation : Nat]

TypeOK ==
    /\ LeaseTypeOK
    /\ transport \in Transports
    /\ alive \subseteq Terminals
    /\ leaseSize \in [Terminals -> Sizes]
    /\ observed \in [Clients -> [Terminals -> LeaseOrNone]]
    /\ owned \in [Clients -> [Terminals -> LeaseOrNone]]
    /\ selected \in [Clients -> Terminals \cup {None}]
    /\ visible \in [Clients -> BOOLEAN]
    /\ epoch \in [Clients -> Nat]
    /\ takeovers \in [Clients -> SUBSET Terminals]
    /\ outbox \in [Clients -> Seq(Calls)]
    /\ inbox \in [Clients -> Seq(Messages)]
    /\ moves \in Nat /\ faults \in Nat
    /\ held \in [Terminals -> SUBSET Nat] /\ released \in [Terminals -> SUBSET Nat]

Init ==
    /\ LeaseInit
    /\ transport \in Transports
    /\ alive = Terminals
    /\ leaseSize \in [Terminals -> Sizes]
    /\ observed = [c \in Clients |-> [t \in Terminals |-> None]]
    /\ owned = [c \in Clients |-> [t \in Terminals |-> None]]
    /\ selected = [c \in Clients |-> None]
    /\ visible = [c \in Clients |-> TRUE]
    /\ epoch = [c \in Clients |-> 0]
    /\ takeovers = [c \in Clients |-> {}]
    /\ outbox = [c \in Clients |-> <<>>]
    /\ inbox = [c \in Clients |-> <<>>]
    /\ moves = 0
    /\ faults = 0
    /\ held = [t \in Terminals |-> {}]
    /\ released = [t \in Terminals |-> {}]

-----------------------------------------------------------------------------
(* What the user of a client does *)

Same(l, m) == l # None /\ m # None /\ SameControl(l, m)

\* owns: the lease the client was given is the one it has observed.
Owns(c, t) == Same(owned[c][t], observed[c][t])

UserMoves ==
    /\ moves < MaxMoves
    /\ moves' = moves + 1
    /\ UNCHANGED <<leaseVars, transport, alive, leaseSize, faults>>

Send(c, call) == outbox' = [outbox EXCEPT ![c] = Append(@, call)]

\* Fault: every selection takes the terminal over.
BugSelectTakesOver(c, t) ==
    /\ UserMoves
    /\ epoch' = [epoch EXCEPT ![c] = @ + 1]
    /\ selected' = [selected EXCEPT ![c] = t]
    /\ IF t # None /\ visible[c] THEN Send(c, Claim(t, TRUE, epoch[c] + 1))
                                 ELSE UNCHANGED outbox
    /\ UNCHANGED <<observed, owned, visible, takeovers, inbox, ghosts>>

\* select; null when no terminal is selected any more.
Select(c, t) ==
    /\ UserMoves
    /\ epoch' = [epoch EXCEPT ![c] = @ + 1]
    /\ selected' = [selected EXCEPT ![c] = t]
    /\ IF t # None /\ visible[c] THEN Send(c, Claim(t, FALSE, epoch[c] + 1))
                                 ELSE UNCHANGED outbox
    /\ UNCHANGED <<observed, owned, visible, takeovers, inbox, ghosts>>

SetPageVisible(c) ==
    /\ UserMoves
    /\ visible' = [visible EXCEPT ![c] = ~@]
    /\ epoch' = [epoch EXCEPT ![c] = @ + 1]
    /\ IF selected[c] # None /\ ~visible[c]
       THEN Send(c, Claim(selected[c], FALSE, epoch[c] + 1)) ELSE UNCHANGED outbox
    /\ UNCHANGED <<observed, owned, selected, takeovers, inbox, ghosts>>

\* takeover: one request at a time.
Takeover(c, t) ==
    /\ UserMoves
    /\ t \notin takeovers[c]
    /\ takeovers' = [takeovers EXCEPT ![c] = @ \cup {t}]
    /\ Send(c, Claim(t, TRUE, epoch[c]))
    /\ UNCHANGED <<observed, owned, selected, visible, epoch, inbox, ghosts>>

\* release: the client lets go at once and parks the lease it had.
ReleaseControl(c, t) ==
    /\ UserMoves
    /\ owned[c][t] # None
    /\ owned' = [owned EXCEPT ![c][t] = None]
    /\ Send(c, ParkCall(t, owned[c][t]))
    /\ released' = [released EXCEPT ![t] = @ \cup {owned[c][t].generation}]
    /\ UNCHANGED <<observed, selected, visible, epoch, takeovers, inbox, held>>

\* input and resize need a lease the client owns (requiredLease).  A resize
\* to the size of the lease is sent only when the caller forces it.
Type(c, t) ==
    /\ UserMoves
    /\ Owns(c, t)
    /\ Send(c, Call("input", t, FALSE, 0, ProofOf(owned[c][t]), None))
    /\ UNCHANGED <<clientVars, inbox, ghosts>>

Fit(c, t, size) ==
    /\ UserMoves
    /\ Owns(c, t)
    /\ Send(c, Call("resize", t, FALSE, 0, ProofOf(owned[c][t]), size))
    /\ UNCHANGED <<clientVars, inbox, ghosts>>

-----------------------------------------------------------------------------
(* The server.  A change of a lease is an event for every client. *)

\* Which message of a channel may be taken: over IPC the first one; over HTTP
\* any answer, and the first of the events.
MayArrive(channel, i) ==
    \/ i = 1
    \/ /\ transport = "http"
       /\ \/ channel[i].kind = "answer"
          \/ \A j \in 1..(i - 1) : channel[j].kind = "answer"

News(t) == IF published'[t] = published[t] THEN <<>> ELSE <<EventOf(t, published'[t])>>

\* The answer to c's call, if c still awaits it, and the event it caused, if any.
Reply(c, call, ok, l) ==
    inbox' = [x \in Clients |-> inbox[x] \o News(call.terminal)
                \o IF x = c /\ ~call.failed THEN <<Answer(call, ok, l)>> ELSE <<>>]

Refuse(c, call) == UNCHANGED <<leaseVars, leaseSize>> /\ Reply(c, call, FALSE, None)

ServeAcquire(c, k) ==
    /\ k.method = "acquire"
    /\ k.terminal \in alive
    /\ Acquire(k.terminal, DeviceOf[c], Host, k.takeover, leaseSize[k.terminal])
    /\ IF \/ HoldsAlready(k.terminal, DeviceOf[c], Host)
          \/ MayAcquire(k.terminal, k.takeover)
       THEN Reply(c, k, TRUE, leases'[k.terminal])
       ELSE Reply(c, k, FALSE, None)
    /\ UNCHANGED leaseSize

ServeCurrent(c, k) ==
    /\ k.method = "current"
    /\ k.terminal \in alive \/ transport = "ipc"
    /\ UNCHANGED <<leaseVars, leaseSize>>
    /\ Reply(c, k, TRUE, leases[k.terminal])

ServePark(c, k) ==
    /\ k.method = "park"
    /\ Park(k.terminal, k.proof)
    /\ Reply(c, k, TRUE, None)
    /\ UNCHANGED leaseSize

ServeInput(c, k) ==
    /\ k.method = "input"
    /\ k.terminal \in alive
    /\ Write(k.terminal, k.proof)
    /\ Reply(c, k, Authorized(k.terminal, k.proof), None)
    /\ UNCHANGED leaseSize

ServeResize(c, k) ==
    /\ k.method = "resize"
    /\ k.terminal \in alive
    /\ Resize(k.terminal, k.proof, k.size)
    /\ Reply(c, k, Authorized(k.terminal, k.proof), None)
    /\ leaseSize' = IF transport = "http" /\ Authorized(k.terminal, k.proof)
                    THEN [leaseSize EXCEPT ![k.terminal] = k.size] ELSE leaseSize

\* A terminal that has exited is not found, or its lease is gone.
ServeGone(c, k) ==
    /\ k.method # "park"
    /\ k.method = "current" => transport = "http"
    /\ k.terminal \notin alive
    /\ Refuse(c, k)

Serve(c) ==
    /\ \E i \in 1..Len(outbox[c]) :
         /\ transport = "ipc" => i = 1
         /\ outbox' = [outbox EXCEPT ![c] = RemoveAt(@, i)]
         /\ LET k == outbox[c][i]
            IN  \/ ServeAcquire(c, k) \/ ServeCurrent(c, k) \/ ServePark(c, k)
                \/ ServeInput(c, k) \/ ServeResize(c, k) \/ ServeGone(c, k)
    /\ UNCHANGED <<clientVars, ghosts, transport, alive, moves, faults>>

\* The PTY of t exits: clearTerminal, and its event.
Exit(t) ==
    /\ t \in alive
    /\ alive' = alive \ {t}
    /\ ClearTerminal(t)
    /\ inbox' = [c \in Clients |-> inbox[c] \o News(t)]
    /\ UNCHANGED <<clientVars, outbox, ghosts, transport, leaseSize, moves, faults>>

-----------------------------------------------------------------------------
(* What a client does with the answers and events *)

\* reconcileOwnedLease.
Reconciled(c, t, l) ==
    IF l # None /\ l.controller = DeviceOf[c] THEN l
    ELSE IF owned[c][t] # None /\ ~Same(owned[c][t], l) THEN None
    ELSE owned[c][t]

\* What refresh and apply have in common.
Observe(c, t, l) ==
    /\ observed' = [observed EXCEPT ![c][t] = l]
    /\ owned' = [owned EXCEPT ![c][t] = Reconciled(c, t, l)]

\* Fault: an event of the generation that is known is dropped as well.
BugApplyNewerOnly(c, e) ==
    /\ e.kind = "event"
    /\ IF observed[c][e.terminal] # None
          /\ observed[c][e.terminal].generation >= e.generation
       THEN UNCHANGED <<observed, owned>>
       ELSE Observe(c, e.terminal, e.lease)
    /\ UNCHANGED <<selected, visible, epoch, takeovers, outbox, held>>

\* apply: an event older than what is known is dropped.
Apply(c, e) ==
    /\ e.kind = "event"
    /\ IF observed[c][e.terminal] # None
          /\ observed[c][e.terminal].generation > e.generation
       THEN UNCHANGED <<observed, owned>>
       ELSE Observe(c, e.terminal, e.lease)
    /\ UNCHANGED <<selected, visible, epoch, takeovers, outbox, held>>

\* A request that ends; .finally of a takeover.
Done(c, k) ==
    takeovers' = [takeovers EXCEPT ![c] = IF k.takeover THEN @ \ {k.terminal} ELSE @]

Outdated(c, k, l) ==
    observed[c][k.terminal] # None /\ observed[c][k.terminal].generation > l.generation

\* The user has moved on since the claim was made.
Abandoned(c, k) ==
    /\ ~k.takeover
    /\ ~visible[c] \/ selected[c] # k.terminal \/ epoch[c] # k.epoch

\* claim after acquire has answered with a lease.
Claimed(c, m) ==
    LET k == m.call t == k.terminal
    IN  /\ k.method = "acquire" /\ m.ok
        /\ Done(c, k)
        /\ IF Outdated(c, k, m.lease) THEN UNCHANGED <<observed, owned, outbox, held>>
           ELSE IF Abandoned(c, k)
           THEN Send(c, ParkCall(t, m.lease)) /\ UNCHANGED <<observed, owned, held>>
           ELSE /\ observed' = [observed EXCEPT ![c][t] = m.lease]
                /\ owned' = [owned EXCEPT ![c][t] = m.lease]
                /\ held' = [held EXCEPT ![t] = @ \cup {m.lease.generation}]
                /\ UNCHANGED outbox
        /\ UNCHANGED <<selected, visible, epoch>>

\* refresh after current has answered.
Refreshed(c, m) ==
    /\ m.call.method = "current"
    /\ Done(c, m.call)
    /\ IF m.ok THEN Observe(c, m.call.terminal, m.lease) ELSE UNCHANGED <<observed, owned>>
    /\ UNCHANGED <<selected, visible, epoch, outbox, held>>

\* A claim, an input or a resize that failed asks who is in control.
Failed(c, m) ==
    /\ m.call.method \in {"acquire", "input", "resize"} /\ ~m.ok
    /\ Send(c, Current(m.call.terminal, m.call.takeover))
    /\ UNCHANGED <<clientVars, held>>

\* Nothing is left to do.
Settled(c, m) ==
    /\ m.call.method \in {"input", "resize"} => m.ok
    /\ m.call.method \in {"park", "input", "resize"}
    /\ UNCHANGED <<clientVars, outbox, held>>

Arrive(c) ==
    /\ \E i \in 1..Len(inbox[c]) :
         /\ MayArrive(inbox[c], i)
         /\ inbox' = [inbox EXCEPT ![c] = RemoveAt(@, i)]
         /\ LET m == inbox[c][i]
            IN  \/ Apply(c, m)
                \/ /\ m.kind = "answer"
                   /\ Claimed(c, m) \/ Refreshed(c, m) \/ Failed(c, m) \/ Settled(c, m)
    /\ UNCHANGED <<leaseVars, transport, alive, leaseSize, moves, faults, released>>

-----------------------------------------------------------------------------
(* Faults of the browser's transport *)

Fault ==
    /\ transport = "http"
    /\ faults < MaxFaults
    /\ faults' = faults + 1
    /\ UNCHANGED <<leaseVars, clientVars, ghosts, transport, alive, leaseSize, moves>>

\* A call fails that the server has not handled: it never will, or it will when
\* the client has gone on.
CallFails(c) ==
    /\ Fault
    /\ \E i \in 1..Len(outbox[c]) :
         /\ ~outbox[c][i].failed
         /\ \/ outbox' = [outbox EXCEPT ![c] = RemoveAt(@, i)]
            \/ outbox' = [outbox EXCEPT ![c][i].failed = TRUE]
         /\ inbox' = [inbox EXCEPT ![c] = Append(@, Answer(outbox[c][i], FALSE, None))]

\* An answer is lost, and the call fails though the server has done it.
AnswerFails(c) ==
    /\ Fault
    /\ \E i \in 1..Len(inbox[c]) :
         /\ inbox[c][i].kind = "answer" /\ inbox[c][i].ok
         /\ inbox' = [inbox EXCEPT ![c][i] = Answer(inbox[c][i].call, FALSE, None)]
    /\ UNCHANGED outbox

\* The WebSocket breaks, and the events on their way are never seen.
LoseEvents(c) ==
    /\ Fault
    /\ \E i \in 1..Len(inbox[c]) : inbox[c][i].kind = "event"
    /\ LET answers == {i \in 1..Len(inbox[c]) : inbox[c][i].kind = "answer"}
       IN  \E order \in [1..Cardinality(answers) -> answers] :
             /\ \A i, j \in DOMAIN order : i < j => order[i] < order[j]
             /\ inbox' = [inbox EXCEPT ![c] = [i \in DOMAIN order |-> @[order[i]]]]
    /\ UNCHANGED outbox

-----------------------------------------------------------------------------
Next ==
    \/ \E c \in Clients, t \in Terminals \cup {None} : Select(c, t)
    \/ \E c \in Clients : SetPageVisible(c)
    \/ \E c \in Clients, t \in Terminals :
          Takeover(c, t) \/ ReleaseControl(c, t) \/ Type(c, t)
    \/ \E c \in Clients, t \in Terminals, size \in Sizes : Fit(c, t, size)
    \/ \E c \in Clients : Serve(c) \/ Arrive(c)
    \/ \E t \in Terminals : Exit(t)
    \/ \E c \in Clients : CallFails(c) \/ AnswerFails(c) \/ LoseEvents(c)

Spec == Init /\ [][Next]_vars

-----------------------------------------------------------------------------
(***************************************************************************)
(* The properties.                                                         *)
(***************************************************************************)
\* Over an ordered transport a window that has handled all its messages knows
\* the lease of every terminal, and believes itself in control only if its
\* Device is: no answer undoes what a later event said (apply, claim, refresh).
SettledClientsKnowTheLease ==
    transport = "ipc" => \A c \in Clients, t \in Terminals :
        inbox[c] = <<>> =>
            /\ observed[c][t] = leases[t]
            /\ Owns(c, t) => leases[t].controller = DeviceOf[c]

\* Control goes straight from one Device to another only while a user of the
\* new one waits for a takeover ("a Spectator may explicitly take over",
\* CONTEXT.md), or has asked for one with a call that failed for the client and
\* is still on its way: no selection, reveal or retry takes a terminal from
\* anybody.
WantsTakeover(c, t) ==
    \/ t \in takeovers[c]
    \/ \E k \in ToSet(outbox[c]) :
          k.failed /\ k.method = "acquire" /\ k.takeover /\ k.terminal = t

TakeoverNeedsAUser ==
    [][\A t \in Terminals :
         (/\ leases[t] # None /\ leases'[t] # None
          /\ leases'[t].controller # leases[t].controller)
         => \E c \in Clients : /\ DeviceOf[c] = leases'[t].controller
                               /\ WantsTakeover(c, t)]_vars

\* A Device that holds a terminal keeps it through selections of other
\* Sessions and hidden pages (terminal-control.test.ts:124, 137 and 177):
\* a lease that a claim has installed ends only by the user's release, by the
\* exit of the terminal, or by a takeover.
ControlOutlivesSelection ==
    \A t \in alive :
        leases[t] = None /\ generations[t] \in held[t] => generations[t] \in released[t]
=============================================================================
