------------------------- MODULE TerminalPresentation -------------------------
(***************************************************************************)
(* TerminalHistorySession (src/lib/terminal-session.ts): how a client      *)
(* keeps the presentations of one terminal equal to what its PTY wrote.    *)
(*                                                                         *)
(* A session asks the server for live output only while one of its viewers *)
(* is visible, replaces everything by a history snapshot when it cannot    *)
(* tell what it missed, and holds live output back while a snapshot is on  *)
(* its way.  It keeps the snapshot and a bounded tail of events, which     *)
(* each viewer's surface (GhosttyTerminal.svelte) applies at its own pace. *)
(*                                                                         *)
(* Output is a sequence number: the n-th chunk of the PTY.  The server     *)
(* filters output by the demand it was told and by the connection.  Calls  *)
(* (HTTP) and events (WebSocket) travel independently: a call may fail     *)
(* while the event connection is up, before the server handles it, after   *)
(* it did, or to be handled later.  The byte limits, which work like the   *)
(* event limits, appear only as Oversized chunks.                          *)
(***************************************************************************)
EXTENDS Naturals, FiniteSets, SequencesExt

CONSTANTS
    Viewers,      \* attachments
    MaxSeq,       \* bound on the output, for TLC
    Limit,        \* MAX_TERMINAL_PRESENTATION_PENDING_EVENTS
    Oversized,    \* chunks larger than MAX_TERMINAL_PRESENTATION_PENDING_BYTES
    MaxSessions,  \* bound on sessions opened one after the other
    MaxToggles,   \* bound on mounts, reveals, hides and unmounts
    MaxDrops,     \* bound on lost connections
    MaxFailures,  \* bound on failing calls
    MayForget,    \* TRUE: a disconnected server may lose the client's demand
    None          \* null

Chunks == 1..MaxSeq
Cursors == 0..MaxSeq
Statuses == {"idle", "loading", "recovering", "ready", "error"}
State == [status : Statuses, generation : Nat, resetTo : Cursors, tail : Seq(Chunks),
          toSeq : Cursors]
Surface == [generation : Nat \cup {None}, toSeq : Cursors, shown : Seq(Chunks)]
Request == [current : BOOLEAN, toSeq : Cursors \cup {None}]
Held == [events : Seq(Chunks), overflowed : BOOLEAN]
Activation == [calls : Nat, force : BOOLEAN]

ASSUME PresentationBounds ==
    /\ MaxSeq \in Nat /\ Limit \in Nat \ {0} /\ Oversized \subseteq Chunks
    /\ MaxSessions \in Nat /\ MaxToggles \in Nat /\ MaxDrops \in Nat
    /\ MaxFailures \in Nat /\ MayForget \in BOOLEAN
    /\ None \notin Nat /\ None \notin Held

VARIABLES
    emitted,       \* chunks the PTY has written; the Runtime's history has them all
    demand,        \* the server's output demand of this client
    connected,     \* the event connection is up
    wire,          \* output events on their way to the client
    chains,        \* chains[k]: demandSync of session k, the calls still to complete
    handled,       \* handled[k]: the first of them has been handled, not yet answered
    stray,         \* demands of calls that failed but may still reach the server
    requests,      \* historySnapshot calls: whether syncToken is still theirs, and the
                   \* answer's toSeq, None until answered
    session,       \* number of the latest session; earlier ones are disposed
    mounted,       \* its attachments
    visible,       \* those that are visible
    demandActive,  \* the demand it last asked for
    waiting,       \* activate calls that await demandSync: calls to go, and force
    state,         \* the TerminalSessionState it publishes
    pending,       \* events held back for a snapshot, or None
    surface,       \* surface[v]: v's applied cursor and the output it shows
    toggles, drops, failures,
    adrift,        \* history: the demand is not what the session's last call to be
                   \* handled said, or a call to change it was lost since
    untroubled     \* history: no viewer was hidden, no demand lost or forgotten

serverVars == <<emitted, demand, connected, wire, drops>>
viewVars == <<session, mounted, visible, demandActive, toggles>>
syncVars == <<requests, state, pending>>
callVars == <<chains, handled, stray, failures>>
vars == <<serverVars, viewVars, syncVars, callVars, waiting, surface, adrift, untroubled>>

EmptyState == [status |-> "idle", generation |-> 0, resetTo |-> 0,
               tail |-> <<>>, toSeq |-> 0]
BlankSurface == [generation |-> None, toSeq |-> 0, shown |-> <<>>]
NothingHeld == [events |-> <<>>, overflowed |-> FALSE]

TypeOK ==
    /\ emitted \in Cursors /\ demand \in BOOLEAN /\ connected \in BOOLEAN
    /\ wire \in Seq(Chunks)
    /\ chains \in [1..MaxSessions -> Seq(BOOLEAN)]
    /\ handled \in [1..MaxSessions -> BOOLEAN]
    /\ stray \subseteq BOOLEAN
    /\ requests \subseteq Request
    /\ session \in 0..MaxSessions
    /\ mounted \subseteq Viewers /\ visible \subseteq mounted
    /\ demandActive \in BOOLEAN
    /\ waiting \in Seq(Activation)
    /\ state \in State
    /\ pending \in Held \cup {None}
    /\ pending # None => Len(pending.events) <= Limit
    /\ surface \in [Viewers -> Surface]
    /\ toggles \in 0..MaxToggles /\ drops \in 0..MaxDrops /\ failures \in 0..MaxFailures
    /\ adrift \in BOOLEAN /\ untroubled \in BOOLEAN

Init ==
    /\ emitted = 0 /\ demand = FALSE /\ connected = TRUE /\ wire = <<>>
    /\ chains = [k \in 1..MaxSessions |-> <<>>]
    /\ handled = [k \in 1..MaxSessions |-> FALSE]
    /\ stray = {}
    /\ requests = {}
    /\ session = 0 /\ mounted = {} /\ visible = {}
    /\ demandActive = FALSE
    /\ waiting = <<>>
    /\ state = EmptyState
    /\ pending = None
    /\ surface = [v \in Viewers |-> BlankSurface]
    /\ toggles = 0 /\ drops = 0 /\ failures = 0
    /\ adrift = FALSE /\ untroubled = TRUE

\* An activate call whose await is over continues before the next event or call.
Due == waiting # <<>> /\ waiting[1].calls = 0

-----------------------------------------------------------------------------
(* The Runtime and the server *)

\* Output goes to the clients that are connected and demand it.
Emit ==
    /\ ~Due
    /\ emitted < MaxSeq
    /\ emitted' = emitted + 1
    /\ wire' = IF connected /\ demand THEN Append(wire, emitted + 1) ELSE wire
    /\ UNCHANGED <<demand, connected, drops, viewVars, syncVars, callVars, waiting,
                   surface, adrift, untroubled>>

Answer(r) ==
    /\ ~Due
    /\ r.toSeq = None
    /\ requests' = (requests \ {r}) \cup {[r EXCEPT !.toSeq = emitted]}
    /\ UNCHANGED <<serverVars, viewVars, state, pending, callVars, waiting,
                   surface, adrift, untroubled>>

Disconnect ==
    /\ ~Due
    /\ connected
    /\ drops < MaxDrops
    /\ connected' = FALSE
    /\ drops' = drops + 1
    /\ wire' = <<>>
    /\ UNCHANGED <<emitted, demand, viewVars, syncVars, callVars, waiting, surface,
                   adrift, untroubled>>

\* The grace period for a client without a socket ends, or the server is replaced.
ForgetDemand ==
    /\ ~Due
    /\ MayForget
    /\ ~connected
    /\ demand
    /\ demand' = FALSE
    /\ adrift' = TRUE
    /\ untroubled' = FALSE
    /\ UNCHANGED <<emitted, connected, wire, drops, viewVars, syncVars, callVars, waiting,
                   surface>>

-----------------------------------------------------------------------------
(* Output demand *)

\* Fault: no call is made while another is out.
BugSyncDemandSkipped(k, V) ==
    /\ visible' = V
    /\ demandActive' = (V # {})
    /\ chains' = IF (V # {}) = demandActive \/ chains[k] # <<>> THEN chains
                 ELSE [chains EXCEPT ![k] = Append(@, V # {})]

\* syncDemand of session k when V becomes the set of visible attachments: a
\* call joins the chain when the wanted demand changes.
SyncDemand(k, V) ==
    /\ visible' = V
    /\ demandActive' = (V # {})
    /\ chains' = IF (V # {}) = demandActive THEN chains
                 ELSE [chains EXCEPT ![k] = Append(@, V # {})]

\* The part of activate before its await: it waits for all calls made so far.
Activate(k, V, force) ==
    /\ SyncDemand(k, V)
    /\ waiting' = Append(waiting, [calls |-> Len(chains'[k]), force |-> force])

\* The server handles the next call of session k, all of whose earlier calls
\* are done; the calls of two sessions are in no order.
HandleDemand(k) ==
    /\ ~Due
    /\ chains[k] # <<>>
    /\ ~handled[k]
    /\ demand' = Head(chains[k])
    /\ handled' = [handled EXCEPT ![k] = TRUE]
    /\ adrift' = (k # session)
    /\ untroubled' = (untroubled /\ k = session)
    /\ UNCHANGED <<emitted, connected, wire, drops, viewVars, syncVars, chains, stray,
                   failures, waiting, surface>>

\* The first call of session k is over, for those who wait for it too.
CallDone(k) ==
    /\ chains' = [chains EXCEPT ![k] = Tail(@)]
    /\ handled' = [handled EXCEPT ![k] = FALSE]
    /\ waiting' = IF k = session
                  THEN [i \in DOMAIN waiting |-> [waiting[i] EXCEPT !.calls = @ - 1]]
                  ELSE waiting

DemandAnswered(k) ==
    /\ ~Due
    /\ handled[k]
    /\ CallDone(k)
    /\ UNCHANGED <<serverVars, viewVars, syncVars, stray, failures, surface, adrift,
                   untroubled>>

Failure == failures < MaxFailures /\ failures' = failures + 1

\* A call is rejected.  The server may have handled it, may never do so, or may
\* do so later, after calls that follow it in the chain.
DemandFails(k) ==
    /\ ~Due
    /\ Failure
    /\ chains[k] # <<>>
    /\ CallDone(k)
    /\ stray' \in {stray, IF handled[k] THEN stray ELSE stray \cup {Head(chains[k])}}
    /\ state' = IF Head(chains[k]) /\ k = session /\ mounted # {} /\ demandActive
                THEN [state EXCEPT !.status = "error"] ELSE state
    /\ adrift' = (adrift \/ ~handled[k])
    /\ untroubled' = (untroubled /\ handled[k])
    /\ UNCHANGED <<serverVars, viewVars, requests, pending, surface>>

\* The server handles a call that its client has given up.
HandleStray(active) ==
    /\ ~Due
    /\ active \in stray
    /\ demand' = active
    /\ stray' = stray \ {active}
    /\ adrift' = TRUE
    /\ UNCHANGED <<emitted, connected, wire, drops, viewVars, syncVars, chains, handled,
                   failures, waiting, surface, untroubled>>

-----------------------------------------------------------------------------
(* Snapshots *)

\* syncToken moves on: what the requests out are answered counts no more.
Superseded(out) == {[r EXCEPT !.current = FALSE] : r \in out}

\* resync: nothing without a visible attachment, else a new request that
\* supersedes the others.  rest is what requests becomes besides, held what
\* pending is when resync is called.
Resync(rest, held) ==
    IF visible = {}
    THEN /\ requests' = rest
         /\ pending' = held
         /\ UNCHANGED state
    ELSE /\ requests' = Superseded(rest) \cup {[current |-> TRUE, toSeq |-> None]}
         /\ pending' = NothingHeld
         /\ state' = [state EXCEPT !.status = IF @ \in {"idle", "error"}
                                              THEN "loading" ELSE "recovering"]

\* activate after its await.
Continue ==
    /\ Due
    /\ waiting' = Tail(waiting)
    /\ IF waiting[1].force \/ state.status # "loading"
       THEN Resync(requests, pending)
       ELSE UNCHANGED syncVars
    /\ UNCHANGED <<serverVars, viewVars, callVars, surface, adrift, untroubled>>

Newest(events) == SubSeq(events, 1 + IF Len(events) > Limit THEN Len(events) - Limit ELSE 0,
                         Len(events))

\* append, for each of events, all of which fit: the tail keeps the newest Limit.
AppendEvents(s, events) ==
    [s EXCEPT !.tail = Newest(@ \o events),
              !.toSeq = IF events = <<>> THEN @ ELSE Last(events)]

\* applySnapshot
SnapshotState(toSeq) ==
    [status |-> "ready", generation |-> state.generation + 1,
     resetTo |-> toSeq, tail |-> <<>>, toSeq |-> toSeq]

\* The events above n.  They are in the order of their numbers, here and in a tail.
Newer(events, n) ==
    SubSeq(events, 1 + Cardinality({i \in DOMAIN events : events[i] <= n}), Len(events))

\* Do events bear the numbers after first?
Consecutive(events, first) == \A i \in DOMAIN events : events[i] = first + i

\* A response that is not superseded: the snapshot replaces the state, unless
\* the events held back do not continue it.
SnapshotResponse(r) ==
    /\ ~Due
    /\ r.toSeq # None
    /\ LET rest   == requests \ {r}
           unseen == Newer(pending.events, r.toSeq)
       IN  IF mounted = {} \/ ~r.current
           THEN requests' = rest /\ UNCHANGED <<state, pending>>
           ELSE IF pending.overflowed \/ ~Consecutive(unseen, r.toSeq)
           THEN Resync(rest, None)
           ELSE /\ requests' = rest
                /\ pending' = None
                /\ state' = AppendEvents(SnapshotState(r.toSeq), unseen)
    /\ UNCHANGED <<serverVars, viewVars, callVars, waiting, surface, adrift, untroubled>>

\* Fault: a failed snapshot leaves the events held back.
BugSnapshotFailsHolding(r) ==
    /\ ~Due
    /\ Failure
    /\ requests' = requests \ {r}
    /\ state' = IF mounted # {} /\ r.current
                THEN [state EXCEPT !.status = "error"] ELSE state
    /\ UNCHANGED <<serverVars, viewVars, pending, chains, handled, stray, waiting, surface,
                   adrift, untroubled>>

\* A request is rejected, answered or not.  Nothing asks again by itself.
SnapshotFails(r) ==
    /\ ~Due
    /\ Failure
    /\ requests' = requests \ {r}
    /\ IF mounted # {} /\ r.current
       THEN /\ pending' = None
            /\ state' = [state EXCEPT !.status = "error"]
       ELSE UNCHANGED <<pending, state>>
    /\ UNCHANGED <<serverVars, viewVars, chains, handled, stray, waiting, surface, adrift,
                   untroubled>>

-----------------------------------------------------------------------------
(* Live output *)

\* collectPending
Collect(held, n) ==
    IF held.overflowed THEN held
    ELSE IF n \in Oversized \/ Len(held.events) >= Limit
    THEN [events |-> <<>>, overflowed |-> TRUE]
    ELSE [held EXCEPT !.events = Append(@, n)]

Follows(n) == n = state.toSeq + 1

Receive ==
    /\ ~Due
    /\ wire # <<>>
    /\ wire' = Tail(wire)
    /\ LET n == Head(wire)
       IN  CASE mounted = {} -> UNCHANGED syncVars
             [] mounted # {} /\ pending # None ->
                  pending' = Collect(pending, n) /\ UNCHANGED <<requests, state>>
             [] mounted # {} /\ pending = None /\ n <= state.toSeq -> UNCHANGED syncVars
             [] mounted # {} /\ pending = None /\ n > state.toSeq ->
                  IF Follows(n) /\ n \notin Oversized
                  THEN state' = AppendEvents(state, <<n>>) /\ UNCHANGED <<requests, pending>>
                  ELSE Resync(requests, None)
    /\ UNCHANGED <<emitted, demand, connected, drops, viewVars, callVars, waiting,
                   surface, adrift, untroubled>>


\* The client's event connection is back: onReconnect.
Reconnect ==
    /\ ~Due
    /\ ~connected
    /\ connected' = TRUE
    /\ IF visible # {}
       THEN Activate(session, visible, TRUE)
       ELSE UNCHANGED <<visible, demandActive, chains, waiting>>
    /\ UNCHANGED <<emitted, demand, wire, drops, syncVars, handled, stray, failures, session,
                   mounted, toggles, surface, adrift, untroubled>>

-----------------------------------------------------------------------------
(* Viewers *)

Toggle == ~Due /\ toggles < MaxToggles /\ toggles' = toggles + 1

\* connect of a visible attachment to the session that is open.
Connect(v) ==
    /\ Toggle
    /\ mounted # {}
    /\ v \notin mounted
    /\ mounted' = mounted \cup {v}
    /\ Activate(session, visible \cup {v}, FALSE)
    /\ surface' = [surface EXCEPT ![v] = BlankSurface]
    /\ UNCHANGED <<serverVars, syncVars, handled, stray, failures, session, adrift, untroubled>>

\* connect of a visible attachment when the last session has been disposed.
Open(v) ==
    /\ Toggle
    /\ mounted = {}
    /\ session < MaxSessions
    /\ session' = session + 1
    /\ mounted' = {v}
    /\ visible' = {v}
    /\ demandActive' = TRUE
    /\ chains' = [chains EXCEPT ![session + 1] = <<TRUE>>]
    /\ waiting' = <<[calls |-> 1, force |-> FALSE]>>
    /\ state' = EmptyState
    /\ pending' = None
    /\ surface' = [surface EXCEPT ![v] = BlankSurface]
    /\ untroubled' = (untroubled /\ wire = <<>>)
    /\ UNCHANGED <<serverVars, requests, handled, stray, failures, adrift>>

\* setVisible(true)
Show(v) ==
    /\ Toggle
    /\ v \in mounted \ visible
    /\ Activate(session, visible \cup {v}, FALSE)
    /\ UNCHANGED <<serverVars, syncVars, handled, stray, failures, session, mounted, surface,
                   adrift, untroubled>>

\* setVisible(false)
Hide(v) ==
    /\ Toggle
    /\ untroubled' = FALSE
    /\ v \in visible
    /\ SyncDemand(session, visible \ {v})
    /\ UNCHANGED <<serverVars, syncVars, handled, stray, failures, session, mounted,
                   waiting, surface, adrift>>

\* dispose of an attachment, and of the session with its last one.
Dispose(v) ==
    /\ Toggle
    /\ v \in mounted
    /\ mounted' = mounted \ {v}
    /\ SyncDemand(session, visible \ {v})
    /\ IF mounted = {v}
       THEN requests' = Superseded(requests) /\ pending' = None /\ waiting' = <<>>
       ELSE UNCHANGED <<requests, pending, waiting>>
    /\ UNCHANGED <<serverVars, state, handled, stray, failures, session, surface, adrift,
                   untroubled>>

-----------------------------------------------------------------------------
(* Surfaces: terminalPresentationUpdates and the effect that applies them *)

\* Fault: a lagging surface takes what is left of the tail.
BugCanFollow(cursor, start, unseen) == TRUE

\* Can a surface at cursor be brought up to date by the events unseen?
CanFollow(cursor, start, unseen) ==
    /\ cursor.generation = state.generation =>
         cursor.toSeq >= state.resetTo /\ cursor.toSeq <= state.toSeq
    /\ Consecutive(unseen, start)
    /\ start + Len(unseen) = state.toSeq

Present(v) ==
    /\ ~Due
    /\ v \in mounted
    /\ state.status = "ready"
    /\ surface[v].generation # state.generation \/ surface[v].toSeq # state.toSeq
    /\ LET isReset == surface[v].generation # state.generation
           start   == IF isReset THEN state.resetTo ELSE surface[v].toSeq
           base    == IF isReset THEN [n \in 1..state.resetTo |-> n] ELSE surface[v].shown
           unseen  == Newer(state.tail, start)
       IN  IF CanFollow(surface[v], start, unseen)
           THEN /\ surface' = [surface EXCEPT ![v] =
                      [generation |-> state.generation, toSeq |-> state.toSeq,
                       shown |-> base \o unseen]]
                /\ UNCHANGED syncVars
           ELSE Resync(requests, pending) /\ UNCHANGED surface
    /\ UNCHANGED <<serverVars, viewVars, callVars, waiting, adrift, untroubled>>

-----------------------------------------------------------------------------
Next ==
    \/ Emit \/ Disconnect \/ ForgetDemand \/ Reconnect \/ Continue \/ Receive
    \/ \E k \in 1..MaxSessions : HandleDemand(k) \/ DemandAnswered(k) \/ DemandFails(k)
    \/ \E active \in stray : HandleStray(active)
    \/ \E r \in requests : Answer(r) \/ SnapshotResponse(r) \/ SnapshotFails(r)
    \/ \E v \in Viewers : Open(v) \/ Connect(v) \/ Show(v) \/ Hide(v) \/ Dispose(v) \/ Present(v)

Spec == Init /\ [][Next]_vars

\* The world does not stop while a call that has not failed is to be handled or
\* answered, an event, an activation or an effect to run, or a lost connection to
\* come back.  Nothing makes a call that failed reach the server.
Progress ==
    \/ Continue \/ Receive \/ Reconnect
    \/ \E k \in 1..MaxSessions : HandleDemand(k) \/ DemandAnswered(k)
    \/ \E r \in requests : Answer(r) \/ SnapshotResponse(r)
    \/ \E v \in Viewers : Present(v)

FairSpec == Spec /\ WF_vars(Progress)
-----------------------------------------------------------------------------
(***************************************************************************)
(* The properties.                                                         *)
(***************************************************************************)
\* A surface shows the output of the PTY from its start to the surface's
\* cursor: no chunk is missing, repeated or out of order, however snapshots,
\* held-back events and live events interleave and however far it lags.
SurfacesShowPrefix ==
    \A v \in Viewers : /\ surface[v].shown = [n \in 1..surface[v].toSeq |-> n]
                       /\ surface[v].toSeq <= emitted

\* Events are held back only while the request that will release them is on its
\* way; a session with nothing on its way would hold them for ever.
HeldEventsAreReleased ==
    pending # None => \E r \in requests : r.current

\* Once the calls of every session are done the server sends output if and only
\* if somebody looks: "The first resident Terminal Presentation acquires Terminal
\* Output Demand for its PTY; the final resident owner releases cross-process
\* publication" (CONTEXT.md).  This is so across hides, reveals, sessions, lost
\* answers and lost connections, and it is so again with the next call of the
\* session that is handled after a failure.  It is not so between a failure and
\* that call (adrift), for nothing sends a demand again by itself: when a call
\* failed that the server had not handled, a failed call was handled late, a call
\* of a disposed session came after those of its successor, or the server forgot
\* a client it had lost.
DemandFollowsVisibility ==
    ~adrift /\ (\A k \in 1..MaxSessions : chains[k] = <<>>) => (demand <=> visible # {})

\* "reveal always replaces the presentation reset from Runtime authority before
\* accepting live output" (terminal-session.ts): a visible session that is ready,
\* whose demand is on and to which nothing is on its way, lacks nothing, not even
\* what was written while it was hidden.
RevealShowsHiddenOutput ==
    state.status = "ready" /\ visible # {} /\ waiting = <<>> /\ wire = <<>>
    /\ requests = {} /\ connected /\ demand
        => state.toSeq = emitted

=============================================================================
