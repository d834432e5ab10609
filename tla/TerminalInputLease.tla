------------------------- MODULE TerminalInputLease -------------------------
(***************************************************************************)
(* TerminalInputLeaseManager (apps/runtime/src), the Runtime's arbiter of  *)
(* who may type into, and resize, a terminal.                              *)
(*                                                                         *)
(* A lease binds a terminal to a controlling Device under a fresh lease    *)
(* id.  Input and resize present a proof: the identities of a lease the    *)
(* Device was once granted, which may have ended since.  A terminal id is  *)
(* minted for one PTY and never reused (newTerminalId), so the Session id  *)
(* of a lease is a function of its terminal and is not carried along;      *)
(* controller names and timestamps are left out.                           *)
(***************************************************************************)
EXTENDS Naturals

CONSTANTS
    Terminals,  \* terminal ids
    Devices,    \* controllerDeviceId values
    Owners,     \* ownerDeviceId values
    Sizes,      \* terminal dimensions
    MaxLeases,  \* bound on the lease ids handed out, for TLC
    None        \* null

VARIABLES
    leases,       \* leases[t]: the active lease or None
    affinities,   \* affinities[t]: the Device that last controlled t, or None
    generations,  \* generations[t]: the last generation given out for t
    issued,       \* how many lease ids nextLeaseId has returned
    published,    \* published[t]: the last inputLease event for t
    granted,      \* granted[t]: the proofs clients were given for t
    inputs        \* inputs[t]: generation of the lease whose proof carried the
                  \* last input t's PTY was given; 0 when none was

leaseVars == <<leases, affinities, generations, issued, published, granted, inputs>>

Lease == [leaseId : Nat \ {0}, owner : Owners, controller : Devices,
          generation : Nat \ {0}, size : Sizes]
Proof == [leaseId : Nat \ {0}, owner : Owners, controller : Devices,
          generation : Nat \ {0}]
Event == [type : {"none", "acquired", "taken-over", "resized", "released"},
          lease : Lease \cup {None}, generation : Nat]

ASSUME NoneAssumption == None \notin Devices /\ None \notin Lease
ASSUME BoundAssumption == MaxLeases \in Nat

LeaseTypeOK ==
    /\ leases \in [Terminals -> Lease \cup {None}]
    /\ affinities \in [Terminals -> Devices \cup {None}]
    /\ generations \in [Terminals -> Nat]
    /\ issued \in Nat
    /\ published \in [Terminals -> Event]
    /\ granted \in [Terminals -> SUBSET Proof]
    /\ inputs \in [Terminals -> Nat]

LeaseInit ==
    /\ leases = [t \in Terminals |-> None]
    /\ affinities = [t \in Terminals |-> None]
    /\ generations = [t \in Terminals |-> 0]
    /\ issued = 0
    /\ published = [t \in Terminals |->
                      [type |-> "none", lease |-> None, generation |-> 0]]
    /\ granted = [t \in Terminals |-> {}]
    /\ inputs = [t \in Terminals |-> 0]

-----------------------------------------------------------------------------
\* terminalControlProof: what a client presents for a lease it was given.
ProofOf(l) == [leaseId |-> l.leaseId, owner |-> l.owner,
               controller |-> l.controller, generation |-> l.generation]

\* Fault: sameControl without the lease id.
BugSameControlOfDevices(l, p) == l.owner = p.owner /\ l.controller = p.controller

\* sameControl, and the comparison authorizeControl makes.
SameControl(l, p) ==
    /\ l.owner = p.owner
    /\ l.controller = p.controller
    /\ l.leaseId = p.leaseId

\* Fault: authorizeControl that compares the controller only.
BugAuthorizeAnyController(t, p) ==
    leases[t] # None /\ leases[t].controller = p.controller

\* Does proof p carry the authority of t's current lease?
Authorized(t, p) == leases[t] # None /\ SameControl(leases[t], p)

Publish(t, type, l, g) ==
    published' = [published EXCEPT ![t] =
                    [type |-> type, lease |-> l, generation |-> g]]

\* acquire by the Device that holds the lease already: it gets the lease again.
HoldsAlready(t, d, o) ==
    /\ leases[t] # None
    /\ leases[t].owner = o
    /\ leases[t].controller = d

\* acquire by anyone else while t is held needs an explicit takeover.
MayAcquire(t, takeover) == leases[t] = None \/ takeover

\* The tail of acquire: a new lease under a fresh id, the next generation.
Grant(t, d, o, size) ==
    LET l == [leaseId |-> issued + 1, owner |-> o, controller |-> d,
              generation |-> generations[t] + 1, size |-> size]
    IN  /\ generations' = [generations EXCEPT ![t] = @ + 1]
        /\ issued' = issued + 1
        /\ leases' = [leases EXCEPT ![t] = l]
        /\ affinities' = [affinities EXCEPT ![t] = d]
        /\ granted' = [granted EXCEPT ![t] = @ \cup {ProofOf(l)}]
        /\ Publish(t, IF leases[t] = None THEN "acquired" ELSE "taken-over",
                   l, l.generation)
        /\ UNCHANGED inputs

\* size is the terminal's own, which the caller passes in.
Acquire(t, d, o, takeover, size) ==
    \/ HoldsAlready(t, d, o) /\ UNCHANGED leaseVars
    \/ ~HoldsAlready(t, d, o) /\ ~MayAcquire(t, takeover) /\ UNCHANGED leaseVars
    \/ /\ ~HoldsAlready(t, d, o)
       /\ MayAcquire(t, takeover)
       /\ issued < MaxLeases
       /\ Grant(t, d, o, size)

\* Input: authorizeControl, then the PTY is given the data.
Write(t, p) ==
    \/ ~Authorized(t, p) /\ UNCHANGED leaseVars
    \/ /\ Authorized(t, p)
       /\ inputs' = [inputs EXCEPT ![t] = p.generation]
       /\ UNCHANGED <<leases, affinities, generations, issued, published, granted>>

\* resize: only a change of size is published.
SetSize(t, size) ==
    /\ leases' = [leases EXCEPT ![t].size = size]
    /\ Publish(t, "resized", leases'[t], leases[t].generation)
    /\ UNCHANGED <<affinities, generations, issued, granted, inputs>>

Resize(t, p, size) ==
    \/ ~Authorized(t, p) /\ UNCHANGED leaseVars
    \/ Authorized(t, p) /\ leases[t].size = size /\ UNCHANGED leaseVars
    \/ Authorized(t, p) /\ leases[t].size # size /\ SetSize(t, size)

\* The end of t's lease, published under the generation that ends.
EndLease(t) ==
    /\ leases' = [leases EXCEPT ![t] = None]
    /\ Publish(t, "released", None, leases[t].generation)

\* Fault: release that deletes the generation as well.
BugReleaseForgetsGeneration(t, p) ==
    \/ ~Authorized(t, p) /\ UNCHANGED leaseVars
    \/ /\ Authorized(t, p)
       /\ EndLease(t)
       /\ generations' = [generations EXCEPT ![t] = 0]
       /\ UNCHANGED <<affinities, issued, granted, inputs>>

Release(t, p) ==
    \/ ~Authorized(t, p) /\ UNCHANGED leaseVars
    \/ /\ Authorized(t, p)
       /\ EndLease(t)
       /\ UNCHANGED <<affinities, generations, issued, granted, inputs>>

\* park keeps the affinity of the Device that lets go.
Park(t, p) ==
    \/ ~Authorized(t, p) /\ UNCHANGED leaseVars
    \/ /\ Authorized(t, p)
       /\ EndLease(t)
       /\ affinities' = [affinities EXCEPT ![t] = leases[t].controller]
       /\ UNCHANGED <<generations, issued, granted, inputs>>

\* clearTerminal returns early, affinity and all, when there is no lease.
ClearTerminal(t) ==
    \/ leases[t] = None /\ UNCHANGED leaseVars
    \/ /\ leases[t] # None
       /\ EndLease(t)
       /\ affinities' = [affinities EXCEPT ![t] = None]
       /\ UNCHANGED <<generations, issued, granted, inputs>>

\* Fault: clear that empties the map without clearTerminal for each.
BugClearSilently ==
    /\ leases' = [t \in Terminals |-> None]
    /\ affinities' = [t \in Terminals |-> None]
    /\ UNCHANGED <<generations, issued, published, granted, inputs>>

\* clear: clearTerminal for every lease, then every affinity goes.
Clear ==
    /\ leases' = [t \in Terminals |-> None]
    /\ affinities' = [t \in Terminals |-> None]
    /\ published' = [t \in Terminals |->
          IF leases[t] = None THEN published[t]
          ELSE [type |-> "released", lease |-> None,
                generation |-> leases[t].generation]]
    /\ UNCHANGED <<generations, issued, granted, inputs>>

\* Fault: the leases of a transport that ends are released.
BugTransportReleasesLeases == Clear

\* The transport of any client may end: the lease manager keeps every lease.
ReleaseTransportClient == UNCHANGED leaseVars
-----------------------------------------------------------------------------
LeaseNext ==
    \/ \E t \in Terminals, d \in Devices, o \in Owners, takeover \in BOOLEAN,
          size \in Sizes : Acquire(t, d, o, takeover, size)
    \/ \E t \in Terminals : \E p \in granted[t] :
          Write(t, p) \/ Release(t, p) \/ Park(t, p)
    \/ \E t \in Terminals : \E p \in granted[t], size \in Sizes : Resize(t, p, size)
    \/ \E t \in Terminals : ClearTerminal(t)
    \/ Clear

LeaseSpec == LeaseInit /\ [][LeaseNext]_leaseVars
-----------------------------------------------------------------------------
(***************************************************************************)
(* The properties.                                                         *)
(***************************************************************************)
\* A listener that folds the published events knows the lease in force: no
\* change of control, and no end of it, goes unannounced (publish).
ListenersKnowTheLease == \A t \in Terminals : published[t].lease = leases[t]

\* "Generations may order observations": the events of a terminal never go
\* back a generation, and a new lease always comes under a later generation
\* than every event before it, even after the terminal was released.
GenerationsOrderObservations ==
    [][\A t \in Terminals :
         /\ published'[t].generation >= published[t].generation
         /\ (leases'[t] # None /\ ~Authorized(t, ProofOf(leases'[t])))
                => published'[t].generation > published[t].generation]_leaseVars

\* A proof carries authority only while its lease is the newest: two proofs
\* granted for a terminal are never both good, and an ended one never revives.
OneGoodProof ==
    \A t \in Terminals : \A p \in granted[t] :
        Authorized(t, p) <=> leases[t] # None /\ p.generation = generations[t]

\* Input of an ended tenure never reaches the PTY once a later tenure typed.
InputsFollowTenures ==
    [][\A t \in Terminals : inputs'[t] >= inputs[t]]_inputs

\* The lease manager keeps the promise of SessionControl.
SC == INSTANCE SessionControl WITH
        holder <- [t \in Terminals |->
                     IF leases[t] = None THEN None ELSE leases[t].controller],
        tenure <- generations,
        typed  <- inputs
ImplementsSessionControl == SC!Spec
=============================================================================
