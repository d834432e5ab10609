---------------------- MODULE TerminalInputLeaseProofs ----------------------
(***************************************************************************)
(* Machine-checked proofs about TerminalInputLease.                        *)
(*                                                                         *)
(* LeaseInv is the inductive invariant: the lease in force is the newest   *)
(* one granted, its proof is among those clients hold, and no two proofs   *)
(* of a terminal share a lease id, since ids only grow.                    *)
(***************************************************************************)
EXTENDS TerminalInputLease, TLAPS

\* The lease in force carries the terminal's newest generation, and its proof
\* was given to a client.
LeaseIsNewest ==
    \A t \in Terminals : leases[t] # None =>
        /\ leases[t].generation = generations[t]
        /\ ProofOf(leases[t]) \in granted[t]

\* Lease ids and generations number the grants of a terminal in step.
GrantsAreNumbered ==
    \A t \in Terminals :
        /\ \A p \in granted[t] : p.leaseId <= issued /\ p.generation <= generations[t]
        /\ \A p, q \in granted[t] :
              p.leaseId = q.leaseId \/ p.generation = q.generation => p = q

\* No input carried a generation that was not given out yet.
InputsAreGranted == \A t \in Terminals : inputs[t] <= generations[t]

LeaseInv == LeaseTypeOK /\ LeaseIsNewest /\ GrantsAreNumbered /\ InputsAreGranted

-----------------------------------------------------------------------------
LEMMA LeaseInitInv == LeaseInit => LeaseInv
BY DEF LeaseInit, LeaseInv, LeaseTypeOK, LeaseIsNewest, GrantsAreNumbered,
       InputsAreGranted, Event

\* What the tail of acquire leaves behind.
LEMMA GrantInv ==
    ASSUME LeaseInv, NEW t \in Terminals, NEW d \in Devices, NEW o \in Owners,
           NEW size \in Sizes, Grant(t, d, o, size)
    PROVE  LeaseInv'
<1> DEFINE l == [leaseId |-> issued + 1, owner |-> o, controller |-> d,
                 generation |-> generations[t] + 1, size |-> size]
           p0 == ProofOf(l)
<1> USE DEF LeaseInv, LeaseTypeOK
<1>1. /\ l \in Lease
      /\ p0 \in Proof
      /\ l # None
  BY NoneAssumption DEF Lease, Proof, ProofOf
<1>2. /\ generations' = [generations EXCEPT ![t] = @ + 1]
      /\ issued' = issued + 1
      /\ leases' = [leases EXCEPT ![t] = l]
      /\ affinities' = [affinities EXCEPT ![t] = d]
      /\ granted' = [granted EXCEPT ![t] = @ \cup {p0}]
      /\ inputs' = inputs
  BY DEF Grant
<1>3. published' \in [Terminals -> Event]
  BY <1>1 DEF Grant, Publish, Event, Lease
<1>4. LeaseTypeOK'
  <2> HIDE DEF l, p0
  <2>1. granted' \in [Terminals -> SUBSET Proof]
    BY <1>1, <1>2
  <2>2. /\ leases' \in [Terminals -> Lease \cup {None}]
        /\ affinities' \in [Terminals -> Devices \cup {None}]
        /\ generations' \in [Terminals -> Nat]
        /\ issued' \in Nat
        /\ inputs' \in [Terminals -> Nat]
    BY <1>1, <1>2
  <2> QED BY <1>3, <2>1, <2>2
<1>5. LeaseIsNewest'
  BY <1>1, <1>2 DEF LeaseIsNewest
<1>6. GrantsAreNumbered'
  <2> SUFFICES ASSUME NEW u \in Terminals
               PROVE  /\ \A p \in granted'[u] : p.leaseId <= issued'
                                                /\ p.generation <= generations'[u]
                      /\ \A p, q \in granted'[u] :
                            p.leaseId = q.leaseId \/ p.generation = q.generation => p = q
    BY DEF GrantsAreNumbered
  <2>1. p0.leaseId = issued + 1 /\ p0.generation = generations[t] + 1
    BY DEF ProofOf
  <2>2. \A p \in granted[u] : /\ p.leaseId \in Nat /\ p.leaseId <= issued
                              /\ p.generation \in Nat /\ p.generation <= generations[u]
    BY DEF GrantsAreNumbered, Proof
  <2>3. \A p, q \in granted[u] :
           p.leaseId = q.leaseId \/ p.generation = q.generation => p = q
    BY DEF GrantsAreNumbered
  <2> HIDE DEF p0
  <2>4. CASE u = t
    <3>1. granted'[u] = granted[u] \cup {p0} /\ generations'[u] = generations[u] + 1
      BY <1>2, <2>4
    <3> QED BY <1>2, <2>1, <2>2, <2>3, <2>4, <3>1
  <2>5. CASE u # t
    BY <1>2, <2>2, <2>3, <2>5
  <2> QED BY <2>4, <2>5
<1>7. InputsAreGranted'
  BY <1>2 DEF InputsAreGranted
<1> QED BY <1>4, <1>5, <1>6, <1>7
\* Every other step keeps or ends leases, or changes their size, under
\* unchanged generations and grants.
LEMMA KeepOrEndInv ==
    ASSUME LeaseInv,
           leases' \in [Terminals -> Lease \cup {None}],
           affinities' \in [Terminals -> Devices \cup {None}],
           published' \in [Terminals -> Event],
           inputs' \in [Terminals -> Nat],
           \A t \in Terminals : inputs'[t] <= generations[t],
           \A t \in Terminals : leases'[t] # None =>
              /\ leases[t] # None
              /\ ProofOf(leases'[t]) = ProofOf(leases[t]),
           UNCHANGED <<generations, issued, granted>>
    PROVE  LeaseInv'
<1>1. LeaseTypeOK'
  BY DEF LeaseInv, LeaseTypeOK
<1>2. LeaseIsNewest'
  <2> SUFFICES ASSUME NEW t \in Terminals, leases'[t] # None
               PROVE  /\ leases'[t].generation = generations'[t]
                      /\ ProofOf(leases'[t]) \in granted'[t]
    BY DEF LeaseIsNewest
  <2>1. /\ leases[t].generation = generations[t]
        /\ ProofOf(leases[t]) \in granted[t]
        /\ ProofOf(leases'[t]) = ProofOf(leases[t])
    BY DEF LeaseInv, LeaseIsNewest
  <2>2. leases'[t].generation = leases[t].generation
    BY <2>1 DEF ProofOf
  <2> QED BY <2>1, <2>2
<1>3. GrantsAreNumbered'
  BY DEF LeaseInv, GrantsAreNumbered
<1>4. InputsAreGranted'
  BY DEF InputsAreGranted
<1> QED BY <1>1, <1>2, <1>3, <1>4 DEF LeaseInv

\* The end of one lease, with or without its affinity.
LEMMA EndLeaseInv ==
    ASSUME LeaseInv, NEW t \in Terminals, leases[t] # None, EndLease(t),
           affinities' \in [Terminals -> Devices \cup {None}],
           UNCHANGED <<generations, issued, granted, inputs>>
    PROVE  LeaseInv'
<1> USE DEF LeaseInv, LeaseTypeOK
<1>1. leases' = [leases EXCEPT ![t] = None]
  BY DEF EndLease
<1>2. leases[t].generation \in Nat
  BY DEF Lease
<1>3. published' \in [Terminals -> Event]
  BY <1>2 DEF EndLease, Publish, Event
<1>4. \A u \in Terminals : leases'[u] # None =>
         leases[u] # None /\ ProofOf(leases'[u]) = ProofOf(leases[u])
  BY <1>1
<1>5. \A u \in Terminals : inputs'[u] <= generations[u]
  BY DEF InputsAreGranted
<1> QED BY <1>1, <1>3, <1>4, <1>5, KeepOrEndInv

LEMMA SetSizeInv ==
    ASSUME LeaseInv, NEW t \in Terminals, NEW size \in Sizes, leases[t] # None,
           SetSize(t, size)
    PROVE  LeaseInv'
<1> USE DEF LeaseInv, LeaseTypeOK
<1>1. leases[t] \in Lease
  OBVIOUS
<1>2. leases' = [leases EXCEPT ![t] = [leases[t] EXCEPT !.size = size]]
  BY DEF SetSize
<1>3. /\ leases'[t] = [leases[t] EXCEPT !.size = size]
      /\ leases'[t] \in Lease
      /\ ProofOf(leases'[t]) = ProofOf(leases[t])
  BY <1>1, <1>2 DEF Lease, ProofOf
<1>4. leases[t].generation \in Nat
  BY <1>1 DEF Lease
<1>5. published' \in [Terminals -> Event]
  BY <1>3, <1>4 DEF SetSize, Publish, Event
<1>6. \A u \in Terminals : leases'[u] # None =>
         leases[u] # None /\ ProofOf(leases'[u]) = ProofOf(leases[u])
  BY <1>2, <1>3
<1>7. leases' \in [Terminals -> Lease \cup {None}]
  BY <1>2, <1>3
<1>8. \A u \in Terminals : inputs'[u] <= generations[u]
  BY DEF SetSize, InputsAreGranted
<1> QED BY <1>5, <1>6, <1>7, <1>8, KeepOrEndInv DEF SetSize

LEMMA WriteInv ==
    ASSUME LeaseInv, NEW t \in Terminals, NEW p \in granted[t], Write(t, p)
    PROVE  LeaseInv'
<1> USE DEF LeaseInv
<1>1. p \in Proof /\ p.generation \in Nat /\ p.generation <= generations[t]
  BY DEF LeaseTypeOK, GrantsAreNumbered, Proof
<1>2. CASE UNCHANGED leaseVars
  BY <1>2 DEF leaseVars, LeaseTypeOK, LeaseIsNewest, GrantsAreNumbered, InputsAreGranted
<1>3. CASE inputs' = [inputs EXCEPT ![t] = p.generation]
           /\ UNCHANGED <<leases, affinities, generations, issued, published, granted>>
  <2>1. /\ inputs' \in [Terminals -> Nat]
        /\ \A u \in Terminals : inputs'[u] <= generations[u]
    BY <1>1, <1>3 DEF LeaseTypeOK, InputsAreGranted
  <2> QED BY <1>3, <2>1, KeepOrEndInv DEF LeaseTypeOK
<1> QED BY <1>2, <1>3 DEF Write

\* Release and Park of a proof that is good end the lease.
LEMMA LetGoInv ==
    ASSUME LeaseInv, NEW t \in Terminals, NEW p \in granted[t],
           Release(t, p) \/ Park(t, p)
    PROVE  LeaseInv'
<1> USE DEF LeaseInv
<1>1. CASE UNCHANGED leaseVars
  BY <1>1 DEF leaseVars, LeaseTypeOK, LeaseIsNewest, GrantsAreNumbered, InputsAreGranted
<1>2. CASE Authorized(t, p) /\ EndLease(t)
           /\ UNCHANGED <<affinities, generations, issued, granted, inputs>>
  BY <1>2, EndLeaseInv DEF Authorized, LeaseTypeOK
<1>3. CASE /\ Authorized(t, p) /\ EndLease(t)
           /\ affinities' = [affinities EXCEPT ![t] = leases[t].controller]
           /\ UNCHANGED <<generations, issued, granted, inputs>>
  <2>1. leases[t] \in Lease
    BY <1>3 DEF Authorized, LeaseTypeOK
  <2>2. affinities' \in [Terminals -> Devices \cup {None}]
    BY <1>3, <2>1 DEF Lease, LeaseTypeOK
  <2> QED BY <1>3, <2>2, EndLeaseInv DEF Authorized
<1> QED BY <1>1, <1>2, <1>3 DEF Release, Park

LEMMA ClearTerminalInv ==
    ASSUME LeaseInv, NEW t \in Terminals, ClearTerminal(t)
    PROVE  LeaseInv'
<1> USE DEF LeaseInv
<1>1. CASE leases[t] = None /\ UNCHANGED leaseVars
  BY <1>1 DEF leaseVars, LeaseTypeOK, LeaseIsNewest, GrantsAreNumbered, InputsAreGranted
<1>2. CASE /\ leases[t] # None /\ EndLease(t)
           /\ affinities' = [affinities EXCEPT ![t] = None]
           /\ UNCHANGED <<generations, issued, granted, inputs>>
  BY <1>2, EndLeaseInv DEF LeaseTypeOK
<1> QED BY <1>1, <1>2 DEF ClearTerminal

LEMMA ClearInv ==
    ASSUME LeaseInv, Clear
    PROVE  LeaseInv'
<1> USE DEF LeaseInv, LeaseTypeOK
<1>1. \A t \in Terminals : leases[t] # None => leases[t].generation \in Nat
  BY DEF Lease
<1>2. published' \in [Terminals -> Event]
  BY <1>1 DEF Clear, Event
<1>3. /\ leases' = [t \in Terminals |-> None]
      /\ affinities' = [t \in Terminals |-> None]
      /\ UNCHANGED <<generations, issued, granted, inputs>>
  BY DEF Clear
<1>4. \A u \in Terminals : inputs'[u] <= generations[u]
  BY <1>3 DEF InputsAreGranted
<1> QED BY <1>2, <1>3, <1>4, KeepOrEndInv

LEMMA LeaseStepInv == LeaseInv /\ [LeaseNext]_leaseVars => LeaseInv'
<1> SUFFICES ASSUME LeaseInv, [LeaseNext]_leaseVars PROVE LeaseInv'
  OBVIOUS
<1>0. CASE UNCHANGED leaseVars
  BY <1>0 DEF leaseVars, LeaseInv, LeaseTypeOK, LeaseIsNewest, GrantsAreNumbered,
              InputsAreGranted
<1>1. ASSUME NEW t \in Terminals, NEW d \in Devices, NEW o \in Owners,
             NEW takeover \in BOOLEAN, NEW size \in Sizes,
             Acquire(t, d, o, takeover, size)
      PROVE  LeaseInv'
  BY <1>0, <1>1, GrantInv DEF Acquire
<1>2. ASSUME NEW t \in Terminals, NEW p \in granted[t], Write(t, p)
      PROVE  LeaseInv'
  BY <1>2, WriteInv
<1>3. ASSUME NEW t \in Terminals, NEW p \in granted[t], Release(t, p) \/ Park(t, p)
      PROVE  LeaseInv'
  BY <1>3, LetGoInv
<1>4. ASSUME NEW t \in Terminals, NEW p \in granted[t], NEW size \in Sizes,
             Resize(t, p, size)
      PROVE  LeaseInv'
  BY <1>0, <1>4, SetSizeInv DEF Resize, Authorized
<1>5. ASSUME NEW t \in Terminals, ClearTerminal(t)
      PROVE  LeaseInv'
  BY <1>5, ClearTerminalInv
<1>6. CASE Clear
  BY <1>6, ClearInv
<1> QED BY <1>0, <1>1, <1>2, <1>3, <1>4, <1>5, <1>6 DEF LeaseNext

\* The inductive invariant holds of every behaviour of the lease manager.
THEOREM LeaseInvariant == LeaseSpec => []LeaseInv
BY LeaseInitInv, LeaseStepInv, PTL DEF LeaseSpec

\* Type correctness.
THEOREM LeaseTyping == LeaseSpec => []LeaseTypeOK
<1>1. LeaseInv => LeaseTypeOK
  BY DEF LeaseInv
<1> QED BY <1>1, LeaseInvariant, PTL
-----------------------------------------------------------------------------
\* A proof is good exactly while it is the newest of its terminal.
LEMMA GoodProofIsNewest == LeaseInv => OneGoodProof
<1> SUFFICES ASSUME LeaseInv, NEW t \in Terminals, NEW p \in granted[t]
             PROVE  Authorized(t, p) <=> leases[t] # None /\ p.generation = generations[t]
  BY DEF OneGoodProof
<1> DEFINE q == ProofOf(leases[t])
<1>1. leases[t] # None => q \in granted[t] /\ q.generation = generations[t]
  BY DEF LeaseInv, LeaseIsNewest, ProofOf
<1>2. leases[t] # None =>
         (p.leaseId = q.leaseId \/ p.generation = q.generation => p = q)
  BY <1>1 DEF LeaseInv, GrantsAreNumbered
<1>3. ASSUME leases[t] # None, p.generation = generations[t]
      PROVE  Authorized(t, p)
  <2>1. p = q
    BY <1>1, <1>2, <1>3
  <2> QED BY <2>1, <1>3 DEF Authorized, SameControl, ProofOf
<1>4. ASSUME Authorized(t, p)
      PROVE  leases[t] # None /\ p.generation = generations[t]
  <2>1. leases[t] # None /\ p.leaseId = q.leaseId
    BY <1>4 DEF Authorized, SameControl, ProofOf
  <2> QED BY <2>1, <1>1, <1>2
<1> QED BY <1>3, <1>4

\* Of the proofs clients hold for a terminal, only the newest is ever good: the
\* lease checks of authorizeControl never let an ended tenure act.
THEOREM OnlyNewestProofIsGood == LeaseSpec => []OneGoodProof
BY LeaseInvariant, GoodProofIsNewest, PTL

\* Input arrives in the order of the tenures that sent it.
LEMMA InputStepFollows ==
    LeaseInv /\ [LeaseNext]_leaseVars
        => [\A t \in Terminals : inputs'[t] >= inputs[t]]_inputs
<1> SUFFICES ASSUME LeaseInv, LeaseNext, ~UNCHANGED inputs
             PROVE  \A t \in Terminals : inputs'[t] >= inputs[t]
  BY DEF leaseVars
<1> USE DEF LeaseInv, LeaseTypeOK
<1>1. PICK t \in Terminals : \E p \in granted[t] : Write(t, p)
  <2>1. \A t \in Terminals, d \in Devices, o \in Owners, takeover \in BOOLEAN, size \in Sizes :
           Acquire(t, d, o, takeover, size) => UNCHANGED inputs
    BY DEF Acquire, Grant, leaseVars
  <2>2. \A t \in Terminals : \A p \in granted[t] :
           Release(t, p) \/ Park(t, p) => UNCHANGED inputs
    BY DEF Release, Park, leaseVars
  <2>3. \A t \in Terminals : \A p \in granted[t], size \in Sizes :
           Resize(t, p, size) => UNCHANGED inputs
    BY DEF Resize, SetSize, leaseVars
  <2>4. (\E t \in Terminals : ClearTerminal(t)) \/ Clear => UNCHANGED inputs
    BY DEF ClearTerminal, Clear, leaseVars
  <2> QED BY <2>1, <2>2, <2>3, <2>4 DEF LeaseNext
<1>2. PICK p \in granted[t] : Write(t, p)
  BY <1>1
<1>3. Authorized(t, p) /\ inputs' = [inputs EXCEPT ![t] = p.generation]
  BY <1>2 DEF Write, leaseVars
<1>4. p.generation = generations[t] /\ inputs[t] <= generations[t]
  BY <1>3, GoodProofIsNewest DEF OneGoodProof, InputsAreGranted
<1> QED BY <1>3, <1>4

THEOREM InputsInTenureOrder == LeaseSpec => InputsFollowTenures
BY LeaseInvariant, InputStepFollows, PTL DEF LeaseSpec, InputsFollowTenures

-----------------------------------------------------------------------------
(* The lease manager implements SessionControl. *)

LEMMA SCInit == LeaseInit => SC!Init
BY DEF LeaseInit, SC!Init

LEMMA GrantBegins ==
    ASSUME LeaseInv, NEW t \in Terminals, NEW d \in Devices, NEW o \in Owners,
           NEW size \in Sizes, Grant(t, d, o, size)
    PROVE  SC!Begin(t, d)
<1> USE DEF LeaseInv, LeaseTypeOK
<1> DEFINE l == [leaseId |-> issued + 1, owner |-> o, controller |-> d,
                 generation |-> generations[t] + 1, size |-> size]
<1>1. /\ leases' = [leases EXCEPT ![t] = l]
      /\ generations' = [generations EXCEPT ![t] = @ + 1]
      /\ inputs' = inputs
  BY DEF Grant
<1>2. l # None /\ l.controller = d
  <2>1. l \in Lease
    BY DEF Lease
  <2> QED BY <2>1, NoneAssumption
<1> HIDE DEF l
<1> QED BY <1>1, <1>2 DEF SC!Begin

LEMMA EndLeaseEnds ==
    ASSUME LeaseInv, NEW t \in Terminals, leases[t] # None, EndLease(t),
           UNCHANGED <<generations, inputs>>
    PROVE  SC!End(t)
<1>1. leases[t].controller \in Devices
  BY DEF LeaseInv, LeaseTypeOK, Lease
<1> QED BY <1>1, NoneAssumption DEF EndLease, SC!End, LeaseInv, LeaseTypeOK

LEMMA SetSizeStutters ==
    ASSUME LeaseInv, NEW t \in Terminals, NEW size \in Sizes, leases[t] # None,
           SetSize(t, size)
    PROVE  UNCHANGED SC!vars
<1> USE DEF LeaseInv, LeaseTypeOK
<1>1. leases[t] \in Lease /\ leases' = [leases EXCEPT ![t] = [leases[t] EXCEPT !.size = size]]
  BY DEF SetSize
<1>2. leases'[t] \in Lease /\ leases'[t].controller = leases[t].controller
  BY <1>1 DEF Lease
<1>3. \A u \in Terminals : (leases'[u] = None) = (leases[u] = None)
  BY <1>1, <1>2, NoneAssumption
<1>4. \A u \in Terminals : leases'[u].controller = leases[u].controller
  BY <1>1, <1>2
<1> QED BY <1>3, <1>4 DEF SC!vars, SetSize

LEMMA SCStep == LeaseInv /\ [LeaseNext]_leaseVars => [SC!Next]_(SC!vars)
<1> SUFFICES ASSUME LeaseInv, [LeaseNext]_leaseVars
             PROVE  [SC!Next]_(SC!vars)
  OBVIOUS
<1>0. UNCHANGED leaseVars => UNCHANGED SC!vars
  BY DEF leaseVars, SC!vars
<1>1. ASSUME NEW t \in Terminals, NEW d \in Devices, NEW o \in Owners,
             NEW takeover \in BOOLEAN, NEW size \in Sizes,
             Acquire(t, d, o, takeover, size)
      PROVE  [SC!Next]_(SC!vars)
  BY <1>0, <1>1, GrantBegins DEF Acquire, SC!Next
<1>2. ASSUME NEW t \in Terminals, NEW p \in granted[t], Write(t, p)
      PROVE  [SC!Next]_(SC!vars)
  <2>1. CASE UNCHANGED leaseVars
    BY <1>0, <2>1
  <2>2. CASE /\ Authorized(t, p)
             /\ inputs' = [inputs EXCEPT ![t] = p.generation]
             /\ UNCHANGED <<leases, affinities, generations, issued, published, granted>>
    <3>1. leases[t] # None /\ p.generation = generations[t]
      BY <2>2, GoodProofIsNewest DEF OneGoodProof
    <3>2. leases[t].controller \in Devices
      BY <3>1 DEF LeaseInv, LeaseTypeOK, Lease
    <3>3. SC!Input(t)
      BY <2>2, <3>1, <3>2, NoneAssumption DEF SC!Input
    <3> QED BY <3>3 DEF SC!Next
  <2> QED BY <1>2, <2>1, <2>2 DEF Write
<1>3. ASSUME NEW t \in Terminals, NEW p \in granted[t], Release(t, p) \/ Park(t, p)
      PROVE  [SC!Next]_(SC!vars)
  BY <1>0, <1>3, EndLeaseEnds DEF Release, Park, Authorized, SC!Next
<1>4. ASSUME NEW t \in Terminals, NEW p \in granted[t], NEW size \in Sizes,
             Resize(t, p, size)
      PROVE  [SC!Next]_(SC!vars)
  BY <1>0, <1>4, SetSizeStutters DEF Resize, Authorized
<1>5. ASSUME NEW t \in Terminals, ClearTerminal(t)
      PROVE  [SC!Next]_(SC!vars)
  BY <1>0, <1>5, EndLeaseEnds DEF ClearTerminal, SC!Next
<1>6. CASE Clear
  BY <1>6 DEF Clear, SC!EndAll, SC!Next
<1> QED BY <1>0, <1>1, <1>2, <1>3, <1>4, <1>5, <1>6 DEF LeaseNext

\* At most one controller at a time, tenures numbered one by one, and input
\* only within the current tenure, whatever proofs clients present and when.
THEOREM LeasesImplementSessionControl == LeaseSpec => ImplementsSessionControl
BY LeaseInvariant, SCInit, SCStep, PTL DEF LeaseSpec, SC!Spec, ImplementsSessionControl

-----------------------------------------------------------------------------
(* What the published events say. *)

\* No event carries a generation that was not given out yet.
EventsAreGranted == \A t \in Terminals : published[t].generation <= generations[t]

\* What a step may do to a terminal, and what it publishes of it.
Untouched(t) == /\ leases'[t] = leases[t] /\ published'[t] = published[t]
                /\ generations'[t] = generations[t]
Announced(t) == published'[t].lease = leases'[t]
Begun(t) == /\ Announced(t) /\ leases'[t] # None
            /\ generations'[t] = generations[t] + 1
            /\ published'[t].generation = generations[t] + 1
Continued(t) == /\ Announced(t) /\ leases[t] # None
                /\ generations'[t] = generations[t]
                /\ published'[t].generation = generations[t]
                /\ leases'[t] # None => Authorized(t, ProofOf(leases'[t]))

LEMMA UntouchedOrAnnounced ==
    ASSUME LeaseInv, [LeaseNext]_leaseVars, NEW u \in Terminals
    PROVE  Untouched(u) \/ Begun(u) \/ Continued(u)
<1> USE DEF LeaseInv, LeaseTypeOK
<1>0. CASE UNCHANGED leaseVars
  BY <1>0 DEF leaseVars, Untouched
<1>1. leases[u] # None => leases[u].generation = generations[u]
  BY DEF LeaseIsNewest
<1>2. ASSUME NEW t \in Terminals, EndLease(t), leases[t] # None, UNCHANGED generations
      PROVE  Untouched(u) \/ Continued(u)
  BY <1>1, <1>2 DEF EndLease, Publish, Untouched, Continued, Announced
<1>3. ASSUME NEW t \in Terminals, NEW d \in Devices, NEW o \in Owners,
             NEW size \in Sizes, Grant(t, d, o, size)
      PROVE  Untouched(u) \/ Begun(u)
  <2> DEFINE l == [leaseId |-> issued + 1, owner |-> o, controller |-> d,
                   generation |-> generations[t] + 1, size |-> size]
             type == IF leases[t] = None THEN "acquired" ELSE "taken-over"
  <2>1. l \in Lease /\ l.generation = generations[t] + 1
    BY DEF Lease
  <2>2. /\ leases' = [leases EXCEPT ![t] = l]
        /\ generations' = [generations EXCEPT ![t] = @ + 1]
        /\ published' = [published EXCEPT ![t] =
                           [type |-> type, lease |-> l, generation |-> l.generation]]
    BY <1>3 DEF Grant, Publish
  <2> HIDE DEF l, type
  <2> QED BY <2>1, <2>2, NoneAssumption DEF Untouched, Begun, Announced
<1>4. ASSUME NEW t \in Terminals, NEW p \in granted[t], NEW size \in Sizes,
             Resize(t, p, size)
      PROVE  Untouched(u) \/ Continued(u)
  <2>1. CASE SetSize(t, size) /\ leases[t] # None
    <3>1. leases[t] \in Lease /\ leases'[t] = [leases[t] EXCEPT !.size = size]
      BY <2>1 DEF SetSize
    <3>2. Authorized(t, ProofOf(leases'[t]))
      BY <2>1, <3>1 DEF Authorized, SameControl, ProofOf, Lease
    <3> QED BY <1>1, <2>1, <3>2 DEF SetSize, Publish, Untouched, Continued, Announced
  <2> QED BY <1>0, <1>4, <2>1 DEF Resize, Authorized, leaseVars, Untouched
<1>5. ASSUME NEW t \in Terminals, NEW p \in granted[t], Write(t, p)
      PROVE  Untouched(u)
  BY <1>5 DEF Write, leaseVars, Untouched
<1>6. CASE Clear
  BY <1>1, <1>6 DEF Clear, Untouched, Continued, Announced
<1>7. ASSUME NEW t \in Terminals, NEW p \in granted[t], Release(t, p) \/ Park(t, p)
      PROVE  Untouched(u) \/ Continued(u)
  BY <1>2, <1>7 DEF Release, Park, Authorized, leaseVars, Untouched
<1>8. ASSUME NEW t \in Terminals, ClearTerminal(t)
      PROVE  Untouched(u) \/ Continued(u)
  BY <1>2, <1>8 DEF ClearTerminal, leaseVars, Untouched
<1>9. ASSUME NEW t \in Terminals, NEW d \in Devices, NEW o \in Owners,
             NEW takeover \in BOOLEAN, NEW size \in Sizes,
             Acquire(t, d, o, takeover, size)
      PROVE  Untouched(u) \/ Begun(u)
  BY <1>3, <1>9 DEF Acquire, leaseVars, Untouched
<1> QED BY <1>0, <1>4, <1>5, <1>6, <1>7, <1>8, <1>9 DEF LeaseNext

LEMMA EventStep ==
    ASSUME LeaseInv, ListenersKnowTheLease, EventsAreGranted, [LeaseNext]_leaseVars
    PROVE  /\ ListenersKnowTheLease' /\ EventsAreGranted'
           /\ \A t \in Terminals :
                 /\ published'[t].generation >= published[t].generation
                 /\ (leases'[t] # None /\ ~Authorized(t, ProofOf(leases'[t])))
                       => published'[t].generation > published[t].generation
<1> SUFFICES ASSUME NEW t \in Terminals
             PROVE  /\ published'[t].lease = leases'[t]
                    /\ published'[t].generation <= generations'[t]
                    /\ published'[t].generation >= published[t].generation
                    /\ (leases'[t] # None /\ ~Authorized(t, ProofOf(leases'[t])))
                          => published'[t].generation > published[t].generation
  BY DEF ListenersKnowTheLease, EventsAreGranted
<1>1. /\ published[t].generation \in Nat /\ generations[t] \in Nat
      /\ published[t].generation <= generations[t]
      /\ published[t].lease = leases[t]
  BY DEF LeaseInv, LeaseTypeOK, Event, EventsAreGranted, ListenersKnowTheLease
<1>2. leases[t] # None => Authorized(t, ProofOf(leases[t]))
  BY DEF Authorized, SameControl, ProofOf
<1> QED BY <1>1, <1>2, UntouchedOrAnnounced DEF Untouched, Begun, Continued, Announced

LEMMA EventInit == LeaseInit => ListenersKnowTheLease /\ EventsAreGranted
BY DEF LeaseInit, ListenersKnowTheLease, EventsAreGranted

\* Whoever folds the published events of a terminal knows its lease: no change
\* and no end of control goes unannounced (publish in acquire, resize, release,
\* park and clearTerminal).
THEOREM ListenersFollow == LeaseSpec => []ListenersKnowTheLease
BY LeaseInvariant, EventInit, EventStep, PTL DEF LeaseSpec

\* The events of a terminal never go back a generation, and a new lease comes
\* under a later one than every event before it.
THEOREM EventsInGenerationOrder == LeaseSpec => GenerationsOrderObservations
<1>1. LeaseInv /\ ListenersKnowTheLease /\ EventsAreGranted /\ [LeaseNext]_leaseVars
        => ListenersKnowTheLease' /\ EventsAreGranted'
  BY EventStep
<1>2. LeaseInv /\ ListenersKnowTheLease /\ EventsAreGranted /\ [LeaseNext]_leaseVars
        => [\A t \in Terminals :
              /\ published'[t].generation >= published[t].generation
              /\ (leases'[t] # None /\ ~Authorized(t, ProofOf(leases'[t])))
                    => published'[t].generation > published[t].generation]_leaseVars
  BY EventStep
<1> QED BY <1>1, <1>2, LeaseInvariant, EventInit, PTL
        DEF LeaseSpec, GenerationsOrderObservations
=============================================================================
