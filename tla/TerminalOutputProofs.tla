------------------------ MODULE TerminalOutputProofs ------------------------
(***************************************************************************)
(* Machine-checked proofs about the output of a terminal where it is       *)
(* presented (TerminalPresentation) and where it is retained               *)
(* (TerminalHistory).                                                      *)
(*                                                                         *)
(* Presentations.  Surfaces show the output without a gap and never lose   *)
(* what they showed, nothing is held back for ever, and the demand settles *)
(* on what the viewers want unless a failure has left it adrift.           *)
(*                                                                         *)
(* PresentationInv is the inductive invariant, and its parts are about     *)
(* three things.  A session listens to one request at most, and holds      *)
(* events back exactly while it does (OneRequestCounts).  What waits for   *)
(* demand calls waits for calls that are there, the last call of a chain   *)
(* says what the viewers want, and the demand is what the last call the    *)
(* server handled said (ActivationsInOrder, LastCallCounts).               *)
(* Events come and are held back in the order they were emitted            *)
(* (EventsInOrder), so that the tail of a state never skips one            *)
(* (TailIsWhole) and no cursor is ahead of the PTY.                        *)
(*                                                                         *)
(* SnapshotsAreAhead adds that no snapshot that counts is older than the   *)
(* state it replaces, so that surfaces only grow; with both parts the      *)
(* presentations implement PresentedOutput.                                *)
(*                                                                         *)
(* The history.  The counts balance, the limits hold, a snapshot is a      *)
(* suffix of what was written and its replay resizes where the terminal    *)
(* did.  HistoryInv is the inductive invariant: the counts of a state are  *)
(* those of its chunks and the totals are sums over the terminals; what a  *)
(* state retains ends what its terminal logged, and nothing is missing     *)
(* unless it is truncated; the resizes it keeps are those since its first  *)
(* chunk, and chunks and resizes have the size in force at their time,     *)
(* which every resize changed (Sized).                                     *)
(*                                                                         *)
(* Two loops are recursive functions.  Every round of those over the       *)
(* limits takes a chunk or a byte (RoundIsSound), so that after as many    *)
(* rounds as there are of both no limit is exceeded (EnforceIsSound).      *)
(* Every round of a replay writes a chunk or takes a resize, the resizes   *)
(* in order and at their offsets (Playing), until none is left.            *)
(***************************************************************************)
EXTENDS TerminalPresentation, TerminalHistory, FiniteSetTheorems, FunctionTheorems,
        SequenceTheorems, WellFoundedInduction, TLAPS

-----------------------------------------------------------------------------
(* The invariant. *)

\* Of the requests out one at most will be listened to, and while there is one,
\* and only then, something is held back for its answer.
OneCounts(out, held) ==
    /\ \A r, q \in out : r.current /\ q.current => r = q
    /\ (held = None) <=> (\A r \in out : ~r.current)

OneRequestCounts ==
    /\ OneCounts(requests, pending)
    /\ mounted = {} => pending = None

\* Activations wait for the calls made before them, in the order they came.
ActivationsInOrder ==
    /\ mounted = {} => waiting = <<>>
    /\ mounted # {} => session \in 1..MaxSessions
    /\ \A i, j \in 1..Len(waiting) : i <= j => waiting[i].calls <= waiting[j].calls
    /\ \A i \in 1..Len(waiting) : waiting[i].calls <= Len(chains[session])

\* The last call of a session asks for what its viewers want, and the server does
\* what the session's last handled call asked for unless it is adrift.
LastCallCounts ==
    /\ demandActive = (visible # {})
    /\ \A k \in 1..MaxSessions : handled[k] => chains[k] # <<>>
    /\ \A k \in 1..MaxSessions : k > session => chains[k] = <<>>
    /\ session = 0 /\ ~adrift => ~demand
    /\ session # 0 =>
         /\ chains[session] # <<>> => Last(chains[session]) = demandActive
         /\ chains[session] = <<>> /\ ~adrift => demand = demandActive
         /\ handled[session] /\ ~adrift => demand = Head(chains[session])

Increasing(queue) == \A i, j \in 1..Len(queue) : i < j => queue[i] < queue[j]
UpTo(queue, n) == \A i \in 1..Len(queue) : queue[i] <= n

\* Events travel and are held back in order.
HeldInOrder(held) ==
    held # None =>
        /\ Increasing(held.events) /\ UpTo(held.events, emitted)
        /\ \A i \in 1..Len(held.events), j \in 1..Len(wire) : held.events[i] < wire[j]

EventsInOrder ==
    /\ Increasing(wire) /\ UpTo(wire, emitted)
    /\ HeldInOrder(pending)
    /\ \A r \in requests : r.toSeq # None => r.toSeq <= emitted

\* What s shows is a reset and a tail that ends it, with no gap between two events.
Whole(s) ==
    /\ s.resetTo + Len(s.tail) <= s.toSeq
    /\ \A i \in 1..Len(s.tail) : s.tail[i] = s.toSeq - Len(s.tail) + i

TailIsWhole == Whole(state) /\ state.toSeq <= emitted

PresentationInv ==
    /\ TypeOK
    /\ OneRequestCounts /\ ActivationsInOrder /\ LastCallCounts
    /\ EventsInOrder /\ TailIsWhole
    /\ SurfacesShowPrefix
-----------------------------------------------------------------------------
(* Sequences. *)

LEMMA TailFacts ==
    ASSUME NEW S, NEW s \in Seq(S), s # <<>>
    PROVE  /\ Tail(s) \in Seq(S) /\ Len(Tail(s)) = Len(s) - 1
           /\ \A i \in 1..(Len(s) - 1) : Tail(s)[i] = s[i + 1]
           /\ Head(s) = s[1] /\ s[1] \in S /\ Len(s) \in Nat /\ Len(s) > 0
OBVIOUS

LEMMA AppendFacts ==
    ASSUME NEW S, NEW s \in Seq(S), NEW x \in S
    PROVE  /\ Append(s, x) \in Seq(S)
           /\ Len(s) \in Nat /\ Len(Append(s, x)) = Len(s) + 1
           /\ Append(s, x)[Len(s) + 1] = x
           /\ \A i \in 1..Len(s) : Append(s, x)[i] = s[i]
OBVIOUS

LEMMA SeqOfFunction ==
    ASSUME NEW S, NEW n \in Nat, NEW f \in [1..n -> S]
    PROVE  f \in Seq(S) /\ Len(f) = n
OBVIOUS

LEMMA ChunkFacts ==
    ASSUME NEW s \in Seq(Chunks), NEW i \in 1..Len(s)
    PROVE  s[i] \in Chunks /\ s[i] \in Nat
<1>1. s[i] \in Chunks
  OBVIOUS
<1> QED BY <1>1, PresentationBounds DEF Chunks

LEMMA SuffixFacts ==
    ASSUME NEW S, NEW s \in Seq(S), NEW n \in Nat, n <= Len(s)
    PROVE  /\ SubSeq(s, 1 + n, Len(s)) \in Seq(S)
           /\ Len(SubSeq(s, 1 + n, Len(s))) = Len(s) - n
           /\ \A i \in 1..(Len(s) - n) : SubSeq(s, 1 + n, Len(s))[i] = s[n + i]
OBVIOUS

LEMMA ConcatFacts ==
    ASSUME NEW S, NEW s \in Seq(S), NEW u \in Seq(S)
    PROVE  /\ s \o u \in Seq(S) /\ Len(s) \in Nat /\ Len(u) \in Nat
           /\ Len(s \o u) = Len(s) + Len(u)
           /\ \A i \in 1..Len(s) : (s \o u)[i] = s[i]
           /\ \A i \in 1..Len(u) : (s \o u)[Len(s) + i] = u[i]
OBVIOUS

\* Newer is a suffix.
LEMMA NewerFacts ==
    ASSUME NEW S, NEW queue \in Seq(S), NEW n
    PROVE  \E k \in 0..Len(queue) :
              /\ Newer(queue, n) \in Seq(S)
              /\ Len(Newer(queue, n)) = Len(queue) - k
              /\ \A i \in 1..(Len(queue) - k) : Newer(queue, n)[i] = queue[k + i]
<1> DEFINE older == {i \in DOMAIN queue : queue[i] <= n}
           k == Cardinality(older)
<1>1. Len(queue) \in Nat /\ DOMAIN queue = 1..Len(queue)
  OBVIOUS
<1>2. IsFiniteSet(1..Len(queue)) /\ Cardinality(1..Len(queue)) = Len(queue)
  <2>1. Len(queue) >= 1 \/ Len(queue) = 0
    BY <1>1
  <2> QED BY <1>1, <2>1, FS_Interval
<1>3. older \subseteq 1..Len(queue)
  BY <1>1
<1> HIDE DEF older
<1>4. k \in Nat /\ k <= Len(queue)
  BY <1>2, <1>3, FS_Subset, FS_CardinalityType
<1>5. Newer(queue, n) = SubSeq(queue, 1 + k, Len(queue))
  BY DEF Newer, older
<1> HIDE DEF k
<1>6. /\ SubSeq(queue, 1 + k, Len(queue)) \in Seq(S)
      /\ Len(SubSeq(queue, 1 + k, Len(queue))) = Len(queue) - k
      /\ \A i \in 1..(Len(queue) - k) : SubSeq(queue, 1 + k, Len(queue))[i] = queue[k + i]
  BY <1>4, SuffixFacts
<1>7. k \in 0..Len(queue)
  BY <1>1, <1>4
<1> QED BY <1>5, <1>6, <1>7

LEMMA NewestFacts ==
    ASSUME NEW S, NEW queue \in Seq(S)
    PROVE  \E k \in 0..Len(queue) :
              /\ Newest(queue) \in Seq(S) /\ Len(Newest(queue)) = Len(queue) - k
              /\ \A i \in 1..(Len(queue) - k) : Newest(queue)[i] = queue[k + i]
<1> DEFINE k == IF Len(queue) > Limit THEN Len(queue) - Limit ELSE 0
<1>1. Len(queue) \in Nat
  OBVIOUS
<1>2. k \in Nat /\ k <= Len(queue)
  BY <1>1, PresentationBounds
<1>3. Newest(queue) = SubSeq(queue, 1 + k, Len(queue))
  BY DEF Newest
<1> HIDE DEF k
<1>4. /\ SubSeq(queue, 1 + k, Len(queue)) \in Seq(S)
      /\ Len(SubSeq(queue, 1 + k, Len(queue))) = Len(queue) - k
      /\ \A i \in 1..(Len(queue) - k) : SubSeq(queue, 1 + k, Len(queue))[i] = queue[k + i]
  BY <1>2, SuffixFacts
<1>5. k \in 0..Len(queue)
  BY <1>1, <1>2
<1> QED BY <1>3, <1>4, <1>5

\* What continues a whole tail leaves it whole.
LEMMA AppendEventsFacts ==
    ASSUME NEW s \in State, Whole(s), NEW queue \in Seq(Chunks),
           Consecutive(queue, s.toSeq)
    PROVE  LET a == AppendEvents(s, queue)
           IN  /\ a \in State /\ Whole(a)
               /\ a.toSeq = s.toSeq + Len(queue) /\ a.resetTo = s.resetTo
               /\ a.status = s.status /\ a.generation = s.generation
<1> DEFINE last == IF queue = <<>> THEN s.toSeq ELSE Last(queue)
           joint == s.tail \o queue
           tail == Newest(joint)
           a == AppendEvents(s, queue)
<1>1. /\ s.tail \in Seq(Chunks) /\ s.toSeq \in Cursors /\ s.resetTo \in Cursors
      /\ Len(s.tail) \in Nat /\ Len(queue) \in Nat /\ MaxSeq \in Nat
  BY PresentationBounds DEF State
<1>2. /\ \A i \in 1..Len(queue) : queue[i] = s.toSeq + i /\ queue[i] \in Chunks
      /\ s.toSeq \in Nat
  BY <1>1 DEF Consecutive, Cursors
<1>3. last = s.toSeq + Len(queue) /\ last \in Cursors
  <2>1. CASE queue = <<>>
    <3>1. Len(queue) = 0 /\ last = s.toSeq
      BY <2>1
    <3> QED BY <1>1, <1>2, <3>1
  <2>2. CASE queue # <<>>
    <3>1. Len(queue) \in 1..Len(queue)
      BY <1>1, <2>2
    <3>2. last = queue[Len(queue)]
      BY <2>2 DEF Last
    <3> QED BY <1>1, <1>2, <3>1, <3>2 DEF Chunks, Cursors
  <2> QED BY <2>1, <2>2
<1>4. /\ joint \in Seq(Chunks) /\ Len(joint) = Len(s.tail) + Len(queue)
      /\ \A i \in 1..Len(s.tail) : joint[i] = s.tail[i]
      /\ \A i \in 1..Len(queue) : joint[Len(s.tail) + i] = queue[i]
  BY <1>1, ConcatFacts
<1> HIDE DEF joint, last
<1>5. ASSUME NEW i \in 1..Len(joint)
      PROVE  joint[i] = s.toSeq - Len(s.tail) + i
  <2>1. CASE i <= Len(s.tail)
    BY <1>1, <1>4, <2>1 DEF Whole
  <2>2. CASE i > Len(s.tail)
    <3>1. i - Len(s.tail) \in 1..Len(queue) /\ Len(s.tail) + (i - Len(s.tail)) = i
      BY <1>1, <1>4, <2>2
    <3>2. joint[i] = queue[i - Len(s.tail)]
      BY <1>4, <3>1
    <3>3. queue[i - Len(s.tail)] = s.toSeq + (i - Len(s.tail))
      BY <1>2, <3>1
    <3>4. i \in Nat
      BY <1>1, <1>4
    <3> QED BY <1>1, <1>2, <3>2, <3>3, <3>4
  <2>3. i <= Len(s.tail) \/ i > Len(s.tail)
    BY <1>1, <1>4
  <2> QED BY <2>1, <2>2, <2>3
<1>6. PICK k \in 0..Len(joint) :
         /\ tail \in Seq(Chunks) /\ Len(tail) = Len(joint) - k
         /\ \A i \in 1..(Len(joint) - k) : tail[i] = joint[k + i]
  <2>1. joint \in Seq(Chunks)
    BY <1>4
  <2>2. \E k \in 0..Len(joint) :
           /\ Newest(joint) \in Seq(Chunks) /\ Len(Newest(joint)) = Len(joint) - k
           /\ \A i \in 1..(Len(joint) - k) : Newest(joint)[i] = joint[k + i]
    BY <2>1, NewestFacts, SMTT(60)
  <2> QED BY <2>2
<1> HIDE DEF tail
<1>7. /\ k \in Nat /\ Len(tail) = Len(s.tail) + Len(queue) - k /\ Len(tail) \in Nat
  BY <1>1, <1>4, <1>6
<1>8. ASSUME NEW i \in 1..Len(tail)
      PROVE  tail[i] = last - Len(tail) + i
  <2>1. i \in Nat /\ i \in 1..(Len(joint) - k)
    BY <1>6, <1>7
  <2>2. k + i \in 1..Len(joint)
    BY <1>1, <1>4, <1>6, <1>7, <2>1
  <2>3. tail[i] = joint[k + i]
    BY <1>6, <2>1
  <2>4. tail[i] = s.toSeq - Len(s.tail) + (k + i)
    BY <1>5, <2>2, <2>3
  <2>5. last = s.toSeq + Len(queue) /\ Len(tail) = Len(s.tail) + Len(queue) - k
    BY <1>3, <1>7
  <2>6. /\ s.toSeq \in Nat /\ Len(queue) \in Nat /\ Len(s.tail) \in Nat
        /\ k \in Nat /\ i \in Nat
    BY <1>1, <1>2, <1>7, <2>1
  <2>7. s.toSeq - Len(s.tail) + (k + i) = last - Len(tail) + i
    <3>1. \A t, l, e, m, n \in Nat : t - l + (m + n) = (t + e) - (l + e - m) + n
      OBVIOUS
    <3>2. s.toSeq - Len(s.tail) + (k + i)
             = (s.toSeq + Len(queue)) - (Len(s.tail) + Len(queue) - k) + i
      BY <2>6, <3>1
    <3> QED BY <2>5, <3>2
  <2> QED BY <2>4, <2>7
<1>9. s.resetTo + Len(tail) <= last
  <2>1. s.resetTo + Len(s.tail) <= s.toSeq /\ s.resetTo \in Nat
    BY <1>1 DEF Whole, Cursors
  <2>2. last = s.toSeq + Len(queue) /\ Len(tail) = Len(s.tail) + Len(queue) - k
    BY <1>3, <1>7
  <2>3. /\ s.toSeq \in Nat /\ Len(queue) \in Nat /\ Len(s.tail) \in Nat /\ k \in Nat
    BY <1>1, <1>2, <1>7
  <2>4. s.resetTo + (Len(s.tail) + Len(queue) - k) <= s.toSeq + Len(queue)
    <3>1. \A b, l, e, m, t \in Nat : b + l <= t => b + (l + e - m) <= t + e
      OBVIOUS
    <3> QED BY <2>1, <2>3, <3>1
  <2> QED BY <2>2, <2>4
<1>10. a = [s EXCEPT !.tail = tail, !.toSeq = last]
  BY DEF AppendEvents, joint, tail, last
<1> HIDE DEF a
<1>11. a \in State /\ a.tail = tail /\ a.toSeq = last /\ a.resetTo = s.resetTo
       /\ a.status = s.status /\ a.generation = s.generation
  BY <1>3, <1>6, <1>10 DEF State
<1>12. Whole(a)
  BY <1>8, <1>9, <1>11 DEF Whole
<1> QED BY <1>3, <1>11, <1>12 DEF a
-----------------------------------------------------------------------------
(* Demand. *)

\* The parts of the invariant about the demand of the sessions.
DemandInv == TypeOK /\ ActivationsInOrder /\ LastCallCounts

LEMMA DemandFrame ==
    ASSUME DemandInv,
           UNCHANGED <<demand, session, mounted, visible, demandActive, chains, handled,
                       waiting, adrift>>
    PROVE  ActivationsInOrder' /\ LastCallCounts'
BY DEF DemandInv, ActivationsInOrder, LastCallCounts

\* syncDemand leaves the wish of the viewers at the end of the chain.
LEMMA SyncDemandFacts ==
    ASSUME DemandInv, mounted # {}, NEW V \in SUBSET Viewers, SyncDemand(session, V)
    PROVE  /\ chains' \in [1..MaxSessions -> Seq(BOOLEAN)] /\ demandActive' \in BOOLEAN
           /\ demandActive' = (V # {})
           /\ Len(chains'[session]) \in Nat /\ Len(chains[session]) \in Nat
           /\ Len(chains[session]) <= Len(chains'[session])
           /\ \A k \in 1..MaxSessions : k # session => chains'[k] = chains[k]
           /\ session \in 1..MaxSessions
           /\ chains'[session] # <<>> => Last(chains'[session]) = demandActive'
           /\ chains'[session] = <<>> => chains[session] = <<>> /\ demandActive' = demandActive
           /\ chains[session] # <<>> =>
                chains'[session] # <<>> /\ Head(chains'[session]) = Head(chains[session])
<1> USE DEF DemandInv
<1>1. session \in 1..MaxSessions /\ chains \in [1..MaxSessions -> Seq(BOOLEAN)]
  BY DEF ActivationsInOrder, TypeOK
<1>2. chains[session] \in Seq(BOOLEAN) /\ Len(chains[session]) \in Nat
  BY <1>1
<1> DEFINE w == V # {}
<1>3. w \in BOOLEAN /\ demandActive' = w
  BY DEF SyncDemand
<1>4. CASE w = demandActive
  <2>1. chains' = chains /\ demandActive' = demandActive
    BY <1>3, <1>4 DEF SyncDemand
  <2>2. chains[session] # <<>> => Last(chains[session]) = demandActive
    BY <1>1 DEF LastCallCounts
  <2> QED BY <1>1, <1>2, <1>3, <2>1, <2>2
<1>5. CASE w # demandActive
  <2>1. chains' = [chains EXCEPT ![session] = Append(@, w)]
    BY <1>5 DEF SyncDemand
  <2> HIDE DEF w
  <2>2. /\ Append(chains[session], w) \in Seq(BOOLEAN)
        /\ Len(Append(chains[session], w)) = Len(chains[session]) + 1
        /\ Append(chains[session], w)[Len(chains[session]) + 1] = w
        /\ \A i \in 1..Len(chains[session]) : Append(chains[session], w)[i] = chains[session][i]
    BY <1>2, <1>3, AppendFacts
  <2>3. /\ chains' \in [1..MaxSessions -> Seq(BOOLEAN)]
        /\ chains'[session] = Append(chains[session], w)
        /\ \A k \in 1..MaxSessions : k # session => chains'[k] = chains[k]
    BY <1>1, <2>1, <2>2
  <2>4. Last(chains'[session]) = w /\ chains'[session] # <<>>
    <3>1. Last(chains'[session]) = chains'[session][Len(chains'[session])]
      BY DEF Last
    <3>2. /\ Len(chains'[session]) = Len(chains[session]) + 1
          /\ chains'[session][Len(chains[session]) + 1] = w
      BY <2>2, <2>3
    <3>3. Len(chains'[session]) # 0
      BY <1>2, <3>2
    <3>4. Len(<<>>) = 0
      OBVIOUS
    <3> QED BY <3>1, <3>2, <3>3, <3>4
  <2>5. chains[session] # <<>> => Head(chains'[session]) = Head(chains[session])
    <3> SUFFICES ASSUME chains[session] # <<>>
                 PROVE  Head(chains'[session]) = Head(chains[session])
      OBVIOUS
    <3>1. 1 \in 1..Len(chains[session])
      BY <1>2, EmptySeq
    <3>2. chains'[session][1] = chains[session][1]
      BY <2>2, <2>3, <3>1
    <3> QED BY <1>2, <2>2, <2>3, <3>2
  <2>6. Len(chains'[session]) \in Nat /\ Len(chains[session]) <= Len(chains'[session])
    BY <1>2, <2>2, <2>3
  <2> QED BY <1>1, <1>2, <1>3, <2>3, <2>4, <2>5, <2>6 DEF w
<1> QED BY <1>4, <1>5

\* Hide, Dispose, and the first part of activate.
LEMMA SyncKeeps ==
    ASSUME DemandInv, mounted # {}, NEW V \in SUBSET Viewers, SyncDemand(session, V),
           UNCHANGED <<demand, session, handled, adrift>>
    PROVE  LastCallCounts'
<1> USE DEF DemandInv
<1>1. session \in 1..MaxSessions /\ session # 0 /\ session \in Nat
  BY DEF ActivationsInOrder
<1>2. visible' = V /\ demandActive' = (visible' # {})
  BY DEF SyncDemand
<1>3. \A k \in 1..MaxSessions : k # session => chains'[k] = chains[k]
  BY SyncDemandFacts
<1>4. /\ chains'[session] # <<>> => Last(chains'[session]) = demandActive'
      /\ chains'[session] = <<>> => chains[session] = <<>> /\ demandActive' = demandActive
      /\ chains[session] # <<>> =>
           chains'[session] # <<>> /\ Head(chains'[session]) = Head(chains[session])
  BY SyncDemandFacts
<1>5. \A k \in 1..MaxSessions : handled'[k] => chains'[k] # <<>>
  BY <1>3, <1>4 DEF LastCallCounts
<1>6. \A k \in 1..MaxSessions : k > session => chains'[k] = <<>>
  BY <1>1, <1>3 DEF LastCallCounts
<1>7. chains'[session] = <<>> /\ ~adrift' => demand' = demandActive'
  BY <1>1, <1>4 DEF LastCallCounts
<1>8. handled'[session] /\ ~adrift' => demand' = Head(chains'[session])
  BY <1>1, <1>4 DEF LastCallCounts
<1> QED BY <1>1, <1>2, <1>4, <1>5, <1>6, <1>7, <1>8 DEF LastCallCounts

LEMMA WaitingFacts ==
    ASSUME DemandInv
    PROVE  /\ waiting \in Seq(Activation) /\ Len(waiting) \in Nat
           /\ DOMAIN waiting = 1..Len(waiting)
           /\ \A i \in 1..Len(waiting) :
                 /\ waiting[i] \in Activation /\ waiting[i].calls \in Nat
                 /\ waiting[i].calls <= Len(chains[session])
           /\ \A i, j \in 1..Len(waiting) : i <= j => waiting[i].calls <= waiting[j].calls
<1>1. waiting \in Seq(Activation)
  BY DEF DemandInv, TypeOK
<1>2. Len(waiting) \in Nat /\ DOMAIN waiting = 1..Len(waiting)
  BY <1>1
<1>3. \A i \in 1..Len(waiting) : waiting[i] \in Activation
  BY <1>1
<1>4. \A i \in 1..Len(waiting) : waiting[i].calls \in Nat
  BY <1>3 DEF Activation
<1> QED BY <1>1, <1>2, <1>3, <1>4 DEF DemandInv, ActivationsInOrder

LEMMA WaitersKept ==
    ASSUME DemandInv, mounted # {}, NEW V \in SUBSET Viewers, SyncDemand(session, V),
           UNCHANGED session, mounted' # {}, waiting' = waiting
    PROVE  ActivationsInOrder'
<1> USE DEF DemandInv
<1>1. \A i \in 1..Len(waiting) :
         waiting[i].calls \in Nat /\ waiting[i].calls <= Len(chains[session])
  BY WaitingFacts
<1>2. /\ Len(chains[session]) \in Nat /\ Len(chains'[session]) \in Nat
      /\ Len(chains[session]) <= Len(chains'[session]) /\ session \in 1..MaxSessions
  BY SyncDemandFacts
<1>3. \A i \in 1..Len(waiting) : waiting[i].calls <= Len(chains'[session])
  BY <1>1, <1>2
<1> QED BY <1>2, <1>3 DEF ActivationsInOrder

\* activate waits for all calls, those made before it and its own.
LEMMA ActivateKeeps ==
    ASSUME DemandInv, mounted # {}, NEW V \in SUBSET Viewers, NEW force \in BOOLEAN,
           Activate(session, V, force), UNCHANGED session, mounted' # {}
    PROVE  waiting' \in Seq(Activation) /\ ActivationsInOrder'
<1> USE DEF DemandInv
<1>0. SyncDemand(session, V)
  BY DEF Activate
<1>1. waiting \in Seq(Activation) /\ Len(waiting) \in Nat
  BY DEF TypeOK
<1>2. \A i \in 1..Len(waiting) :
         waiting[i].calls \in Nat /\ waiting[i].calls <= Len(chains[session])
  BY WaitingFacts
<1>3. /\ Len(chains[session]) \in Nat /\ Len(chains'[session]) \in Nat
      /\ Len(chains[session]) <= Len(chains'[session]) /\ session \in 1..MaxSessions
  BY <1>0, SyncDemandFacts
<1>4. \A i \in 1..Len(waiting) : waiting[i].calls <= Len(chains'[session])
  BY <1>2, <1>3
<1> DEFINE a == [calls |-> Len(chains'[session]), force |-> force]
<1>5. a \in Activation /\ a.calls = Len(chains'[session])
  BY <1>3 DEF Activation
<1>6. waiting' = Append(waiting, a)
  BY DEF Activate
<1> HIDE DEF a
<1>7. /\ waiting' \in Seq(Activation) /\ Len(waiting') = Len(waiting) + 1
      /\ waiting'[Len(waiting) + 1] = a
      /\ \A i \in 1..Len(waiting) : waiting'[i] = waiting[i]
  BY <1>1, <1>5, <1>6, AppendFacts
<1>8. \A i \in 1..Len(waiting') :
         \/ i \in 1..Len(waiting) /\ waiting'[i] = waiting[i]
         \/ i = Len(waiting) + 1 /\ waiting'[i] = a
  BY <1>1, <1>7
<1>9. \A i \in 1..Len(waiting') : waiting'[i].calls <= Len(chains'[session])
  BY <1>3, <1>4, <1>5, <1>8
<1>10. ASSUME NEW i \in 1..Len(waiting'), NEW j \in 1..Len(waiting'), i <= j
       PROVE  waiting'[i].calls <= waiting'[j].calls
  <2>1. CASE j = Len(waiting) + 1
    BY <1>5, <1>7, <1>9, <2>1
  <2>2. CASE j # Len(waiting) + 1
    <3>1. i \in 1..Len(waiting) /\ j \in 1..Len(waiting)
      BY <1>1, <1>7, <1>10, <2>2
    <3> QED BY <1>7, <1>10, <3>1 DEF ActivationsInOrder
  <2> QED BY <2>1, <2>2
<1> QED BY <1>3, <1>7, <1>9, <1>10 DEF ActivationsInOrder

\* A call that is done is one less to wait for.
LEMMA CallDoneKeeps ==
    ASSUME DemandInv, NEW k \in 1..MaxSessions, ~Due, chains[k] # <<>>, CallDone(k),
           UNCHANGED <<session, mounted>>
    PROVE  /\ chains' \in [1..MaxSessions -> Seq(BOOLEAN)] /\ waiting' \in Seq(Activation)
           /\ handled' \in [1..MaxSessions -> BOOLEAN] /\ ~handled'[k]
           /\ \A x \in 1..MaxSessions : x # k => handled'[x] = handled[x]
           /\ chains'[k] = Tail(chains[k])
           /\ \A x \in 1..MaxSessions : x # k => chains'[x] = chains[x]
           /\ ActivationsInOrder'
<1> USE DEF DemandInv
<1>0. /\ handled' \in [1..MaxSessions -> BOOLEAN] /\ ~handled'[k]
      /\ \A x \in 1..MaxSessions : x # k => handled'[x] = handled[x]
  BY DEF TypeOK, CallDone
<1>1. chains \in [1..MaxSessions -> Seq(BOOLEAN)] /\ chains[k] \in Seq(BOOLEAN)
  BY DEF TypeOK
<1>2. /\ Tail(chains[k]) \in Seq(BOOLEAN) /\ Len(Tail(chains[k])) = Len(chains[k]) - 1
      /\ Len(chains[k]) \in Nat
  BY <1>1, TailFacts
<1>3. chains' = [chains EXCEPT ![k] = Tail(@)]
  BY DEF CallDone
<1>4. /\ chains' \in [1..MaxSessions -> Seq(BOOLEAN)]
      /\ chains'[k] = Tail(chains[k])
      /\ \A x \in 1..MaxSessions : x # k => chains'[x] = chains[x]
  BY <1>1, <1>2, <1>3
<1>5. waiting \in Seq(Activation) /\ Len(waiting) \in Nat /\ DOMAIN waiting = 1..Len(waiting)
  BY DEF TypeOK
<1>6. \A i \in 1..Len(waiting) :
         /\ waiting[i] \in Activation /\ waiting[i].calls \in Nat
         /\ waiting[i].calls <= Len(chains[session])
  BY WaitingFacts
<1>7. CASE k = session
  <2>1. waiting' = [i \in 1..Len(waiting) |-> [waiting[i] EXCEPT !.calls = @ - 1]]
    BY <1>5, <1>7 DEF CallDone
  <2>2. \A i \in 1..Len(waiting) : waiting[i].calls >= 1
    <3> SUFFICES ASSUME NEW i \in 1..Len(waiting) PROVE waiting[i].calls >= 1
      OBVIOUS
    <3>1. 1 \in 1..Len(waiting) /\ 1 <= i /\ waiting # <<>>
      BY <1>5
    <3>2. waiting[1].calls # 0 /\ waiting[1].calls \in Nat
      BY <1>6, <3>1 DEF Due
    <3>3. waiting[1].calls <= waiting[i].calls
      BY <3>1 DEF ActivationsInOrder
    <3> QED BY <1>6, <3>2, <3>3
  <2>3. \A i \in 1..Len(waiting) :
           /\ [waiting[i] EXCEPT !.calls = @ - 1] \in Activation
           /\ [waiting[i] EXCEPT !.calls = @ - 1].calls = waiting[i].calls - 1
    BY <1>6, <2>2 DEF Activation
  <2>4. /\ waiting' \in Seq(Activation) /\ Len(waiting') = Len(waiting)
        /\ \A i \in 1..Len(waiting) : waiting'[i].calls = waiting[i].calls - 1
    <3> DEFINE f == [i \in 1..Len(waiting) |-> [waiting[i] EXCEPT !.calls = @ - 1]]
    <3>1. f \in [1..Len(waiting) -> Activation]
      BY <2>3
    <3>2. \A i \in 1..Len(waiting) : f[i].calls = waiting[i].calls - 1
      BY <2>3
    <3>3. waiting' = f
      BY <2>1
    <3> HIDE DEF f
    <3> QED BY <1>5, <3>1, <3>2, <3>3, SeqOfFunction
  <2>5. \A i \in 1..Len(waiting) : waiting'[i].calls <= Len(chains'[session])
    <3> SUFFICES ASSUME NEW i \in 1..Len(waiting)
                 PROVE  waiting'[i].calls <= Len(chains'[session])
      OBVIOUS
    <3>1. waiting[i].calls \in Nat /\ waiting[i].calls <= Len(chains[session])
      BY <1>6
    <3>2. waiting'[i].calls = waiting[i].calls - 1
      BY <2>4
    <3>3. Len(chains'[session]) = Len(chains[session]) - 1 /\ Len(chains[session]) \in Nat
      BY <1>2, <1>4, <1>7
    <3> QED BY <3>1, <3>2, <3>3
  <2>6. \A i, j \in 1..Len(waiting) : i <= j => waiting'[i].calls <= waiting'[j].calls
    <3> SUFFICES ASSUME NEW i \in 1..Len(waiting), NEW j \in 1..Len(waiting), i <= j
                 PROVE  waiting'[i].calls <= waiting'[j].calls
      OBVIOUS
    <3>1. /\ waiting[i].calls \in Nat /\ waiting[j].calls \in Nat
          /\ waiting[i].calls <= waiting[j].calls
      BY WaitingFacts
    <3>2. /\ waiting'[i].calls = waiting[i].calls - 1
          /\ waiting'[j].calls = waiting[j].calls - 1
      BY <2>4
    <3> QED BY <3>1, <3>2
  <2>7. mounted = {} => waiting' = <<>>
    <3> SUFFICES ASSUME mounted = {} PROVE waiting' = <<>>
      OBVIOUS
    <3>1. Len(waiting) = 0
      BY DEF ActivationsInOrder
    <3> QED BY <2>4, <3>1
  <2> QED BY <1>0, <1>4, <2>4, <2>5, <2>6, <2>7 DEF ActivationsInOrder
<1>8. CASE k # session
  <2>1. waiting' = waiting
    BY <1>8 DEF CallDone
  <2>2. \A i \in 1..Len(waiting) : waiting[i].calls <= Len(chains'[session])
    <3>1. CASE mounted = {}
      BY <1>5, <3>1 DEF ActivationsInOrder
    <3>2. CASE mounted # {}
      <4>1. chains'[session] = chains[session]
        BY <1>4, <1>8, <3>2 DEF ActivationsInOrder
      <4> QED BY <1>6, <4>1
    <3> QED BY <3>1, <3>2
  <2> QED BY <1>0, <1>4, <1>5, <2>1, <2>2 DEF ActivationsInOrder
<1> QED BY <1>7, <1>8

\* What a chain asks for last when its first call is done.
LEMMA LastOfTail ==
    ASSUME NEW s \in Seq(BOOLEAN), s # <<>>
    PROVE  Last(s) = IF Tail(s) = <<>> THEN Head(s) ELSE Last(Tail(s))
<1> DEFINE r == Tail(s)
<1>1. /\ Len(s) \in Nat /\ Len(s) > 0
      /\ r \in Seq(BOOLEAN) /\ Len(r) = Len(s) - 1 /\ Head(s) = s[1]
      /\ \A i \in 1..(Len(s) - 1) : r[i] = s[i + 1]
  BY TailFacts
<1>2. Last(s) = s[Len(s)]
  BY DEF Last
<1> SUFFICES s[Len(s)] = IF r = <<>> THEN Head(s) ELSE Last(r)
  BY <1>2
<1> HIDE DEF r
<1>3. CASE r = <<>>
  <2>1. Len(r) = 0
    BY <1>3, EmptySeq
  <2>2. Len(s) = 1
    BY <1>1, <2>1
  <2> QED BY <1>1, <1>3, <2>2
<1>4. CASE r # <<>>
  <2>1. Len(r) # 0
    BY <1>1, <1>4, EmptySeq
  <2>2. Len(s) - 1 \in 1..(Len(s) - 1) /\ (Len(s) - 1) + 1 = Len(s)
    BY <1>1, <2>1
  <2>3. Last(r) = s[Len(s)]
    BY <1>1, <2>2 DEF Last
  <2> QED BY <1>4, <2>3
<1> QED BY <1>3, <1>4

\* A call that is over has been handled, or the server is adrift.
LEMMA CallDoneCounts ==
    ASSUME DemandInv, NEW k \in 1..MaxSessions, ~Due, chains[k] # <<>>, CallDone(k),
           UNCHANGED <<session, mounted, visible, demandActive, demand>>,
           adrift' = (adrift \/ ~handled[k])
    PROVE  LastCallCounts'
<1> USE DEF DemandInv
<1>1. /\ ~handled'[k] /\ \A x \in 1..MaxSessions : x # k => handled'[x] = handled[x]
      /\ chains'[k] = Tail(chains[k])
      /\ \A x \in 1..MaxSessions : x # k => chains'[x] = chains[x]
  BY CallDoneKeeps
<1>2. chains[k] \in Seq(BOOLEAN) /\ session \in Nat /\ k \in Nat
      /\ session \in 0..MaxSessions /\ adrift \in BOOLEAN /\ handled[k] \in BOOLEAN
  BY DEF TypeOK
<1>3. k <= session /\ session # 0
  BY <1>2 DEF LastCallCounts
<1>4. \A x \in 1..MaxSessions : handled'[x] => chains'[x] # <<>>
  BY <1>1 DEF LastCallCounts
<1>5. \A x \in 1..MaxSessions : x > session => chains'[x] = <<>>
  BY <1>1, <1>2, <1>3 DEF LastCallCounts
<1>6. /\ chains'[session] # <<>> => Last(chains'[session]) = demandActive
      /\ chains'[session] = <<>> /\ ~adrift' => demand = demandActive
      /\ handled'[session] /\ ~adrift' => demand = Head(chains'[session])
  <2>1. CASE k = session
    <3>1. Last(chains[k]) = demandActive
      BY <1>3, <2>1 DEF LastCallCounts
    <3>2. demandActive = IF Tail(chains[k]) = <<>> THEN Head(chains[k])
                         ELSE Last(Tail(chains[k]))
      BY <1>2, <3>1, LastOfTail
    <3>3. ~adrift' => ~adrift /\ handled[k]
      BY <1>2
    <3>4. ~adrift' => demand = Head(chains[k])
      BY <1>3, <2>1, <3>3 DEF LastCallCounts
    <3> QED BY <1>1, <2>1, <3>2, <3>4
  <2>2. CASE k # session
    <3>1. session \in 1..MaxSessions
      BY <1>2, <1>3
    <3>2. chains'[session] = chains[session] /\ handled'[session] = handled[session]
      BY <1>1, <2>2, <3>1
    <3>3. ~adrift' => ~adrift
      BY <1>2
    <3> QED BY <1>3, <3>2, <3>3 DEF LastCallCounts
  <2> QED BY <2>1, <2>2
<1>7. demandActive' = (visible' # {})
  BY DEF LastCallCounts
<1> QED BY <1>3, <1>4, <1>5, <1>6, <1>7 DEF LastCallCounts
-----------------------------------------------------------------------------
(* Requests, events held back, and the state. *)

SyncTyped ==
    /\ requests \subseteq Request
    /\ state \in State
    /\ pending \in Held \cup {None}
    /\ pending # None => Len(pending.events) <= Limit

\* The parts of the invariant about them.
SyncInv == TypeOK /\ OneRequestCounts /\ EventsInOrder /\ TailIsWhole

LEMMA SyncFrame ==
    ASSUME SyncInv, UNCHANGED <<emitted, wire, requests, pending, state>>,
           mounted' = {} => mounted = {}
    PROVE  SyncTyped' /\ OneRequestCounts' /\ EventsInOrder' /\ TailIsWhole'
<1>1. SyncTyped'
  BY DEF SyncInv, TypeOK, SyncTyped
<1>2. OneRequestCounts'
  BY DEF SyncInv, OneRequestCounts, OneCounts
<1>3. EventsInOrder'
  BY DEF SyncInv, EventsInOrder, HeldInOrder, Increasing, UpTo
<1>4. TailIsWhole'
  BY DEF SyncInv, TailIsWhole, Whole
<1> QED BY <1>1, <1>2, <1>3, <1>4

LEMMA SupersededFacts ==
    ASSUME NEW out \in SUBSET Request
    PROVE  /\ Superseded(out) \subseteq Request
           /\ \A r \in Superseded(out) : ~r.current /\ \E q \in out : r.toSeq = q.toSeq
BY DEF Superseded, Request

LEMMA NothingHeldFacts ==
    /\ NothingHeld \in Held /\ NothingHeld # None /\ NothingHeld.events = <<>>
    /\ Len(NothingHeld.events) = 0
<1>1. NothingHeld \in Held
  BY EmptySeq DEF NothingHeld, Held
<1> QED BY <1>1, PresentationBounds DEF NothingHeld

\* resync: one request counts.
LEMMA ResyncFacts ==
    ASSUME TypeOK, NEW rest \in SUBSET Request, NEW held \in Held \cup {None},
           OneCounts(rest, held), Resync(rest, held)
    PROVE  /\ requests' \subseteq Request
           /\ OneCounts(requests', pending')
           /\ pending' = held \/ (visible # {} /\ pending' = NothingHeld)
           /\ state' \in State /\ state'.toSeq = state.toSeq /\ state'.tail = state.tail
           /\ state'.resetTo = state.resetTo /\ state'.generation = state.generation
           /\ \A r \in requests' : r.toSeq # None => \E q \in rest : r.toSeq = q.toSeq
<1>0. state \in State
  BY DEF TypeOK
<1>1. CASE visible = {}
  BY <1>0, <1>1 DEF Resync
<1>2. CASE visible # {}
  <2> DEFINE new == [current |-> TRUE, toSeq |-> None]
  <2>1. /\ requests' = Superseded(rest) \cup {new} /\ pending' = NothingHeld
        /\ state' = [state EXCEPT !.status = IF @ \in {"idle", "error"}
                                             THEN "loading" ELSE "recovering"]
    BY <1>2 DEF Resync
  <2>2. new \in Request /\ new.current /\ new.toSeq = None
    BY DEF Request
  <2> HIDE DEF new
  <2>3. requests' \subseteq Request
    BY <2>1, <2>2, SupersededFacts
  <2>4. \A r \in requests' : r = new \/ (~r.current /\ \E q \in rest : r.toSeq = q.toSeq)
    BY <2>1, SupersededFacts
  <2>5. new \in requests'
    BY <2>1
  <2>6. OneCounts(requests', pending')
    BY <2>1, <2>2, <2>4, <2>5, NothingHeldFacts DEF OneCounts
  <2>7. /\ state' \in State /\ state'.toSeq = state.toSeq /\ state'.tail = state.tail
        /\ state'.resetTo = state.resetTo /\ state'.generation = state.generation
    BY <1>0, <2>1 DEF State, Statuses
  <2> QED BY <1>2, <2>1, <2>2, <2>3, <2>4, <2>6, <2>7
<1> QED BY <1>1, <1>2

\* Events held back stay in order when nothing is added to them.
LEMMA HeldKept ==
    ASSUME SyncInv, NEW held, held \in {pending, NothingHeld, None}, emitted' = emitted,
           wire' = wire \/ (wire # <<>> /\ wire' = Tail(wire))
    PROVE  /\ Increasing(wire') /\ UpTo(wire', emitted')
           /\ wire' \in Seq(Chunks)
           /\ held # None => /\ held \in Held /\ Len(held.events) <= Limit
                             /\ Increasing(held.events) /\ UpTo(held.events, emitted')
                             /\ \A i \in 1..Len(held.events), j \in 1..Len(wire') :
                                   held.events[i] < wire'[j]
<1> USE DEF SyncInv
<1>1. wire \in Seq(Chunks) /\ Len(wire) \in Nat
  BY DEF TypeOK
<1>2. /\ wire' \in Seq(Chunks) /\ Len(wire') \in Nat
      /\ \/ wire' = wire
         \/ /\ Len(wire') = Len(wire) - 1
            /\ \A j \in 1..Len(wire') : wire'[j] = wire[j + 1]
  BY <1>1, TailFacts
<1>3. \E d \in {0, 1} : /\ Len(wire') = Len(wire) - d
                        /\ \A j \in 1..Len(wire') : wire'[j] = wire[j + d]
  BY <1>1, <1>2
<1>4. PICK d \in {0, 1} : /\ Len(wire') = Len(wire) - d
                          /\ \A j \in 1..Len(wire') : wire'[j] = wire[j + d]
  BY <1>3
<1>5. \A j \in 1..Len(wire') : j + d \in 1..Len(wire)
  BY <1>1, <1>2, <1>4
<1>6. Increasing(wire')
  <2> SUFFICES ASSUME NEW i \in 1..Len(wire'), NEW j \in 1..Len(wire'), i < j
               PROVE  wire'[i] < wire'[j]
    BY DEF Increasing
  <2>1. /\ i + d \in 1..Len(wire) /\ j + d \in 1..Len(wire) /\ i + d < j + d
    BY <1>1, <1>2, <1>5
  <2>2. wire[i + d] < wire[j + d]
    BY <2>1 DEF EventsInOrder, Increasing
  <2> QED BY <1>4, <2>2
<1>7. UpTo(wire', emitted')
  BY <1>4, <1>5 DEF EventsInOrder, UpTo
<1>8. held # None =>
        /\ held \in Held /\ Len(held.events) <= Limit
        /\ Increasing(held.events) /\ UpTo(held.events, emitted')
        /\ \A i \in 1..Len(held.events), j \in 1..Len(wire) : held.events[i] < wire[j]
  <2>1. CASE held = NothingHeld
    BY <2>1, NothingHeldFacts, PresentationBounds DEF Increasing, UpTo
  <2>2. CASE held = pending
    BY <2>2 DEF EventsInOrder, HeldInOrder, TypeOK
  <2> QED BY <2>1, <2>2
<1>9. held # None =>
        \A i \in 1..Len(held.events), j \in 1..Len(wire') : held.events[i] < wire'[j]
  BY <1>4, <1>5, <1>8
<1> QED BY <1>2, <1>6, <1>7, <1>8, <1>9

\* A resync keeps all of it, whatever requests are dropped and released before it.
LEMMA ResyncKeeps ==
    ASSUME SyncInv, NEW rest \in SUBSET requests, NEW held \in {pending, None},
           OneCounts(rest, held), Resync(rest, held),
           UNCHANGED <<emitted, mounted, visible>>,
           wire' = wire \/ (wire # <<>> /\ wire' = Tail(wire))
    PROVE  SyncTyped' /\ OneRequestCounts' /\ EventsInOrder' /\ TailIsWhole'
<1> USE DEF SyncInv
<1>0. rest \in SUBSET Request /\ held \in Held \cup {None}
  BY DEF TypeOK
<1>1. /\ requests' \subseteq Request
      /\ OneCounts(requests', pending')
      /\ pending' = held \/ (visible # {} /\ pending' = NothingHeld)
      /\ state' \in State /\ state'.toSeq = state.toSeq /\ state'.tail = state.tail
      /\ state'.resetTo = state.resetTo
      /\ \A r \in requests' : r.toSeq # None => \E q \in rest : r.toSeq = q.toSeq
  BY <1>0, ResyncFacts
<1>2. pending' \in {pending, NothingHeld, None}
  BY <1>1
<1>3. SyncTyped'
  BY <1>1, <1>2, HeldKept DEF SyncTyped
<1>4. OneRequestCounts'
  <2>1. mounted = {} => visible = {} /\ held = None
    BY DEF TypeOK, OneRequestCounts
  <2>2. mounted' = {} => pending' = None
    BY <1>1, <2>1
  <2>3. OneCounts(requests, pending)'
    BY <1>1
  <2> QED BY <2>2, <2>3 DEF OneRequestCounts
<1>5. EventsInOrder'
  <2>1. HeldInOrder(pending)'
    BY <1>2, HeldKept DEF HeldInOrder
  <2>2. \A r \in requests' : r.toSeq # None => r.toSeq <= emitted'
    BY <1>1 DEF EventsInOrder
  <2> QED BY <1>2, <2>1, <2>2, HeldKept DEF EventsInOrder
<1>6. TailIsWhole'
  BY <1>1 DEF TailIsWhole, Whole
<1> QED BY <1>3, <1>4, <1>5, <1>6
-----------------------------------------------------------------------------
(* Surfaces. *)

LEMMA Numbers ==
    ASSUME NEW n \in Cursors
    PROVE  /\ [i \in 1..n |-> i] \in Seq(Chunks) /\ Len([i \in 1..n |-> i]) = n
           /\ \A i \in 1..n : [j \in 1..n |-> j][i] = i
<1> DEFINE f == [i \in 1..n |-> i]
<1>1. n \in Nat /\ f \in [1..n -> Chunks]
  BY PresentationBounds DEF Cursors, Chunks
<1>2. \A i \in 1..n : f[i] = i
  OBVIOUS
<1> HIDE DEF f
<1>3. f \in Seq(Chunks) /\ Len(f) = n
  BY <1>1, SeqOfFunction
<1> QED BY <1>2, <1>3 DEF f

LEMMA BlankFacts ==
    /\ BlankSurface \in Surface /\ BlankSurface.toSeq = 0
    /\ BlankSurface.shown = [n \in 1..BlankSurface.toSeq |-> n]
<1>1. BlankSurface.shown = <<>> /\ BlankSurface.toSeq = 0 /\ BlankSurface.generation = None
  BY DEF BlankSurface
<1>2. 0 \in Cursors
  BY PresentationBounds DEF Cursors
<1>3. [n \in 1..0 |-> n] \in Seq(Chunks) /\ Len([n \in 1..0 |-> n]) = 0
  BY <1>2, Numbers
<1>4. [n \in 1..0 |-> n] = <<>>
  BY <1>3, EmptySeq
<1>5. <<>> \in Seq(Chunks)
  BY EmptySeq
<1>6. BlankSurface \in Surface
  BY <1>2, <1>5 DEF BlankSurface, Surface
<1> QED BY <1>1, <1>4, <1>6

LEMMA SurfaceFrame ==
    ASSUME TypeOK, SurfacesShowPrefix, surface' = surface, emitted' \in Cursors,
           emitted <= emitted'
    PROVE  SurfacesShowPrefix'
<1> SUFFICES ASSUME NEW v \in Viewers
             PROVE  /\ surface[v].shown = [n \in 1..surface[v].toSeq |-> n]
                    /\ surface[v].toSeq <= emitted'
  BY DEF SurfacesShowPrefix
<1>1. surface[v].toSeq \in Nat /\ emitted \in Nat /\ emitted' \in Nat
  BY DEF TypeOK, Surface, Cursors
<1>2. surface[v].toSeq <= emitted
  BY DEF SurfacesShowPrefix
<1> QED BY <1>1, <1>2 DEF SurfacesShowPrefix

\* A surface that starts over shows nothing.
LEMMA SurfaceBlanked ==
    ASSUME TypeOK, SurfacesShowPrefix, NEW v \in Viewers, emitted' = emitted,
           surface' = [surface EXCEPT ![v] = BlankSurface]
    PROVE  surface' \in [Viewers -> Surface] /\ SurfacesShowPrefix'
<1>1. surface' \in [Viewers -> Surface]
  BY BlankFacts DEF TypeOK
<1>2. ASSUME NEW w \in Viewers
      PROVE  /\ surface'[w].shown = [n \in 1..surface'[w].toSeq |-> n]
             /\ surface'[w].toSeq <= emitted'
  <2>1. CASE w = v
    <3>1. surface'[w] = BlankSurface
      BY <2>1 DEF TypeOK
    <3>2. emitted \in Nat
      BY DEF TypeOK, Cursors
    <3> QED BY <3>1, <3>2, BlankFacts
  <2>2. CASE w # v
    <3>1. surface'[w] = surface[w]
      BY <2>2 DEF TypeOK
    <3> QED BY <3>1 DEF SurfacesShowPrefix
  <2> QED BY <2>1, <2>2
<1> QED BY <1>1, <1>2 DEF SurfacesShowPrefix

-----------------------------------------------------------------------------
(* Every step keeps the invariant. *)

\* The steps that touch neither demand nor surfaces.
LEMMA SyncStep ==
    ASSUME PresentationInv, SyncTyped', OneRequestCounts', EventsInOrder', TailIsWhole',
           wire' \in Seq(Chunks),
           UNCHANGED <<emitted, demand, connected, drops, viewVars, chains, handled, stray,
                       waiting, surface, adrift>>,
           failures' \in 0..MaxFailures, untroubled' \in BOOLEAN
    PROVE  PresentationInv'
<1> USE DEF PresentationInv, DemandInv
<1>1. TypeOK'
  BY DEF TypeOK, viewVars, SyncTyped
<1>2. ActivationsInOrder' /\ LastCallCounts'
  BY DemandFrame DEF viewVars
<1>3. emitted \in Nat
  BY DEF TypeOK, Cursors
<1>4. SurfacesShowPrefix'
  BY <1>3, SurfaceFrame DEF TypeOK
<1> QED BY <1>1, <1>2, <1>4

\* The steps that touch only demand and surfaces.
LEMMA DemandStep ==
    ASSUME PresentationInv, TypeOK', ActivationsInOrder', LastCallCounts',
           SurfacesShowPrefix', UNCHANGED <<emitted, wire, syncVars>>,
           mounted' = {} => mounted = {}
    PROVE  PresentationInv'
BY SyncFrame DEF PresentationInv, SyncInv, syncVars

LEMMA EmitKeeps ==
    ASSUME PresentationInv, Emit
    PROVE  PresentationInv'
<1> USE DEF PresentationInv, DemandInv
<1>1. /\ emitted \in Nat /\ emitted' = emitted + 1 /\ emitted' \in Cursors
      /\ emitted' \in Chunks /\ emitted' \in Nat
  BY PresentationBounds DEF Emit, TypeOK, Cursors, Chunks
<1>2. wire \in Seq(Chunks) /\ Len(wire) \in Nat
  BY DEF TypeOK
<1>3. wire' = wire \/ wire' = Append(wire, emitted')
  BY <1>1 DEF Emit
<1>4. /\ wire' \in Seq(Chunks) /\ Len(wire') \in Nat
      /\ \A i \in 1..Len(wire') : \/ i \in 1..Len(wire) /\ wire'[i] = wire[i]
                                  \/ i > Len(wire) /\ i = Len(wire') /\ wire'[i] = emitted'
  <2>1. CASE wire' = wire
    BY <1>2, <2>1
  <2>2. CASE wire' = Append(wire, emitted')
    <3>1. /\ wire' \in Seq(Chunks) /\ Len(wire') = Len(wire) + 1
          /\ wire'[Len(wire) + 1] = emitted'
          /\ \A i \in 1..Len(wire) : wire'[i] = wire[i]
      BY <1>1, <1>2, <2>2, AppendFacts
    <3> QED BY <1>2, <3>1
  <2> QED BY <1>3, <2>1, <2>2
<1>5. \A i \in 1..Len(wire) : wire[i] \in Nat /\ wire[i] <= emitted
  BY <1>2, ChunkFacts DEF EventsInOrder, UpTo
<1>6. Increasing(wire')
  <2> SUFFICES ASSUME NEW i \in 1..Len(wire'), NEW j \in 1..Len(wire'), i < j
               PROVE  wire'[i] < wire'[j]
    BY DEF Increasing
  <2>1. i \in 1..Len(wire) /\ wire'[i] = wire[i]
    BY <1>2, <1>4
  <2>2. CASE wire'[j] = emitted'
    BY <1>1, <1>5, <2>1, <2>2
  <2>3. CASE j \in 1..Len(wire) /\ wire'[j] = wire[j]
    BY <2>1, <2>3 DEF EventsInOrder, Increasing
  <2> QED BY <1>4, <2>2, <2>3
<1>7. UpTo(wire', emitted')
  BY <1>1, <1>4, <1>5 DEF UpTo
<1>8. HeldInOrder(pending)'
  <2> SUFFICES ASSUME pending # None
               PROVE  /\ Increasing(pending.events) /\ UpTo(pending.events, emitted')
                      /\ \A i \in 1..Len(pending.events), j \in 1..Len(wire') :
                            pending.events[i] < wire'[j]
    BY DEF HeldInOrder, Emit, syncVars
  <2>1. pending.events \in Seq(Chunks)
    BY DEF TypeOK, Held
  <2>2. \A i \in 1..Len(pending.events) :
           /\ pending.events[i] \in Nat /\ pending.events[i] <= emitted
           /\ \A j \in 1..Len(wire) : pending.events[i] < wire[j]
    BY <2>1, ChunkFacts DEF EventsInOrder, HeldInOrder, UpTo
  <2>3. \A i \in 1..Len(pending.events) : pending.events[i] < emitted'
    BY <1>1, <2>2
  <2>4. UpTo(pending.events, emitted')
    BY <1>1, <2>2 DEF UpTo
  <2>5. \A i \in 1..Len(pending.events), j \in 1..Len(wire') : pending.events[i] < wire'[j]
    BY <1>4, <2>2, <2>3
  <2>6. Increasing(pending.events)
    BY DEF EventsInOrder, HeldInOrder
  <2> QED BY <2>4, <2>5, <2>6
<1>9. \A r \in requests' : r.toSeq # None => r.toSeq <= emitted'
  <2>1. requests' = requests /\ requests \subseteq Request
    BY DEF Emit, syncVars, TypeOK
  <2>2. \A r \in requests : r.toSeq # None => r.toSeq \in Nat /\ r.toSeq <= emitted
    BY <2>1 DEF Request, Cursors, EventsInOrder
  <2> QED BY <1>1, <2>1, <2>2
<1>10. EventsInOrder'
  BY <1>6, <1>7, <1>8, <1>9 DEF EventsInOrder
<1>11. TailIsWhole'
  <2>1. state' = state /\ state.toSeq \in Nat /\ state.toSeq <= emitted
    BY DEF Emit, syncVars, TypeOK, State, Cursors, TailIsWhole
  <2> QED BY <1>1, <2>1 DEF TailIsWhole, Whole
<1>12. SurfacesShowPrefix'
  BY <1>1, SurfaceFrame DEF Emit
<1>13. TypeOK'
  BY <1>1, <1>4 DEF Emit, TypeOK, viewVars, syncVars, callVars
<1>14. OneRequestCounts'
  BY DEF OneRequestCounts, OneCounts, Emit, viewVars, syncVars
<1>15. ActivationsInOrder' /\ LastCallCounts'
  BY DemandFrame DEF Emit, viewVars, callVars
<1> QED BY <1>10, <1>11, <1>12, <1>13, <1>14, <1>15

LEMMA AnswerKeeps ==
    ASSUME PresentationInv, NEW r \in requests, Answer(r)
    PROVE  PresentationInv'
<1> USE DEF PresentationInv, SyncInv
<1> DEFINE a == [r EXCEPT !.toSeq = emitted]
<1>1. r \in Request /\ requests \subseteq Request /\ emitted \in Cursors /\ emitted \in Nat
  BY DEF TypeOK, Cursors
<1>2. a \in Request /\ a.current = r.current /\ a.toSeq = emitted
  BY <1>1 DEF Request
<1>3. /\ requests' = (requests \ {r}) \cup {a} /\ state' = state /\ pending' = pending
      /\ emitted' = emitted /\ wire' = wire /\ mounted' = mounted
  BY DEF Answer, serverVars, viewVars
<1> HIDE DEF a
<1>4. SyncTyped'
  BY <1>1, <1>2, <1>3 DEF SyncTyped, TypeOK
<1>5. OneRequestCounts'
  <2>1. OneCounts(requests, pending)
    BY DEF OneRequestCounts
  <2>2. OneCounts(requests', pending)
    BY <1>2, <1>3, <2>1 DEF OneCounts
  <2> QED BY <1>3, <2>2 DEF OneRequestCounts
<1>6. EventsInOrder'
  <2>1. \A q \in requests' : q.toSeq # None => q.toSeq <= emitted'
    BY <1>1, <1>2, <1>3 DEF EventsInOrder
  <2> QED BY <1>3, <2>1 DEF EventsInOrder, HeldInOrder, Increasing, UpTo
<1>7. TailIsWhole'
  BY <1>3 DEF TailIsWhole, Whole
<1>8. wire' \in Seq(Chunks) /\ untroubled' \in BOOLEAN /\ failures' \in 0..MaxFailures
  BY <1>3 DEF Answer, TypeOK, callVars
<1>9. UNCHANGED <<emitted, demand, connected, drops, viewVars, chains, handled, stray,
                     waiting, surface, adrift>>
  BY DEF Answer, serverVars, callVars
<1> QED BY <1>4, <1>5, <1>6, <1>7, <1>8, <1>9, SyncStep
LEMMA ContinueKeeps ==
    ASSUME PresentationInv, Continue
    PROVE  PresentationInv'
<1> USE DEF PresentationInv, SyncInv, DemandInv
<1>1. /\ UNCHANGED <<emitted, demand, connected, wire, drops, session, mounted, visible,
                     demandActive, toggles, chains, handled, stray, failures, surface, adrift,
                     untroubled>>
      /\ waiting' = Tail(waiting) /\ waiting # <<>>
      /\ Resync(requests, pending) \/ UNCHANGED <<requests, state, pending>>
  BY DEF Continue, Due, serverVars, viewVars, syncVars, callVars
<1>2. SyncTyped' /\ OneRequestCounts' /\ EventsInOrder' /\ TailIsWhole'
  <2>1. CASE Resync(requests, pending)
    <3>1. OneCounts(requests, pending)
      BY DEF OneRequestCounts
    <3> QED BY <1>1, <2>1, <3>1, ResyncKeeps
  <2>2. CASE UNCHANGED <<requests, state, pending>>
    BY <1>1, <2>2, SyncFrame
  <2> QED BY <1>1, <2>1, <2>2
<1>3. /\ waiting \in Seq(Activation) /\ Len(waiting) \in Nat
      /\ \A i \in 1..Len(waiting) : waiting[i].calls <= Len(chains[session])
      /\ \A i, j \in 1..Len(waiting) : i <= j => waiting[i].calls <= waiting[j].calls
  BY WaitingFacts
<1>4. /\ waiting' \in Seq(Activation) /\ Len(waiting') = Len(waiting) - 1
      /\ \A i \in 1..Len(waiting') : waiting'[i] = waiting[i + 1]
  BY <1>1, <1>3, TailFacts
<1>5. \A i \in 1..Len(waiting') : i + 1 \in 1..Len(waiting)
  BY <1>3, <1>4
<1>6. ActivationsInOrder'
  <2>1. \A i \in 1..Len(waiting') : waiting'[i].calls <= Len(chains'[session'])
    BY <1>1, <1>3, <1>4, <1>5
  <2>2. ASSUME NEW i \in 1..Len(waiting'), NEW j \in 1..Len(waiting'), i <= j
        PROVE  waiting'[i].calls <= waiting'[j].calls
    <3>1. i + 1 \in 1..Len(waiting) /\ j + 1 \in 1..Len(waiting) /\ i + 1 <= j + 1
      BY <1>3, <1>4, <1>5, <2>2
    <3> QED BY <1>3, <1>4, <3>1
  <2>3. mounted' # {}
    BY <1>1 DEF ActivationsInOrder
  <2> QED BY <1>1, <2>1, <2>2, <2>3 DEF ActivationsInOrder
<1>7. LastCallCounts'
  BY <1>1 DEF LastCallCounts
<1>8. TypeOK'
  BY <1>1, <1>2, <1>4 DEF TypeOK, SyncTyped
<1>9. SurfacesShowPrefix'
  <2>1. emitted \in Nat /\ emitted \in Cursors
    BY DEF TypeOK, Cursors
  <2> QED BY <1>1, <2>1, SurfaceFrame
<1> QED BY <1>2, <1>6, <1>7, <1>8, <1>9

\* What a response that is listened to makes of the events held back.
LEMMA ResponseFacts ==
    ASSUME PresentationInv, NEW r \in requests, r.current, r.toSeq # None,
           Consecutive(Newer(pending.events, r.toSeq), r.toSeq)
    PROVE  LET s == AppendEvents(SnapshotState(r.toSeq), Newer(pending.events, r.toSeq))
           IN  s \in State /\ Whole(s) /\ s.toSeq <= emitted
<1> USE DEF PresentationInv
<1> DEFINE unseen == Newer(pending.events, r.toSeq)
           base == SnapshotState(r.toSeq)
           s == AppendEvents(base, unseen)
<1>1. /\ r \in Request /\ r.toSeq \in Cursors /\ r.toSeq \in Nat /\ r.toSeq <= emitted
      /\ emitted \in Nat
  BY DEF TypeOK, Request, Cursors, EventsInOrder
<1>2. pending # None /\ pending \in Held
  BY DEF OneRequestCounts, OneCounts, TypeOK
<1>3. pending.events \in Seq(Chunks) /\ UpTo(pending.events, emitted)
  BY <1>2 DEF Held, EventsInOrder, HeldInOrder
<1>4. base \in State /\ Whole(base) /\ base.toSeq = r.toSeq
  <2>1. state.generation \in Nat
    BY DEF TypeOK, State
  <2>2. <<>> \in Seq(Chunks) /\ Len(<<>>) = 0
    BY EmptySeq
  <2>3. base \in State
    BY <1>1, <2>1, <2>2 DEF SnapshotState, State, Statuses
  <2>4. /\ base.toSeq = r.toSeq /\ base.resetTo = r.toSeq /\ base.tail = <<>>
    BY DEF SnapshotState
  <2> HIDE DEF base
  <2>5. Whole(base)
    BY <1>1, <2>2, <2>4 DEF Whole
  <2> QED BY <2>3, <2>4, <2>5
<1> HIDE DEF base
<1>5. PICK k \in 0..Len(pending.events) :
         /\ unseen \in Seq(Chunks) /\ Len(unseen) = Len(pending.events) - k
         /\ \A i \in 1..(Len(pending.events) - k) : unseen[i] = pending.events[k + i]
  <2>1. ASSUME NEW e \in Seq(Chunks), NEW n
        PROVE  \E k \in 0..Len(e) :
                  /\ Newer(e, n) \in Seq(Chunks) /\ Len(Newer(e, n)) = Len(e) - k
                  /\ \A i \in 1..(Len(e) - k) : Newer(e, n)[i] = e[k + i]
    BY NewerFacts
  <2> QED BY <1>3, <2>1
<1>6. Consecutive(unseen, base.toSeq)
  BY <1>4
<1> HIDE DEF unseen
<1>7. s \in State /\ Whole(s) /\ s.toSeq = r.toSeq + Len(unseen)
  <2>1. unseen \in Seq(Chunks)
    BY <1>5
  <2>2. /\ AppendEvents(base, unseen) \in State /\ Whole(AppendEvents(base, unseen))
        /\ AppendEvents(base, unseen).toSeq = base.toSeq + Len(unseen)
    BY <1>4, <1>6, <2>1, AppendEventsFacts
  <2> QED BY <1>4, <2>2
<1> HIDE DEF s
<1>8. s.toSeq <= emitted
  <2>1. Len(unseen) \in Nat /\ Len(pending.events) \in Nat
    BY <1>3, <1>5
  <2>2. CASE Len(unseen) = 0
    BY <1>1, <1>7, <2>2
  <2>3. CASE Len(unseen) # 0
    <3>1. Len(unseen) \in 1..Len(unseen) /\ Len(unseen) \in DOMAIN unseen
      BY <1>5, <2>1, <2>3
    <3>2. unseen[Len(unseen)] = r.toSeq + Len(unseen)
      BY <1>4, <1>6, <3>1 DEF Consecutive
    <3>3. k + Len(unseen) = Len(pending.events) /\ Len(pending.events) \in 1..Len(pending.events)
      BY <1>5, <2>1, <2>3
    <3>4. unseen[Len(unseen)] = pending.events[Len(pending.events)]
      BY <1>5, <3>1, <3>3
    <3>5. pending.events[Len(pending.events)] <= emitted
      BY <1>3, <3>3 DEF UpTo
    <3> QED BY <1>7, <3>2, <3>4, <3>5
  <2> QED BY <2>2, <2>3
<1> QED BY <1>7, <1>8 DEF s, base, unseen
LEMMA SnapshotResponseKeeps ==
    ASSUME PresentationInv, NEW r \in requests, SnapshotResponse(r)
    PROVE  PresentationInv'
<1> USE DEF PresentationInv, SyncInv
<1> DEFINE rest == requests \ {r}
           unseen == Newer(pending.events, r.toSeq)
<1>1. /\ UNCHANGED <<emitted, demand, connected, drops, viewVars, chains, handled, stray,
                     waiting, surface, adrift>>
      /\ wire' = wire /\ untroubled' = untroubled /\ mounted' = mounted /\ visible' = visible
      /\ r.toSeq # None /\ failures' = failures
  BY DEF SnapshotResponse, serverVars, viewVars, callVars
<1>2. wire' \in Seq(Chunks) /\ untroubled' \in BOOLEAN /\ failures' \in 0..MaxFailures
  BY <1>1 DEF TypeOK
<1>3. OneCounts(requests, pending) /\ requests \subseteq Request
  BY DEF OneRequestCounts, TypeOK
<1>4. SyncTyped' /\ OneRequestCounts' /\ EventsInOrder' /\ TailIsWhole'
  <2>1. CASE mounted = {} \/ ~r.current
    <3>1. requests' = rest /\ state' = state /\ pending' = pending
      BY <2>1 DEF SnapshotResponse
    <3>2. ~r.current
      BY <1>3, <2>1 DEF OneRequestCounts, OneCounts
    <3>3. OneCounts(requests', pending')
      BY <1>3, <3>1, <3>2 DEF OneCounts
    <3>4. OneRequestCounts'
      BY <1>1, <3>1, <3>3 DEF OneRequestCounts
    <3>5. SyncTyped'
      BY <3>1 DEF SyncTyped, TypeOK
    <3>6. EventsInOrder'
      BY <1>1, <3>1 DEF EventsInOrder, HeldInOrder, Increasing, UpTo
    <3>7. TailIsWhole'
      BY <1>1, <3>1 DEF TailIsWhole, Whole
    <3> QED BY <3>4, <3>5, <3>6, <3>7
  <2>2. CASE mounted # {} /\ r.current
    <3>1. \A q \in rest : ~q.current
      BY <1>3, <2>2 DEF OneCounts
    <3>2. CASE pending.overflowed \/ ~Consecutive(unseen, r.toSeq)
      <4>1. Resync(rest, None)
        BY <2>2, <3>2 DEF SnapshotResponse
      <4>2. OneCounts(rest, None) /\ rest \in SUBSET requests
        BY <3>1 DEF OneCounts
      <4> HIDE DEF rest
      <4> QED BY <1>1, <4>1, <4>2, ResyncKeeps
    <3>3. CASE ~pending.overflowed /\ Consecutive(unseen, r.toSeq)
      <4>1. /\ requests' = rest /\ pending' = None
            /\ state' = AppendEvents(SnapshotState(r.toSeq), unseen)
        BY <2>2, <3>3 DEF SnapshotResponse
      <4>2. state' \in State /\ Whole(state') /\ state'.toSeq <= emitted
        BY <1>1, <2>2, <3>3, <4>1, ResponseFacts
      <4> HIDE DEF unseen
      <4>3. SyncTyped'
        BY <1>3, <4>1, <4>2 DEF SyncTyped
      <4>4. OneRequestCounts'
        BY <3>1, <4>1 DEF OneRequestCounts, OneCounts
      <4>5. EventsInOrder'
        BY <1>1, <4>1 DEF EventsInOrder, HeldInOrder, Increasing, UpTo
      <4>6. TailIsWhole'
        BY <1>1, <4>2 DEF TailIsWhole, Whole
      <4> QED BY <4>3, <4>4, <4>5, <4>6
    <3> QED BY <3>2, <3>3
  <2> QED BY <2>1, <2>2
<1> QED BY <1>1, <1>2, <1>4, SyncStep

LEMMA FailureFacts ==
    ASSUME TypeOK, Failure
    PROVE  failures' \in 0..MaxFailures
BY PresentationBounds DEF TypeOK, Failure

\* A request that fails releases what it held back; one that is not listened to
\* changes nothing.
LEMMA SnapshotFailsKeeps ==
    ASSUME PresentationInv, NEW r \in requests, SnapshotFails(r)
    PROVE  PresentationInv'
<1> USE DEF PresentationInv
<1>1. /\ UNCHANGED <<emitted, demand, connected, drops, viewVars, chains, handled, stray,
                     waiting, surface, adrift>>
      /\ wire' = wire /\ untroubled' = untroubled /\ mounted' = mounted
      /\ requests' = requests \ {r} /\ Failure
  BY DEF SnapshotFails, serverVars, viewVars
<1>2. wire' \in Seq(Chunks) /\ untroubled' \in BOOLEAN /\ failures' \in 0..MaxFailures
  BY <1>1, FailureFacts DEF TypeOK
<1>3. OneCounts(requests, pending) /\ requests \subseteq Request /\ state \in State
  BY DEF OneRequestCounts, TypeOK
<1>4. \/ mounted # {} /\ r.current /\ pending' = None
      \/ (mounted = {} \/ ~r.current) /\ pending' = pending
  BY DEF SnapshotFails
<1>5. \/ state' = state
      \/ state' = [state EXCEPT !.status = "error"]
  BY DEF SnapshotFails
<1>6. /\ state' \in State /\ state'.tail = state.tail /\ state'.toSeq = state.toSeq
      /\ state'.resetTo = state.resetTo
  BY <1>3, <1>5 DEF State, Statuses
<1>7. SyncTyped'
  BY <1>1, <1>4, <1>6 DEF SyncTyped, TypeOK
<1>8. OneRequestCounts'
  <2>1. CASE mounted # {} /\ r.current /\ pending' = None
    BY <1>1, <1>3, <2>1 DEF OneRequestCounts, OneCounts
  <2>2. CASE (mounted = {} \/ ~r.current) /\ pending' = pending
    <3>1. ~r.current
      BY <1>3, <2>2 DEF OneRequestCounts, OneCounts
    <3>2. OneCounts(requests', pending')
      BY <1>1, <1>3, <2>2, <3>1 DEF OneCounts
    <3> QED BY <1>1, <2>2, <3>2 DEF OneRequestCounts
  <2> QED BY <1>4, <2>1, <2>2
<1>9. EventsInOrder'
  BY <1>1, <1>4 DEF EventsInOrder, HeldInOrder, Increasing, UpTo
<1>10. TailIsWhole'
  BY <1>1, <1>6 DEF TailIsWhole, Whole
<1> QED BY <1>1, <1>2, <1>7, <1>8, <1>9, <1>10, SyncStep

\* An event that is held back comes after those already held.
LEMMA CollectFacts ==
    ASSUME PresentationInv, wire # <<>>, pending # None
    PROVE  LET held == Collect(pending, Head(wire))
           IN  /\ held \in Held /\ Len(held.events) <= Limit
               /\ Increasing(held.events) /\ UpTo(held.events, emitted)
               /\ \A i \in 1..Len(held.events), j \in 1..Len(Tail(wire)) :
                     held.events[i] < Tail(wire)[j]
<1> USE DEF PresentationInv
<1> DEFINE n == Head(wire)
           rest == Tail(wire)
           queue == pending.events
           held == Collect(pending, n)
<1> SUFFICES /\ held \in Held /\ Len(held.events) <= Limit
             /\ Increasing(held.events) /\ UpTo(held.events, emitted)
             /\ \A i \in 1..Len(held.events), j \in 1..Len(rest) : held.events[i] < rest[j]
  OBVIOUS
<1>1. wire \in Seq(Chunks) /\ pending \in Held /\ queue \in Seq(Chunks)
  BY DEF TypeOK, Held
<1>2. /\ n = wire[1] /\ n \in Chunks /\ Len(wire) \in Nat /\ Len(wire) > 0
      /\ Len(rest) = Len(wire) - 1
      /\ \A j \in 1..(Len(wire) - 1) : rest[j] = wire[j + 1]
  BY <1>1, TailFacts
<1>3. 1 \in 1..Len(wire) /\ \A j \in 1..Len(rest) : j + 1 \in 1..Len(wire) /\ 1 < j + 1
  BY <1>2
<1>4. n <= emitted /\ \A j \in 1..Len(rest) : n < rest[j]
  BY <1>2, <1>3 DEF EventsInOrder, Increasing, UpTo
<1>5. /\ Increasing(queue) /\ UpTo(queue, emitted)
      /\ \A i \in 1..Len(queue) : queue[i] < n
      /\ \A i \in 1..Len(queue), j \in 1..Len(rest) : queue[i] < rest[j]
  BY <1>2, <1>3 DEF EventsInOrder, HeldInOrder
<1>6. Len(queue) \in Nat /\ Len(queue) <= Limit /\ Limit \in Nat
  BY <1>1, PresentationBounds DEF TypeOK
<1> HIDE DEF n, rest
<1>7. CASE held = pending
  BY <1>1, <1>5, <1>6, <1>7
<1>8. CASE held = [events |-> <<>>, overflowed |-> TRUE]
  <2>1. held.events = <<>> /\ <<>> \in Seq(Chunks) /\ Len(<<>>) = 0
    BY <1>8, EmptySeq
  <2>2. held \in Held
    BY <1>8, <2>1 DEF Held
  <2> HIDE DEF held
  <2> QED BY <1>6, <2>1, <2>2 DEF Increasing, UpTo
<1>9. CASE held = [pending EXCEPT !.events = Append(queue, n)] /\ Len(queue) < Limit
  <2>1. /\ Append(queue, n) \in Seq(Chunks)
        /\ Len(Append(queue, n)) = Len(queue) + 1
        /\ Append(queue, n)[Len(queue) + 1] = n
        /\ \A i \in 1..Len(queue) : Append(queue, n)[i] = queue[i]
    BY <1>1, <1>2, AppendFacts
  <2>2. held.events = Append(queue, n) /\ held \in Held
    BY <1>1, <1>9, <2>1 DEF Held
  <2> HIDE DEF held, queue
  <2>3. /\ Len(held.events) = Len(queue) + 1
        /\ \A i \in 1..Len(held.events) :
              \/ i \in 1..Len(queue) /\ held.events[i] = queue[i]
              \/ i = Len(queue) + 1 /\ held.events[i] = n
    BY <1>6, <2>1, <2>2
  <2>4. Increasing(held.events)
    <3> SUFFICES ASSUME NEW i \in 1..Len(held.events), NEW j \in 1..Len(held.events), i < j
                 PROVE  held.events[i] < held.events[j]
      BY DEF Increasing
    <3>1. i \in 1..Len(queue) /\ held.events[i] = queue[i]
      BY <1>6, <2>3
    <3> QED BY <1>5, <2>3, <3>1 DEF Increasing
  <2>5. UpTo(held.events, emitted)
    BY <1>4, <1>5, <2>3 DEF UpTo
  <2>6. \A i \in 1..Len(held.events), j \in 1..Len(rest) : held.events[i] < rest[j]
    BY <1>4, <1>5, <2>3
  <2>7. Len(held.events) <= Limit
    BY <1>6, <1>9, <2>3 DEF queue
  <2> QED BY <2>2, <2>4, <2>5, <2>6, <2>7
<1>10. \/ held = pending
       \/ held = [events |-> <<>>, overflowed |-> TRUE]
       \/ held = [pending EXCEPT !.events = Append(queue, n)] /\ Len(queue) < Limit
  BY <1>6 DEF Collect
<1> QED BY <1>7, <1>8, <1>9, <1>10
LEMMA ReceiveKeeps ==
    ASSUME PresentationInv, Receive
    PROVE  PresentationInv'
<1> USE DEF PresentationInv, SyncInv
<1> DEFINE n == Head(wire)
<1>1. /\ UNCHANGED <<emitted, demand, connected, drops, viewVars, chains, handled, stray,
                     waiting, surface, adrift>>
      /\ wire # <<>> /\ wire' = Tail(wire) /\ untroubled' = untroubled /\ mounted' = mounted
      /\ visible' = visible /\ failures' = failures
  BY DEF Receive, viewVars, callVars
<1>2. /\ wire \in Seq(Chunks) /\ wire' \in Seq(Chunks) /\ n \in Chunks /\ n <= emitted
      /\ untroubled' \in BOOLEAN /\ failures' \in 0..MaxFailures
  <2>1. wire \in Seq(Chunks) /\ untroubled' \in BOOLEAN /\ failures' \in 0..MaxFailures
    BY <1>1 DEF TypeOK
  <2>2. wire' \in Seq(Chunks) /\ n = wire[1] /\ n \in Chunks /\ 1 \in 1..Len(wire)
    BY <1>1, <2>1, TailFacts
  <2> QED BY <2>1, <2>2 DEF EventsInOrder, UpTo
<1>3. OneCounts(requests, pending) /\ requests \subseteq Request /\ state \in State
      /\ emitted \in Nat
  BY DEF OneRequestCounts, TypeOK, Cursors
<1>4. Increasing(wire') /\ UpTo(wire', emitted')
  BY <1>1, HeldKept
<1>5. CASE UNCHANGED syncVars
  <2>1. requests' = requests /\ state' = state /\ pending' = pending
    BY <1>5 DEF syncVars
  <2>2. SyncTyped'
    BY <2>1 DEF SyncTyped, TypeOK
  <2>3. OneRequestCounts'
    BY <1>1, <2>1 DEF OneRequestCounts, OneCounts
  <2>4. HeldInOrder(pending)'
    BY <1>1, <2>1, HeldKept DEF HeldInOrder
  <2>5. EventsInOrder'
    BY <1>1, <1>4, <2>1, <2>4 DEF EventsInOrder
  <2>6. TailIsWhole'
    BY <1>1, <2>1 DEF TailIsWhole, Whole
  <2> QED BY <1>1, <1>2, <2>2, <2>3, <2>5, <2>6, SyncStep
<1>6. CASE /\ mounted # {} /\ pending # None
           /\ pending' = Collect(pending, n) /\ requests' = requests /\ state' = state
  <2>1. /\ pending' \in Held /\ Len(pending'.events) <= Limit
        /\ Increasing(pending'.events) /\ UpTo(pending'.events, emitted)
        /\ \A i \in 1..Len(pending'.events), j \in 1..Len(wire') :
              pending'.events[i] < wire'[j]
    BY <1>1, <1>6, CollectFacts
  <2>2. SyncTyped'
    BY <1>3, <1>6, <2>1 DEF SyncTyped
  <2>3. OneRequestCounts'
    BY <1>1, <1>3, <1>6, <2>1, PresentationBounds DEF OneRequestCounts, OneCounts
  <2>4. HeldInOrder(pending)'
    BY <1>1, <2>1 DEF HeldInOrder
  <2>5. EventsInOrder'
    BY <1>1, <1>4, <1>6, <2>4 DEF EventsInOrder
  <2>6. TailIsWhole'
    BY <1>1, <1>6 DEF TailIsWhole, Whole
  <2> QED BY <1>1, <1>2, <2>2, <2>3, <2>5, <2>6, SyncStep
<1>7. CASE /\ pending = None /\ pending' = pending /\ requests' = requests
           /\ Follows(n) /\ state' = AppendEvents(state, <<n>>)
  <2>1. <<n>> \in Seq(Chunks) /\ Len(<<n>>) = 1 /\ Consecutive(<<n>>, state.toSeq)
    BY <1>2, <1>7 DEF Consecutive, Follows
  <2>2. Whole(state)
    BY DEF TailIsWhole
  <2>3. state' \in State /\ Whole(state') /\ state'.toSeq = state.toSeq + 1
    BY <1>3, <1>7, <2>1, <2>2, AppendEventsFacts
  <2>4. SyncTyped'
    BY <1>3, <1>7, <2>3 DEF SyncTyped, TypeOK
  <2>5. OneRequestCounts'
    BY <1>1, <1>7 DEF OneRequestCounts, OneCounts
  <2>6. EventsInOrder'
    BY <1>1, <1>4, <1>7 DEF EventsInOrder, HeldInOrder
  <2>7. TailIsWhole'
    BY <1>1, <1>2, <1>7, <2>3 DEF TailIsWhole, Whole, Follows
  <2> QED BY <1>1, <1>2, <2>4, <2>5, <2>6, <2>7, SyncStep
<1>8. CASE pending = None /\ Resync(requests, None)
  <2>1. SyncTyped' /\ OneRequestCounts' /\ EventsInOrder' /\ TailIsWhole'
    BY <1>1, <1>3, <1>8, ResyncKeeps
  <2> QED BY <1>1, <1>2, <2>1, SyncStep
<1>9. \/ UNCHANGED syncVars
      \/ /\ mounted # {} /\ pending # None
         /\ pending' = Collect(pending, n) /\ requests' = requests /\ state' = state
      \/ /\ pending = None /\ pending' = pending /\ requests' = requests
         /\ Follows(n) /\ state' = AppendEvents(state, <<n>>)
      \/ pending = None /\ Resync(requests, None)
  <2>1. n \in Nat /\ state.toSeq \in Nat
    BY <1>2, <1>3, PresentationBounds DEF Chunks, State, Cursors
  <2>2. n <= state.toSeq \/ n > state.toSeq
    BY <2>1
  <2> HIDE DEF n
  <2>3. CASE mounted = {}
    BY <2>3 DEF Receive, n
  <2>4. CASE mounted # {} /\ pending # None
    BY <2>4 DEF Receive, n
  <2>5. CASE mounted # {} /\ pending = None /\ n <= state.toSeq
    BY <2>1, <2>5 DEF Receive, n
  <2>6. CASE mounted # {} /\ pending = None /\ n > state.toSeq
    BY <2>1, <2>6 DEF Receive, n
  <2> QED BY <2>2, <2>3, <2>4, <2>5, <2>6
<1> QED BY <1>5, <1>6, <1>7, <1>8, <1>9

\* Lost connections change no more than what is on its way.
LEMMA DisconnectKeeps ==
    ASSUME PresentationInv, Disconnect
    PROVE  PresentationInv'
<1> USE DEF PresentationInv
<1>1. /\ connected' = FALSE /\ drops < MaxDrops /\ drops' = drops + 1 /\ wire' = <<>>
      /\ UNCHANGED <<emitted, demand, session, mounted, visible, demandActive, toggles,
                     requests, state, pending, chains, handled, stray, failures, waiting, surface,
                     adrift, untroubled>>
  BY DEF Disconnect, viewVars, syncVars, callVars
<1>2. <<>> \in Seq(Chunks) /\ Len(<<>>) = 0
  BY EmptySeq
<1>3. drops' \in 0..MaxDrops
  BY <1>1, PresentationBounds DEF TypeOK
<1>4. TypeOK'
  BY <1>1, <1>2, <1>3 DEF TypeOK
<1>5. OneRequestCounts' /\ ActivationsInOrder'
  BY <1>1 DEF OneRequestCounts, OneCounts, ActivationsInOrder
<1>6. LastCallCounts'
  BY <1>1 DEF LastCallCounts
<1>7. EventsInOrder'
  BY <1>1, <1>2 DEF EventsInOrder, HeldInOrder, Increasing, UpTo
<1>8. TailIsWhole' /\ SurfacesShowPrefix'
  BY <1>1 DEF TailIsWhole, Whole, SurfacesShowPrefix
<1> QED BY <1>4, <1>5, <1>6, <1>7, <1>8

LEMMA ForgetDemandKeeps ==
    ASSUME PresentationInv, ForgetDemand
    PROVE  PresentationInv'
<1> USE DEF PresentationInv
<1>1. /\ demand' = FALSE /\ adrift' = TRUE /\ untroubled' = FALSE
      /\ UNCHANGED <<emitted, connected, wire, drops, session, mounted, visible,
                     demandActive, toggles, syncVars, chains, handled, stray, failures, waiting,
                     surface>>
  BY DEF ForgetDemand, viewVars, callVars
<1>2. TypeOK'
  BY <1>1 DEF TypeOK, syncVars
<1>3. ActivationsInOrder' /\ LastCallCounts'
  BY <1>1 DEF ActivationsInOrder, LastCallCounts
<1>4. SurfacesShowPrefix'
  BY <1>1 DEF SurfacesShowPrefix
<1> QED BY <1>1, <1>2, <1>3, <1>4, DemandStep
\* The session's calls are handled in their order, and any other call sets the
\* server adrift.
LEMMA HandleDemandKeeps ==
    ASSUME PresentationInv, NEW k \in 1..MaxSessions, HandleDemand(k)
    PROVE  PresentationInv'
<1> USE DEF PresentationInv, DemandInv
<1>1. /\ chains[k] # <<>> /\ demand' = Head(chains[k])
      /\ handled' = [handled EXCEPT ![k] = TRUE]
      /\ adrift' = (k # session) /\ untroubled' = (untroubled /\ k = session)
      /\ UNCHANGED <<emitted, connected, wire, drops, session, mounted, visible,
                     demandActive, toggles, syncVars, chains, stray, failures, waiting,
                     surface>>
  BY DEF HandleDemand, viewVars
<1>2. chains[k] \in Seq(BOOLEAN) /\ session \in Nat /\ k \in Nat /\ session \in 0..MaxSessions
  BY DEF TypeOK
<1>3. demand' \in BOOLEAN /\ adrift' \in BOOLEAN /\ untroubled' \in BOOLEAN
  BY <1>1, <1>2
<1>4. /\ handled' \in [1..MaxSessions -> BOOLEAN] /\ handled'[k]
      /\ \A x \in 1..MaxSessions : x # k => handled'[x] = handled[x]
  BY <1>1 DEF TypeOK
<1>5. TypeOK'
  BY <1>1, <1>3, <1>4 DEF TypeOK, syncVars
<1>6. LastCallCounts'
  <2>1. \A x \in 1..MaxSessions : handled'[x] => chains[x] # <<>>
    BY <1>1, <1>4 DEF LastCallCounts
  <2>2. k <= session /\ session # 0
    BY <1>1, <1>2 DEF LastCallCounts
  <2>3. ~adrift' => k = session
    BY <1>1
  <2> QED BY <1>1, <2>1, <2>2, <2>3 DEF LastCallCounts
<1>7. ActivationsInOrder'
  BY <1>1 DEF ActivationsInOrder
<1>8. SurfacesShowPrefix'
  BY <1>1 DEF SurfacesShowPrefix
<1> QED BY <1>1, <1>5, <1>6, <1>7, <1>8, DemandStep

LEMMA DemandAnsweredKeeps ==
    ASSUME PresentationInv, NEW k \in 1..MaxSessions, DemandAnswered(k)
    PROVE  PresentationInv'
<1> USE DEF PresentationInv, DemandInv
<1>1. /\ ~Due /\ handled[k] /\ CallDone(k)
      /\ UNCHANGED <<emitted, demand, connected, wire, drops, session, mounted, visible,
                     demandActive, toggles, syncVars, stray, failures, surface, adrift,
                     untroubled>>
  BY DEF DemandAnswered, serverVars, viewVars
<1>2. chains[k] # <<>> /\ handled[k] = TRUE /\ adrift \in BOOLEAN
  BY <1>1 DEF LastCallCounts, TypeOK
<1>3. /\ chains' \in [1..MaxSessions -> Seq(BOOLEAN)] /\ waiting' \in Seq(Activation)
      /\ handled' \in [1..MaxSessions -> BOOLEAN] /\ ActivationsInOrder'
  BY <1>1, <1>2, CallDoneKeeps
<1>4. LastCallCounts'
  BY <1>1, <1>2, CallDoneCounts
<1>5. TypeOK'
  BY <1>1, <1>3 DEF TypeOK, syncVars
<1>6. SurfacesShowPrefix'
  BY <1>1 DEF SurfacesShowPrefix
<1> QED BY <1>1, <1>3, <1>4, <1>5, <1>6, DemandStep

LEMMA DemandFailsKeeps ==
    ASSUME PresentationInv, NEW k \in 1..MaxSessions, DemandFails(k)
    PROVE  PresentationInv'
<1> USE DEF PresentationInv, DemandInv
<1>1. /\ ~Due /\ Failure /\ chains[k] # <<>> /\ CallDone(k)
      /\ adrift' = (adrift \/ ~handled[k]) /\ untroubled' = (untroubled /\ handled[k])
      /\ stray' \in {stray, IF handled[k] THEN stray ELSE stray \cup {Head(chains[k])}}
      /\ UNCHANGED <<emitted, demand, connected, wire, drops, session, mounted, visible,
                     demandActive, toggles, requests, pending, surface>>
      /\ state' = state \/ state' = [state EXCEPT !.status = "error"]
  BY DEF DemandFails, serverVars, viewVars
<1>2. /\ chains' \in [1..MaxSessions -> Seq(BOOLEAN)] /\ waiting' \in Seq(Activation)
      /\ handled' \in [1..MaxSessions -> BOOLEAN] /\ ActivationsInOrder'
  BY <1>1, CallDoneKeeps
<1>3. /\ state' \in State /\ state'.tail = state.tail /\ state'.toSeq = state.toSeq
      /\ state'.resetTo = state.resetTo
  BY <1>1 DEF TypeOK, State, Statuses
<1>4. /\ adrift' \in BOOLEAN /\ untroubled' \in BOOLEAN /\ stray' \subseteq BOOLEAN
      /\ failures' \in 0..MaxFailures
  <2>1. chains[k] \in Seq(BOOLEAN) /\ stray \subseteq BOOLEAN
    BY DEF TypeOK
  <2>2. Head(chains[k]) \in BOOLEAN
    BY <1>1, <2>1
  <2> QED BY <1>1, <2>1, <2>2, FailureFacts DEF TypeOK
<1>5. TypeOK'
  BY <1>1, <1>2, <1>3, <1>4 DEF TypeOK
<1>6. LastCallCounts'
  BY <1>1, CallDoneCounts
<1>7. OneRequestCounts' /\ EventsInOrder'
  BY <1>1 DEF OneRequestCounts, OneCounts, EventsInOrder, HeldInOrder, Increasing, UpTo
<1>8. TailIsWhole' /\ SurfacesShowPrefix'
  BY <1>1, <1>3 DEF TailIsWhole, Whole, SurfacesShowPrefix
<1> QED BY <1>2, <1>5, <1>6, <1>7, <1>8

LEMMA HandleStrayKeeps ==
    ASSUME PresentationInv, NEW active \in stray, HandleStray(active)
    PROVE  PresentationInv'
<1> USE DEF PresentationInv, DemandInv
<1>1. /\ demand' = active /\ adrift' = TRUE /\ stray' = stray \ {active}
      /\ UNCHANGED <<emitted, connected, wire, drops, session, mounted, visible,
                     demandActive, toggles, syncVars, chains, handled, failures, waiting,
                     surface, untroubled>>
  BY DEF HandleStray, viewVars
<1>2. TypeOK'
  BY <1>1 DEF TypeOK, syncVars
<1>3. ActivationsInOrder' /\ LastCallCounts'
  BY <1>1 DEF ActivationsInOrder, LastCallCounts
<1>4. SurfacesShowPrefix'
  BY <1>1 DEF SurfacesShowPrefix
<1> QED BY <1>1, <1>2, <1>3, <1>4, DemandStep

LEMMA ReconnectKeeps ==
    ASSUME PresentationInv, Reconnect
    PROVE  PresentationInv'
<1> USE DEF PresentationInv, DemandInv
<1>1. /\ connected' = TRUE
      /\ UNCHANGED <<emitted, demand, wire, drops, syncVars, handled, stray, failures,
                     session, mounted, toggles, surface, adrift, untroubled>>
  BY DEF Reconnect
<1>2. /\ visible' \subseteq mounted /\ demandActive' \in BOOLEAN
      /\ chains' \in [1..MaxSessions -> Seq(BOOLEAN)] /\ waiting' \in Seq(Activation)
      /\ ActivationsInOrder' /\ LastCallCounts'
  <2>1. CASE visible = {}
    <3>1. UNCHANGED <<visible, demandActive, chains, waiting>>
      BY <2>1 DEF Reconnect
    <3> QED BY <1>1, <3>1 DEF TypeOK, ActivationsInOrder, LastCallCounts
  <2>2. CASE visible # {}
    <3>1. Activate(session, visible, TRUE) /\ SyncDemand(session, visible)
      BY <2>2 DEF Reconnect, Activate
    <3>2. mounted # {} /\ visible \in SUBSET Viewers /\ visible \subseteq mounted
      BY <2>2 DEF TypeOK
    <3>3. LastCallCounts'
      BY <1>1, <3>1, <3>2, SyncKeeps
    <3>4. waiting' \in Seq(Activation) /\ ActivationsInOrder'
      BY <1>1, <3>1, <3>2, ActivateKeeps
    <3>5. chains' \in [1..MaxSessions -> Seq(BOOLEAN)] /\ demandActive' \in BOOLEAN
      BY <3>1, <3>2, SyncDemandFacts
    <3>6. visible' = visible
      BY <3>1 DEF SyncDemand
    <3> QED BY <3>2, <3>3, <3>4, <3>5, <3>6
  <2> QED BY <2>1, <2>2
<1>3. TypeOK'
  BY <1>1, <1>2 DEF TypeOK, syncVars
<1>4. SurfacesShowPrefix'
  BY <1>1 DEF SurfacesShowPrefix
<1> QED BY <1>1, <1>2, <1>3, <1>4, DemandStep

LEMMA ToggleFacts ==
    ASSUME TypeOK, Toggle
    PROVE  toggles' \in 0..MaxToggles
BY PresentationBounds DEF TypeOK, Toggle

LEMMA ConnectKeeps ==
    ASSUME PresentationInv, NEW v \in Viewers, Connect(v)
    PROVE  PresentationInv'
<1> USE DEF PresentationInv, DemandInv
<1>1. /\ Toggle /\ mounted # {} /\ mounted' = mounted \cup {v}
      /\ Activate(session, visible \cup {v}, FALSE) /\ SyncDemand(session, visible \cup {v})
      /\ visible' = visible \cup {v}
      /\ surface' = [surface EXCEPT ![v] = BlankSurface]
      /\ UNCHANGED <<emitted, demand, connected, wire, drops, syncVars, handled, stray, failures,
                     session, adrift, untroubled>>
  BY DEF Connect, Activate, SyncDemand, serverVars
<1>2. visible \cup {v} \in SUBSET Viewers
  BY DEF TypeOK
<1>3. LastCallCounts'
  BY <1>1, <1>2, SyncKeeps
<1>4. waiting' \in Seq(Activation) /\ ActivationsInOrder'
  BY <1>1, <1>2, ActivateKeeps
<1>5. chains' \in [1..MaxSessions -> Seq(BOOLEAN)] /\ demandActive' \in BOOLEAN
  BY <1>1, <1>2, SyncDemandFacts
<1>6. surface' \in [Viewers -> Surface] /\ SurfacesShowPrefix'
  BY <1>1, SurfaceBlanked
<1>7. TypeOK'
  BY <1>1, <1>2, <1>4, <1>5, <1>6, ToggleFacts DEF TypeOK, syncVars
<1> QED BY <1>1, <1>3, <1>4, <1>6, <1>7, DemandStep

\* A new session has made one call, and none of its predecessors' requests counts.
LEMMA OpenKeeps ==
    ASSUME PresentationInv, NEW v \in Viewers, Open(v)
    PROVE  PresentationInv'
<1> USE DEF PresentationInv
<1> DEFINE a == [calls |-> 1, force |-> FALSE]
<1>1. /\ Toggle /\ mounted = {} /\ session < MaxSessions /\ session' = session + 1
      /\ mounted' = {v} /\ visible' = {v} /\ demandActive' = TRUE
      /\ chains' = [chains EXCEPT ![session + 1] = <<TRUE>>]
      /\ waiting' = <<a>> /\ state' = EmptyState /\ pending' = None
      /\ untroubled' = (untroubled /\ wire = <<>>)
      /\ surface' = [surface EXCEPT ![v] = BlankSurface]
      /\ UNCHANGED <<emitted, demand, connected, wire, drops, requests, handled, stray,
                     failures, adrift>>
  BY DEF Open, serverVars
<1>2. session' \in 1..MaxSessions /\ session' \in 0..MaxSessions /\ session \in Nat
  BY <1>1, PresentationBounds DEF TypeOK
<1>3. a \in Activation /\ a.calls = 1
  BY DEF Activation
<1>4. <<TRUE>> \in Seq(BOOLEAN) /\ Len(<<TRUE>>) = 1 /\ <<TRUE>>[1] = TRUE
  OBVIOUS
<1>5. /\ chains' \in [1..MaxSessions -> Seq(BOOLEAN)] /\ chains'[session'] = <<TRUE>>
      /\ \A k \in 1..MaxSessions : k # session' => chains'[k] = chains[k]
  BY <1>1, <1>2, <1>4 DEF TypeOK
<1> HIDE DEF a
<1>6. /\ waiting' \in Seq(Activation) /\ Len(waiting') = 1 /\ waiting'[1] = a
  BY <1>1, <1>3
<1>7. ActivationsInOrder'
  <2>1. \A i \in 1..Len(waiting') : i = 1
    BY <1>6
  <2>2. \A i \in 1..Len(waiting') : waiting'[i].calls = 1
    BY <1>3, <1>6, <2>1
  <2>3. mounted' # {}
    BY <1>1
  <2> QED BY <1>2, <1>4, <1>5, <2>2, <2>3 DEF ActivationsInOrder
<1>8. LastCallCounts'
  <2>1. demandActive' = (visible' # {}) /\ demandActive' = TRUE /\ session' # 0
    <3>1. visible' # {} /\ demandActive' = TRUE
      BY <1>1
    <3>2. session' # 0
      BY <1>2
    <3> QED BY <3>1, <3>2
  <2>2. chains[session'] = <<>> /\ ~handled[session']
    BY <1>1, <1>2 DEF LastCallCounts
  <2>3. \A k \in 1..MaxSessions : handled'[k] => chains'[k] # <<>>
    BY <1>1, <1>2, <1>5, <2>2 DEF LastCallCounts
  <2>4. \A k \in 1..MaxSessions : k > session' => chains'[k] = <<>>
    BY <1>1, <1>2, <1>5 DEF LastCallCounts
  <2>5. chains'[session'] # <<>> /\ Last(chains'[session']) = TRUE
    BY <1>4, <1>5 DEF Last
  <2>6. ~handled'[session']
    BY <1>1, <2>2
  <2> QED BY <2>1, <2>3, <2>4, <2>5, <2>6 DEF LastCallCounts
<1>9. <<>> \in Seq(Chunks) /\ Len(<<>>) = 0 /\ 0 \in Cursors
  BY EmptySeq, PresentationBounds DEF Cursors
<1>10. EmptyState \in State /\ Whole(EmptyState) /\ EmptyState.toSeq = 0
  BY <1>9 DEF EmptyState, State, Statuses, Whole
<1>11. surface' \in [Viewers -> Surface] /\ SurfacesShowPrefix'
  BY <1>1, SurfaceBlanked
<1>12. TypeOK'
  BY <1>1, <1>2, <1>5, <1>6, <1>10, <1>11, ToggleFacts DEF TypeOK
<1>13. OneRequestCounts'
  BY <1>1 DEF OneRequestCounts, OneCounts
<1>14. EventsInOrder'
  BY <1>1 DEF EventsInOrder, HeldInOrder, Increasing, UpTo
<1>15. TailIsWhole'
  BY <1>1, <1>10 DEF TailIsWhole, Whole, TypeOK, Cursors
<1> QED BY <1>7, <1>8, <1>11, <1>12, <1>13, <1>14, <1>15

LEMMA ShowKeeps ==
    ASSUME PresentationInv, NEW v \in Viewers, Show(v)
    PROVE  PresentationInv'
<1> USE DEF PresentationInv, DemandInv
<1>1. /\ Toggle /\ v \in mounted
      /\ Activate(session, visible \cup {v}, FALSE) /\ SyncDemand(session, visible \cup {v})
      /\ visible' = visible \cup {v}
      /\ UNCHANGED <<emitted, demand, connected, wire, drops, syncVars, handled, stray, failures,
                     session, mounted, surface, adrift, untroubled>>
  BY DEF Show, Activate, SyncDemand, serverVars
<1>2. visible \cup {v} \in SUBSET Viewers /\ mounted # {}
  BY <1>1 DEF TypeOK
<1>3. LastCallCounts'
  BY <1>1, <1>2, SyncKeeps
<1>4. waiting' \in Seq(Activation) /\ ActivationsInOrder'
  BY <1>1, <1>2, ActivateKeeps
<1>5. chains' \in [1..MaxSessions -> Seq(BOOLEAN)] /\ demandActive' \in BOOLEAN
  BY <1>1, <1>2, SyncDemandFacts
<1>6. TypeOK'
  BY <1>1, <1>2, <1>4, <1>5, ToggleFacts DEF TypeOK, syncVars
<1>7. SurfacesShowPrefix'
  BY <1>1 DEF SurfacesShowPrefix
<1> QED BY <1>1, <1>3, <1>4, <1>6, <1>7, DemandStep

LEMMA HideKeeps ==
    ASSUME PresentationInv, NEW v \in Viewers, Hide(v)
    PROVE  PresentationInv'
<1> USE DEF PresentationInv, DemandInv
<1>1. /\ Toggle /\ v \in visible /\ SyncDemand(session, visible \ {v})
      /\ visible' = visible \ {v} /\ untroubled' = FALSE
      /\ UNCHANGED <<emitted, demand, connected, wire, drops, syncVars, handled, stray, failures,
                     session, mounted, waiting, surface, adrift>>
  BY DEF Hide, SyncDemand, serverVars
<1>2. visible \ {v} \in SUBSET Viewers /\ mounted # {}
  BY <1>1 DEF TypeOK
<1>3. LastCallCounts'
  BY <1>1, <1>2, SyncKeeps
<1>4. ActivationsInOrder'
  BY <1>1, <1>2, WaitersKept
<1>5. chains' \in [1..MaxSessions -> Seq(BOOLEAN)] /\ demandActive' \in BOOLEAN
  BY <1>1, <1>2, SyncDemandFacts
<1>6. TypeOK'
  BY <1>1, <1>2, <1>5, ToggleFacts DEF TypeOK, syncVars
<1>7. SurfacesShowPrefix'
  BY <1>1 DEF SurfacesShowPrefix
<1> QED BY <1>1, <1>3, <1>4, <1>6, <1>7, DemandStep
\* With the last attachment goes whatever was on its way for the session.
LEMMA DisposeKeeps ==
    ASSUME PresentationInv, NEW v \in Viewers, Dispose(v)
    PROVE  PresentationInv'
<1> USE DEF PresentationInv, DemandInv, SyncInv
<1>1. /\ Toggle /\ v \in mounted /\ mounted' = mounted \ {v}
      /\ SyncDemand(session, visible \ {v}) /\ visible' = visible \ {v}
      /\ UNCHANGED <<emitted, demand, connected, wire, drops, state, handled, stray, failures,
                     session, surface, adrift, untroubled>>
  BY DEF Dispose, SyncDemand, serverVars
<1>2. visible \ {v} \in SUBSET Viewers /\ mounted # {} /\ visible' \subseteq mounted'
  BY <1>1 DEF TypeOK
<1>3. LastCallCounts'
  BY <1>1, <1>2, SyncKeeps
<1>4. /\ chains' \in [1..MaxSessions -> Seq(BOOLEAN)] /\ demandActive' \in BOOLEAN
      /\ session \in 1..MaxSessions
  BY <1>1, <1>2, SyncDemandFacts
<1>5. SurfacesShowPrefix'
  BY <1>1 DEF SurfacesShowPrefix
<1>6. CASE mounted = {v}
  <2>1. requests' = Superseded(requests) /\ pending' = None /\ waiting' = <<>>
    BY <1>6 DEF Dispose
  <2>2. requests \in SUBSET Request
    BY DEF TypeOK
  <2>3. /\ requests' \subseteq Request
        /\ \A r \in requests' : ~r.current /\ \E q \in requests : r.toSeq = q.toSeq
    BY <2>1, <2>2, SupersededFacts
  <2>4. <<>> \in Seq(Activation) /\ Len(<<>>) = 0
    BY EmptySeq
  <2>5. TypeOK'
    BY <1>1, <1>2, <1>4, <2>1, <2>3, <2>4, ToggleFacts DEF TypeOK
  <2>6. ActivationsInOrder'
    BY <1>1, <1>4, <2>1, <2>4 DEF ActivationsInOrder
  <2>7. OneRequestCounts'
    BY <2>1, <2>3 DEF OneRequestCounts, OneCounts
  <2>8. \A r \in requests' : r.toSeq # None => r.toSeq <= emitted'
    BY <1>1, <2>3 DEF EventsInOrder
  <2>9. EventsInOrder'
    BY <1>1, <2>1, <2>8 DEF EventsInOrder, HeldInOrder, Increasing, UpTo
  <2>10. TailIsWhole'
    BY <1>1 DEF TailIsWhole, Whole
  <2> QED BY <1>3, <1>5, <2>5, <2>6, <2>7, <2>9, <2>10
<1>7. CASE mounted # {v}
  <2>1. UNCHANGED <<requests, pending, waiting>> /\ mounted' # {}
    BY <1>1, <1>7 DEF Dispose
  <2>2. ActivationsInOrder'
    BY <1>1, <1>2, <2>1, WaitersKept
  <2>3. TypeOK'
    BY <1>1, <1>2, <1>4, <2>1, ToggleFacts DEF TypeOK
  <2> QED BY <1>1, <1>3, <1>5, <2>1, <2>2, <2>3, DemandStep DEF syncVars
<1> QED BY <1>6, <1>7

\* A surface that is brought up to date shows what it is based on, and the events
\* from there to the end of the state.
LEMMA PresentedFacts ==
    ASSUME NEW start \in Cursors, NEW unseen \in Seq(Chunks), NEW end \in Cursors,
           Consecutive(unseen, start), start + Len(unseen) = end
    PROVE  /\ [n \in 1..start |-> n] \o unseen \in Seq(Chunks)
           /\ [n \in 1..start |-> n] \o unseen = [n \in 1..end |-> n]
<1> DEFINE base == [n \in 1..start |-> n]
           all == [n \in 1..end |-> n]
           joint == base \o unseen
<1>1. /\ base \in Seq(Chunks) /\ Len(base) = start
      /\ \A i \in 1..start : base[i] = i
  BY Numbers
<1>2. /\ all \in Seq(Chunks) /\ Len(all) = end
      /\ \A i \in 1..end : all[i] = i
  BY Numbers
<1>3. start \in Nat /\ end \in Nat /\ Len(unseen) \in Nat
  BY DEF Cursors
<1>4. \A i \in 1..Len(unseen) : unseen[i] = start + i
  BY DEF Consecutive
<1> HIDE DEF base, all
<1>5. /\ joint \in Seq(Chunks) /\ Len(joint) = start + Len(unseen)
      /\ \A i \in 1..start : joint[i] = base[i]
      /\ \A i \in 1..Len(unseen) : joint[start + i] = unseen[i]
  <2>1. /\ joint \in Seq(Chunks) /\ Len(joint) = Len(base) + Len(unseen)
        /\ \A i \in 1..Len(base) : joint[i] = base[i]
        /\ \A i \in 1..Len(unseen) : joint[Len(base) + i] = unseen[i]
    <3>1. base \in Seq(Chunks)
      BY <1>1
    <3> QED BY <3>1, ConcatFacts
  <2> QED BY <1>1, <2>1
<1> HIDE DEF joint
<1>6. Len(joint) = Len(all)
  BY <1>2, <1>5
<1>7. ASSUME NEW i \in 1..Len(joint) PROVE joint[i] = all[i]
  <2>1. i \in Nat /\ i >= 1 /\ i <= end
    BY <1>3, <1>5
  <2>2. CASE i <= start
    BY <1>1, <1>2, <1>3, <1>5, <2>1, <2>2
  <2>3. CASE i > start
    <3>1. i - start \in 1..Len(unseen) /\ start + (i - start) = i
      BY <1>3, <2>1, <2>3
    <3>2. joint[i] = unseen[i - start]
      BY <1>5, <3>1
    <3>3. unseen[i - start] = i
      BY <1>4, <3>1
    <3> QED BY <1>2, <2>1, <3>2, <3>3
  <2> QED BY <1>3, <2>1, <2>2, <2>3
<1>8. joint = all
  BY <1>2, <1>5, <1>6, <1>7, SeqEqual
<1> QED BY <1>5, <1>8 DEF joint, base, all

LEMMA PresentKeeps ==
    ASSUME PresentationInv, NEW v \in Viewers, Present(v)
    PROVE  PresentationInv'
<1> USE DEF PresentationInv, SyncInv
<1> DEFINE isReset == surface[v].generation # state.generation
           start   == IF isReset THEN state.resetTo ELSE surface[v].toSeq
           base    == IF isReset THEN [n \in 1..state.resetTo |-> n] ELSE surface[v].shown
           unseen  == Newer(state.tail, start)
           shown   == [generation |-> state.generation, toSeq |-> state.toSeq,
                       shown |-> base \o unseen]
<1>1. /\ UNCHANGED <<emitted, demand, connected, wire, drops, session, mounted, visible,
                     demandActive, toggles, chains, handled, stray, failures, waiting, adrift,
                     untroubled>>
      /\ \/ /\ CanFollow(surface[v], start, unseen)
            /\ surface' = [surface EXCEPT ![v] = shown]
            /\ UNCHANGED syncVars
         \/ Resync(requests, pending) /\ UNCHANGED surface
  BY DEF Present, serverVars, viewVars, callVars
<1>2. /\ state \in State /\ state.toSeq \in Cursors /\ state.resetTo \in Cursors
      /\ state.tail \in Seq(Chunks) /\ state.generation \in Nat
      /\ surface[v] \in Surface /\ surface[v].toSeq \in Cursors
  BY DEF TypeOK, State, Surface
<1>3. CASE Resync(requests, pending) /\ UNCHANGED surface
  <2>1. OneCounts(requests, pending)
    BY DEF OneRequestCounts
  <2>2. SyncTyped' /\ OneRequestCounts' /\ EventsInOrder' /\ TailIsWhole'
    BY <1>1, <1>3, <2>1, ResyncKeeps
  <2>3. wire' \in Seq(Chunks) /\ untroubled' \in BOOLEAN /\ failures' \in 0..MaxFailures
    BY <1>1 DEF TypeOK
  <2> QED BY <1>1, <1>3, <2>2, <2>3, SyncStep DEF viewVars
<1>4. CASE /\ CanFollow(surface[v], start, unseen)
           /\ surface' = [surface EXCEPT ![v] = shown]
           /\ UNCHANGED syncVars
  <2>1. start \in Cursors /\ base = [n \in 1..start |-> n]
    BY <1>2 DEF SurfacesShowPrefix
  <2>2. Consecutive(unseen, start) /\ start + Len(unseen) = state.toSeq
    BY <1>4 DEF CanFollow
  <2>3. unseen \in Seq(Chunks)
    BY <1>2, NewerFacts
  <2> HIDE DEF start, base, unseen
  <2>4. /\ base \o unseen \in Seq(Chunks)
        /\ base \o unseen = [n \in 1..state.toSeq |-> n]
    BY <1>2, <2>1, <2>2, <2>3, PresentedFacts
  <2>5. /\ shown \in Surface /\ shown.toSeq = state.toSeq
        /\ shown.shown = [n \in 1..state.toSeq |-> n]
    BY <1>2, <2>4 DEF Surface
  <2> HIDE DEF shown
  <2>6. surface' \in [Viewers -> Surface]
    BY <1>4, <2>5 DEF TypeOK
  <2>7. SurfacesShowPrefix'
    <3> SUFFICES ASSUME NEW w \in Viewers
                 PROVE  /\ surface'[w].shown = [n \in 1..surface'[w].toSeq |-> n]
                        /\ surface'[w].toSeq <= emitted
      BY <1>1 DEF SurfacesShowPrefix
    <3>1. CASE w = v
      <4>1. surface'[w] = shown
        BY <1>4, <3>1 DEF TypeOK
      <4> QED BY <2>5, <4>1 DEF TailIsWhole
    <3>2. CASE w # v
      <4>1. surface'[w] = surface[w]
        BY <1>4, <3>2 DEF TypeOK
      <4> QED BY <4>1 DEF SurfacesShowPrefix
    <3> QED BY <3>1, <3>2
  <2>8. TypeOK'
    BY <1>1, <1>4, <2>6 DEF TypeOK, syncVars
  <2>9. ActivationsInOrder' /\ LastCallCounts'
    BY <1>1 DEF ActivationsInOrder, LastCallCounts
  <2> QED BY <1>1, <1>4, <2>7, <2>8, <2>9, DemandStep
<1> QED BY <1>1, <1>3, <1>4

LEMMA InitHolds ==
    ASSUME Init
    PROVE  PresentationInv
<1> USE DEF Init
<1>1. <<>> \in Seq(Chunks) /\ <<>> \in Seq(BOOLEAN) /\ <<>> \in Seq(Activation)
      /\ Len(<<>>) = 0 /\ 0 \in Cursors
  BY EmptySeq, PresentationBounds DEF Cursors
<1>2. EmptyState \in State /\ Whole(EmptyState) /\ EmptyState.toSeq = 0
  BY <1>1 DEF EmptyState, State, Statuses, Whole
<1>3. TypeOK
  <2>1. chains \in [1..MaxSessions -> Seq(BOOLEAN)]
    BY <1>1
  <2>2. surface \in [Viewers -> Surface]
    BY BlankFacts
  <2>3. /\ session \in 0..MaxSessions /\ toggles \in 0..MaxToggles /\ drops \in 0..MaxDrops
        /\ failures \in 0..MaxFailures
    BY PresentationBounds
  <2> QED BY <1>1, <1>2, <2>1, <2>2, <2>3 DEF TypeOK
<1>4. OneRequestCounts
  BY DEF OneRequestCounts, OneCounts
<1>5. ActivationsInOrder
  BY <1>1 DEF ActivationsInOrder
<1>6. LastCallCounts
  <2>1. \A k \in 1..MaxSessions : chains[k] = <<>> /\ ~handled[k]
    OBVIOUS
  <2>2. demandActive = (visible # {}) /\ ~demand /\ session = 0
    OBVIOUS
  <2> QED BY <2>1, <2>2 DEF LastCallCounts
<1>7. EventsInOrder
  BY <1>1 DEF EventsInOrder, HeldInOrder, Increasing, UpTo
<1>8. TailIsWhole
  BY <1>2 DEF TailIsWhole
<1>9. SurfacesShowPrefix
  BY BlankFacts DEF SurfacesShowPrefix
<1> QED BY <1>3, <1>4, <1>5, <1>6, <1>7, <1>8, <1>9 DEF PresentationInv

LEMMA StutterKeeps ==
    ASSUME PresentationInv, UNCHANGED vars
    PROVE  PresentationInv'
BY DEF PresentationInv, vars, serverVars, viewVars, syncVars, callVars, TypeOK,
       OneRequestCounts, OneCounts, ActivationsInOrder, LastCallCounts, EventsInOrder, HeldInOrder, Increasing,
       UpTo, TailIsWhole, Whole, SurfacesShowPrefix

LEMMA NextKeeps ==
    ASSUME PresentationInv, [Next]_vars
    PROVE  PresentationInv'
<1>1. CASE Emit
  BY <1>1, EmitKeeps
<1>2. CASE Disconnect
  BY <1>2, DisconnectKeeps
<1>3. CASE ForgetDemand
  BY <1>3, ForgetDemandKeeps
<1>4. CASE Reconnect
  BY <1>4, ReconnectKeeps
<1>5. CASE Continue
  BY <1>5, ContinueKeeps
<1>6. CASE Receive
  BY <1>6, ReceiveKeeps
<1>7. ASSUME NEW k \in 1..MaxSessions,
             HandleDemand(k) \/ DemandAnswered(k) \/ DemandFails(k)
      PROVE  PresentationInv'
  BY <1>7, HandleDemandKeeps, DemandAnsweredKeeps, DemandFailsKeeps
<1>8. ASSUME NEW r \in requests, Answer(r) \/ SnapshotResponse(r) \/ SnapshotFails(r)
      PROVE  PresentationInv'
  BY <1>8, AnswerKeeps, SnapshotResponseKeeps, SnapshotFailsKeeps
<1>9. ASSUME NEW v \in Viewers,
             Open(v) \/ Connect(v) \/ Show(v) \/ Hide(v) \/ Dispose(v) \/ Present(v)
      PROVE  PresentationInv'
  BY <1>9, OpenKeeps, ConnectKeeps, ShowKeeps, HideKeeps, DisposeKeeps, PresentKeeps
<1>10. CASE UNCHANGED vars
  BY <1>10, StutterKeeps
<1>11. ASSUME NEW active \in stray, HandleStray(active)
       PROVE  PresentationInv'
  BY <1>11, HandleStrayKeeps
<1> QED BY <1>1, <1>2, <1>3, <1>4, <1>5, <1>6, <1>7, <1>8, <1>9, <1>10, <1>11 DEF Next

-----------------------------------------------------------------------------
(* The theorems. *)

\* PresentationInv holds in every state the session, the server and the surfaces reach.
THEOREM PresentationInvariant == Spec => []PresentationInv
<1>1. Init => PresentationInv
  BY InitHolds
<1>2. PresentationInv /\ [Next]_vars => PresentationInv'
  BY NextKeeps
<1> QED BY <1>1, <1>2, PTL DEF Spec

\* Every variable keeps its type; in particular a session never holds back more
\* than the events it may (TerminalHistorySession.collectPending).
THEOREM PresentationTyping == Spec => []TypeOK
BY PresentationInvariant, PTL DEF PresentationInv

\* What a surface shows is the output of the PTY up to the surface's cursor, with no
\* gap, repetition or disorder (terminalPresentationUpdates and the effect that
\* applies its updates).
THEOREM SurfacesNeverShowGaps == Spec => []SurfacesShowPrefix
BY PresentationInvariant, PTL DEF PresentationInv

\* Events are never held back without a request on its way that will release them
\* (TerminalHistorySession.resync).
THEOREM HeldEventsHaveARequest == Spec => []HeldEventsAreReleased
<1>1. PresentationInv => HeldEventsAreReleased
  BY DEF PresentationInv, OneRequestCounts, OneCounts, HeldEventsAreReleased
<1> QED BY <1>1, PresentationInvariant, PTL

\* When no demand call is out the server sends output if and only if somebody looks,
\* unless it is adrift: a call failed before it was handled, was handled too late,
\* came after one of a later session, or was forgotten, and no call of the session
\* has been handled since (TerminalHistorySession.syncDemand).
THEOREM DemandSettles == Spec => []DemandFollowsVisibility
<1>1. PresentationInv => DemandFollowsVisibility
  <2> SUFFICES ASSUME PresentationInv, ~adrift, \A k \in 1..MaxSessions : chains[k] = <<>>
               PROVE  demand <=> visible # {}
    BY DEF DemandFollowsVisibility
  <2> USE DEF PresentationInv
  <2>1. demand \in BOOLEAN /\ demandActive = (visible # {})
    BY DEF TypeOK, LastCallCounts
  <2>2. CASE session = 0
    <3>1. visible = {}
      BY <2>2 DEF TypeOK, ActivationsInOrder
    <3> QED BY <2>1, <2>2, <3>1 DEF LastCallCounts
  <2>3. CASE session # 0
    <3>1. session \in 1..MaxSessions
      BY <2>3 DEF TypeOK
    <3> QED BY <2>1, <2>3, <3>1 DEF LastCallCounts
  <2> QED BY <2>2, <2>3
<1> QED BY <1>1, PresentationInvariant, PTL
-----------------------------------------------------------------------------
(* Newer is the filter of the code. *)

LEMMA LeastNumber ==
    ASSUME NEW T \in SUBSET Nat, T # {}
    PROVE  \E m \in T : \A k \in T : m <= k
<1> DEFINE R == OpToRel(<, Nat)
<1>1. IsWellFoundedOn(R, Nat)
  BY NatLessThanWellFounded
<1>2. \A x, y \in Nat : x < y => <<x, y>> \in R
  BY DEF OpToRel
<1> HIDE DEF R
<1>3. PICK x \in T : \A y \in T : <<y, x>> \notin R
  BY <1>1, WFMin
<1>4. ASSUME NEW y \in T PROVE x <= y
  <2>1. x \in Nat /\ y \in Nat /\ <<y, x>> \notin R
    BY <1>3
  <2>2. ~(y < x)
    BY <1>2, <2>1
  <2> QED BY <2>1, <2>2
<1> QED BY <1>4

\* The events up to n are a prefix, which Newer cuts off.
LEMMA NewerCuts ==
    ASSUME NEW queue \in Seq(Chunks), Increasing(queue), NEW n \in Nat
    PROVE  \E k \in 0..Len(queue) :
              /\ \A i \in 1..Len(queue) : i <= k <=> queue[i] <= n
              /\ Newer(queue, n) = SubSeq(queue, 1 + k, Len(queue))
<1> DEFINE size == Len(queue)
           older == {i \in 1..size : queue[i] <= n}
           newer == {i \in 1..size : queue[i] > n} \cup {size + 1}
<1>1. /\ size \in Nat /\ DOMAIN queue = 1..size
      /\ \A i \in 1..size : queue[i] \in Nat
  BY ChunkFacts
<1>2. PICK m \in newer : \A k \in newer : m <= k
  <2>1. newer \subseteq Nat /\ size + 1 \in newer
    BY <1>1
  <2> HIDE DEF newer
  <2> QED BY <2>1, LeastNumber
<1>3. m \in Nat /\ m \in 1..(size + 1)
  BY <1>1
<1>4. ASSUME NEW i \in 1..size PROVE i <= m - 1 <=> queue[i] <= n
  <2>1. queue[i] \in Nat /\ i \in Nat
    BY <1>1
  <2>2. CASE i < m
    <3>1. i \notin newer
      BY <1>2, <1>3, <2>1, <2>2
    <3> QED BY <1>3, <2>1, <2>2, <3>1
  <2>3. CASE i >= m
    <3>1. m \in 1..size
      BY <1>1, <1>3, <2>1, <2>3
    <3>2. queue[m] > n /\ queue[m] \in Nat
      BY <1>1, <3>1
    <3>3. i = m \/ queue[m] < queue[i]
      BY <1>3, <2>1, <2>3, <3>1 DEF Increasing
    <3> QED BY <1>3, <2>1, <2>3, <3>2, <3>3
  <2> QED BY <1>3, <2>1, <2>2, <2>3
<1>5. older = 1..(m - 1)
  BY <1>1, <1>3, <1>4
<1>6. Newer(queue, n) = SubSeq(queue, 1 + Cardinality(older), size)
  BY <1>1 DEF Newer
<1> HIDE DEF older
<1>7. Cardinality(older) = m - 1
  <2>1. m - 1 \in Int /\ (1 > m - 1 => m - 1 = 0) /\ 1 \in Int
    BY <1>3
  <2>2. Cardinality(1..(m - 1)) = IF 1 > m - 1 THEN 0 ELSE (m - 1) - 1 + 1
    BY <2>1, FS_Interval
  <2>3. (m - 1) - 1 + 1 = m - 1
    BY <1>3
  <2> QED BY <1>5, <2>1, <2>2, <2>3
<1>8. m - 1 \in 0..size
  BY <1>1, <1>3
<1> QED BY <1>4, <1>6, <1>7, <1>8

\* A filter keeps what is above n and keeps it in order.
Filtered(queue, n) ==
    /\ Increasing(Newer(queue, n))
    /\ ToSet(Newer(queue, n)) = {m \in ToSet(queue) : m > n}

LEMMA NewerFilters ==
    ASSUME NEW queue \in Seq(Chunks), Increasing(queue), NEW n \in Nat
    PROVE  Filtered(queue, n)
<1> DEFINE new == Newer(queue, n)
<1>1. PICK k \in 0..Len(queue) :
         /\ \A i \in 1..Len(queue) : i <= k <=> queue[i] <= n
         /\ new = SubSeq(queue, 1 + k, Len(queue))
  BY NewerCuts
<1> HIDE DEF new
<1>2. Len(queue) \in Nat /\ k \in Nat /\ k <= Len(queue)
  BY <1>1
<1>3. /\ new \in Seq(Chunks) /\ Len(new) = Len(queue) - k /\ Len(new) \in Nat
      /\ \A i \in 1..Len(new) : new[i] = queue[k + i]
  BY <1>1, <1>2, SuffixFacts
<1>4. DOMAIN new = 1..Len(new) /\ DOMAIN queue = 1..Len(queue)
  BY <1>3
<1>5. \A i \in 1..Len(new) : k + i \in 1..Len(queue) /\ k + i > k
  BY <1>2, <1>3
<1>6. Increasing(new)
  <2> SUFFICES ASSUME NEW i \in 1..Len(new), NEW j \in 1..Len(new), i < j
               PROVE  new[i] < new[j]
    BY DEF Increasing
  <2>1. /\ k + i \in 1..Len(queue) /\ k + j \in 1..Len(queue) /\ k + i < k + j
    BY <1>2, <1>3, <1>5
  <2> QED BY <1>3, <2>1 DEF Increasing
<1>7. ASSUME NEW i \in 1..Len(new)
      PROVE  new[i] \in ToSet(queue) /\ new[i] > n
  <2>1. k + i \in 1..Len(queue) /\ ~(k + i <= k)
    BY <1>2, <1>5
  <2>2. queue[k + i] \in Nat /\ ~(queue[k + i] <= n)
    BY <1>1, <2>1, ChunkFacts
  <2>3. new[i] = queue[k + i] /\ n \in Nat
    BY <1>3
  <2>4. queue[k + i] \in ToSet(queue)
    BY <1>4, <2>1 DEF ToSet
  <2> QED BY <2>2, <2>3, <2>4
<1>8. ASSUME NEW i \in 1..Len(queue), queue[i] > n
      PROVE  queue[i] \in ToSet(new)
  <2>1. queue[i] \in Nat
    BY ChunkFacts
  <2>2. ~(i <= k) /\ i \in Nat
    BY <1>1, <1>8, <2>1
  <2>3. i - k \in 1..Len(new) /\ k + (i - k) = i
    BY <1>2, <1>3, <2>2
  <2>4. new[i - k] = queue[i]
    BY <1>3, <2>3
  <2> QED BY <1>4, <2>3, <2>4 DEF ToSet
<1>9. ToSet(new) = {m \in ToSet(queue) : m > n}
  BY <1>4, <1>7, <1>8 DEF ToSet
<1> QED BY <1>6, <1>9 DEF Filtered, new

\* All that is ever filtered is what is held back and the tail, whatever the cursor.
EventsAreFiltered ==
    \A n \in Cursors : /\ pending # None => Filtered(pending.events, n)
                       /\ Filtered(state.tail, n)

\* Newer, a suffix in the model, keeps exactly the events that the filters of
\* applyResponse and terminalPresentationUpdates keep.
THEOREM SuffixesAreFilters == Spec => []EventsAreFiltered
<1>1. PresentationInv => EventsAreFiltered
  <2> SUFFICES ASSUME PresentationInv, NEW n \in Cursors
               PROVE  /\ pending # None => Filtered(pending.events, n)
                      /\ Filtered(state.tail, n)
    BY DEF EventsAreFiltered
  <2> USE DEF PresentationInv
  <2>1. n \in Nat
    BY DEF Cursors
  <2>2. pending # None => pending.events \in Seq(Chunks) /\ Increasing(pending.events)
    BY DEF TypeOK, Held, EventsInOrder, HeldInOrder
  <2>3. state.tail \in Seq(Chunks) /\ Len(state.tail) \in Nat /\ state.toSeq \in Nat
    BY DEF TypeOK, State, Cursors
  <2>4. Increasing(state.tail)
    <3> SUFFICES ASSUME NEW i \in 1..Len(state.tail), NEW j \in 1..Len(state.tail), i < j
                 PROVE  state.tail[i] < state.tail[j]
      BY DEF Increasing
    <3>1. /\ state.tail[i] = state.toSeq - Len(state.tail) + i
          /\ state.tail[j] = state.toSeq - Len(state.tail) + j
      BY DEF TailIsWhole, Whole
    <3> QED BY <2>3, <3>1
  <2> QED BY <2>1, <2>2, <2>3, <2>4, NewerFilters
<1> QED BY <1>1, PresentationInvariant, PTL
-----------------------------------------------------------------------------
(* Surfaces only grow. *)

\* No snapshot that counts is older than the state, and no surface is ahead of it.
SnapshotsAreAhead ==
    /\ \A r \in requests : r.current /\ r.toSeq # None => state.toSeq <= r.toSeq
    /\ \A v \in mounted : surface[v].toSeq <= state.toSeq

\* A step takes nothing back from a viewer that stays.
SurfacesGrow ==
    \A v \in mounted \cap mounted' : surface[v].toSeq <= surface'[v].toSeq

LEMMA CursorFacts ==
    ASSUME PresentationInv
    PROVE  /\ state \in State /\ state.toSeq \in Nat /\ emitted \in Nat
           /\ state.toSeq <= emitted
           /\ \A v \in Viewers : surface[v].toSeq \in Nat
           /\ \A r \in requests : r.toSeq # None => r.toSeq \in Nat
           /\ mounted \subseteq Viewers
<1> USE DEF PresentationInv
<1>1. state \in State /\ emitted \in Cursors /\ mounted \subseteq Viewers
  BY DEF TypeOK
<1>2. \A v \in Viewers : surface[v] \in Surface
  BY DEF TypeOK
<1>3. \A r \in requests : r \in Request
  BY DEF TypeOK
<1> QED BY <1>1, <1>2, <1>3 DEF State, Surface, Request, Cursors, TailIsWhole

\* A resync and a surface that stays as it is.
LEMMA ResyncAhead ==
    ASSUME PresentationInv, SnapshotsAreAhead, NEW rest \in SUBSET requests,
           NEW held \in {pending, None}, Resync(rest, held),
           UNCHANGED <<mounted, surface>>
    PROVE  SnapshotsAreAhead' /\ SurfacesGrow
<1> USE DEF PresentationInv
<1>1. rest \in SUBSET Request /\ state \in State
  BY DEF TypeOK
<1>2. /\ state'.toSeq = state.toSeq
      /\ \A r \in requests' : r \in rest \/ r.toSeq = None \/ ~r.current
  <2>1. CASE visible = {}
    BY <2>1 DEF Resync
  <2>2. CASE visible # {}
    <3>1. /\ requests' = Superseded(rest) \cup {[current |-> TRUE, toSeq |-> None]}
          /\ state' = [state EXCEPT !.status = IF @ \in {"idle", "error"}
                                               THEN "loading" ELSE "recovering"]
      BY <2>2 DEF Resync
    <3>2. state'.toSeq = state.toSeq
      BY <1>1, <3>1 DEF State
    <3> QED BY <1>1, <3>1, <3>2, SupersededFacts
  <2> QED BY <2>1, <2>2
<1>3. \A v \in mounted : surface[v].toSeq \in Nat /\ surface'[v] = surface[v]
  BY CursorFacts
<1>4. SnapshotsAreAhead'
  BY <1>2 DEF SnapshotsAreAhead
<1> QED BY <1>3, <1>4 DEF SurfacesGrow

\* Steps that leave cursors, the state's number and what counts alone.
LEMMA AheadFrame ==
    ASSUME PresentationInv, SnapshotsAreAhead, state'.toSeq = state.toSeq,
           \A r \in requests' : r \in requests \/ ~r.current,
           mounted' \subseteq mounted, surface' = surface
    PROVE  SnapshotsAreAhead' /\ SurfacesGrow
<1>1. \A v \in mounted : surface[v].toSeq \in Nat
  BY CursorFacts
<1> QED BY <1>1 DEF SnapshotsAreAhead, SurfacesGrow

LEMMA AheadAtAnswer ==
    ASSUME PresentationInv, SnapshotsAreAhead, NEW r \in requests, Answer(r)
    PROVE  SnapshotsAreAhead' /\ SurfacesGrow
<1>1. /\ requests' = (requests \ {r}) \cup {[r EXCEPT !.toSeq = emitted]}
      /\ UNCHANGED <<state, mounted, surface>>
  BY DEF Answer, viewVars
<1>2. r \in Request
  BY DEF PresentationInv, TypeOK
<1>3. [r EXCEPT !.toSeq = emitted].toSeq = emitted
  BY <1>2 DEF Request
<1>4. \A q \in requests' : q.current /\ q.toSeq # None => state.toSeq <= q.toSeq
  BY <1>1, <1>3, CursorFacts DEF SnapshotsAreAhead
<1>5. \A v \in mounted : surface[v].toSeq \in Nat
  BY CursorFacts
<1> QED BY <1>1, <1>4, <1>5 DEF SnapshotsAreAhead, SurfacesGrow

\* The snapshot that is applied, and the events after it, are all at least as new.
LEMMA AheadAtResponse ==
    ASSUME PresentationInv, SnapshotsAreAhead, NEW r \in requests, SnapshotResponse(r)
    PROVE  SnapshotsAreAhead' /\ SurfacesGrow
<1> USE DEF PresentationInv
<1> DEFINE rest == requests \ {r}
           unseen == Newer(pending.events, r.toSeq)
<1>1. UNCHANGED <<mounted, surface>> /\ r.toSeq # None
  BY DEF SnapshotResponse, viewVars
<1>2. OneCounts(requests, pending) /\ rest \in SUBSET requests
  BY DEF OneRequestCounts
<1>3. CASE mounted = {} \/ ~r.current
  <2>1. requests' = rest /\ state' = state
    BY <1>3 DEF SnapshotResponse
  <2> QED BY <1>1, <2>1, AheadFrame
<1>4. CASE mounted # {} /\ r.current
  <2>1. CASE pending.overflowed \/ ~Consecutive(unseen, r.toSeq)
    <3>1. Resync(rest, None)
      BY <1>4, <2>1 DEF SnapshotResponse
    <3> HIDE DEF rest
    <3> QED BY <1>1, <1>2, <3>1, ResyncAhead
  <2>2. CASE ~pending.overflowed /\ Consecutive(unseen, r.toSeq)
    <3>1. requests' = rest /\ state' = AppendEvents(SnapshotState(r.toSeq), unseen)
      BY <1>4, <2>2 DEF SnapshotResponse
    <3>2. \A q \in rest : ~q.current
      BY <1>2, <1>4 DEF OneCounts
    <3>3. r.toSeq <= state'.toSeq /\ state'.toSeq \in Nat
      <4>1. state'.toSeq = IF unseen = <<>> THEN r.toSeq ELSE Last(unseen)
        BY <3>1 DEF AppendEvents, SnapshotState
      <4>2. pending # None /\ pending.events \in Seq(Chunks)
        BY <1>2, <1>4 DEF OneCounts, TypeOK, Held
      <4>3. unseen \in Seq(Chunks)
        BY <4>2, NewerFacts
      <4>4. r.toSeq \in Nat
        BY <1>1, CursorFacts
      <4> HIDE DEF unseen
      <4>5. CASE unseen = <<>>
        BY <4>1, <4>4, <4>5
      <4>6. CASE unseen # <<>>
        <5>1. Len(unseen) \in 1..Len(unseen) /\ DOMAIN unseen = 1..Len(unseen)
          BY <4>3, <4>6, EmptySeq
        <5>2. unseen[Len(unseen)] = r.toSeq + Len(unseen) /\ Len(unseen) \in Nat
          BY <2>2, <5>1 DEF Consecutive, unseen
        <5>3. state'.toSeq = unseen[Len(unseen)]
          BY <4>1, <4>6 DEF Last
        <5> QED BY <4>4, <5>2, <5>3
      <4> QED BY <4>5, <4>6
    <3>4. state.toSeq <= r.toSeq
      BY <1>1, <1>4 DEF SnapshotsAreAhead
    <3>5. \A v \in mounted : surface[v].toSeq <= state'.toSeq
      <4> SUFFICES ASSUME NEW v \in mounted PROVE surface[v].toSeq <= state'.toSeq
        OBVIOUS
      <4>1. surface[v].toSeq \in Nat /\ state.toSeq \in Nat /\ r.toSeq \in Nat
        BY <1>1, CursorFacts
      <4>2. surface[v].toSeq <= state.toSeq
        BY DEF SnapshotsAreAhead
      <4> QED BY <3>3, <3>4, <4>1, <4>2
    <3>6. SnapshotsAreAhead'
      BY <1>1, <3>1, <3>2, <3>5 DEF SnapshotsAreAhead
    <3>7. \A v \in mounted : surface[v].toSeq \in Nat
      BY CursorFacts
    <3> QED BY <1>1, <3>6, <3>7 DEF SurfacesGrow
  <2> QED BY <2>1, <2>2
<1> QED BY <1>3, <1>4

\* Live output goes to the state only while no snapshot counts.
LEMMA AheadAtReceive ==
    ASSUME PresentationInv, SnapshotsAreAhead, Receive
    PROVE  SnapshotsAreAhead' /\ SurfacesGrow
<1> USE DEF PresentationInv
<1> DEFINE n == Head(wire)
<1>1. UNCHANGED <<mounted, surface>>
  BY DEF Receive, viewVars
<1>2. OneCounts(requests, pending)
  BY DEF OneRequestCounts
<1>3. CASE requests' = requests /\ state' = state
  BY <1>1, <1>3, AheadFrame
<1>4. CASE pending = None /\ Resync(requests, None)
  BY <1>1, <1>4, ResyncAhead
<1>5. CASE /\ pending = None /\ requests' = requests
           /\ Follows(n) /\ state' = AppendEvents(state, <<n>>)
  <2>1. state'.toSeq = n
    BY <1>5, CursorFacts DEF AppendEvents, Last, State
  <2>2. \A r \in requests' : ~r.current
    BY <1>2, <1>5 DEF OneCounts
  <2>3. ASSUME NEW v \in mounted
        PROVE  surface[v].toSeq <= state'.toSeq /\ surface[v].toSeq \in Nat
    <3>1. surface[v].toSeq <= state.toSeq
      BY DEF SnapshotsAreAhead
    <3>2. surface[v].toSeq \in Nat /\ state.toSeq \in Nat
      BY CursorFacts
    <3>3. n = state.toSeq + 1
      BY <1>5 DEF Follows
    <3> HIDE DEF n
    <3> QED BY <2>1, <3>1, <3>2, <3>3
  <2> QED BY <1>1, <2>2, <2>3 DEF SnapshotsAreAhead, SurfacesGrow
<1>6. \/ requests' = requests /\ state' = state
      \/ pending = None /\ Resync(requests, None)
      \/ /\ pending = None /\ requests' = requests
         /\ Follows(n) /\ state' = AppendEvents(state, <<n>>)
  <2>1. wire \in Seq(Chunks) /\ wire # <<>>
    BY DEF TypeOK, Receive
  <2>2. n \in Chunks /\ n \in Nat
    <3>1. n = wire[1] /\ 1 \in 1..Len(wire)
      BY <2>1, TailFacts
    <3> HIDE DEF n
    <3> QED BY <2>1, <3>1, ChunkFacts
  <2>3. n <= state.toSeq \/ n > state.toSeq
    BY <2>2, CursorFacts
  <2> HIDE DEF n
  <2>4. CASE mounted = {}
    BY <2>4 DEF Receive, n, syncVars
  <2>5. CASE mounted # {} /\ pending # None
    BY <2>5 DEF Receive, n
  <2>6. CASE mounted # {} /\ pending = None /\ n <= state.toSeq
    BY <2>2, <2>6, CursorFacts DEF Receive, n, syncVars
  <2>7. CASE mounted # {} /\ pending = None /\ n > state.toSeq
    <3>1. ~(n <= state.toSeq)
      BY <2>2, <2>7, CursorFacts
    <3>2. IF Follows(n) /\ n \notin Oversized
          THEN state' = AppendEvents(state, <<n>>) /\ UNCHANGED <<requests, pending>>
          ELSE Resync(requests, None)
      BY <2>7, <3>1 DEF Receive, n
    <3>3. \/ requests' = requests /\ state' = AppendEvents(state, <<n>>) /\ Follows(n)
          \/ Resync(requests, None)
      BY <3>2
    <3> QED BY <2>7, <3>3
  <2> QED BY <2>3, <2>4, <2>5, <2>6, <2>7
<1> QED BY <1>3, <1>4, <1>5, <1>6

\* A viewer that comes starts over, in an open session or in a new one.
LEMMA AheadAtConnect ==
    ASSUME PresentationInv, SnapshotsAreAhead, NEW v \in Viewers, Open(v) \/ Connect(v)
    PROVE  SnapshotsAreAhead' /\ SurfacesGrow
<1> USE DEF PresentationInv
<1>1. /\ v \notin mounted /\ mounted' = mounted \cup {v} /\ requests' = requests
      /\ surface' = [surface EXCEPT ![v] = BlankSurface]
      /\ \/ mounted = {} /\ state' = EmptyState
         \/ state' = state
  BY DEF Open, Connect, syncVars
<1>2. surface'[v] = BlankSurface /\ \A w \in mounted : surface'[w] = surface[w]
  BY <1>1, CursorFacts DEF TypeOK
<1>3. state'.toSeq \in Nat
  BY <1>1, CursorFacts DEF EmptyState
<1>4. \A w \in mounted' : surface'[w].toSeq <= state'.toSeq
  BY <1>1, <1>2, <1>3, BlankFacts DEF SnapshotsAreAhead
<1>5. \A r \in requests : r.current /\ r.toSeq # None => state'.toSeq <= r.toSeq
  <2>1. mounted = {} => \A r \in requests : ~r.current
    BY DEF OneRequestCounts, OneCounts
  <2> QED BY <1>1, <2>1 DEF SnapshotsAreAhead
<1>6. \A w \in mounted : surface[w].toSeq \in Nat
  BY CursorFacts
<1> QED BY <1>1, <1>2, <1>4, <1>5, <1>6 DEF SnapshotsAreAhead, SurfacesGrow

LEMMA AheadAtPresent ==
    ASSUME PresentationInv, SnapshotsAreAhead, NEW v \in Viewers, Present(v)
    PROVE  SnapshotsAreAhead' /\ SurfacesGrow
<1> USE DEF PresentationInv
<1>1. mounted' = mounted /\ v \in mounted
  BY DEF Present, viewVars
<1>2. CASE Resync(requests, pending) /\ surface' = surface
  BY <1>1, <1>2, ResyncAhead
<1>3. CASE ~(Resync(requests, pending) /\ surface' = surface)
  <2>1. /\ UNCHANGED syncVars
        /\ \E shown : surface' = [surface EXCEPT ![v] =
                        [generation |-> state.generation, toSeq |-> state.toSeq,
                         shown |-> shown]]
    BY <1>3 DEF Present
  <2>2. PICK shown : surface' = [surface EXCEPT ![v] =
                        [generation |-> state.generation, toSeq |-> state.toSeq,
                         shown |-> shown]]
    BY <2>1
  <2>3. surface'[v].toSeq = state.toSeq /\ \A w \in mounted \ {v} : surface'[w] = surface[w]
    BY <1>1, <2>2, CursorFacts DEF TypeOK
  <2>4. requests' = requests /\ state' = state
    BY <2>1 DEF syncVars
  <2>5. \A w \in mounted : surface[w].toSeq \in Nat
    BY CursorFacts
  <2> QED BY <1>1, <2>3, <2>4, <2>5, CursorFacts DEF SnapshotsAreAhead, SurfacesGrow
<1> QED BY <1>2, <1>3

LEMMA AheadStep ==
    ASSUME PresentationInv, SnapshotsAreAhead, [Next]_vars
    PROVE  SnapshotsAreAhead' /\ SurfacesGrow
<1>1. CASE Continue
  <2>1. UNCHANGED <<mounted, surface>>
    BY <1>1 DEF Continue, viewVars
  <2>2. Resync(requests, pending) \/ UNCHANGED <<requests, state>>
    BY <1>1 DEF Continue, syncVars
  <2>3. CASE Resync(requests, pending)
    BY <2>1, <2>3, ResyncAhead
  <2>4. CASE UNCHANGED <<requests, state>>
    BY <2>1, <2>4, AheadFrame
  <2> QED BY <2>2, <2>3, <2>4
<1>2. ASSUME NEW k \in 1..MaxSessions, DemandFails(k)
      PROVE  SnapshotsAreAhead' /\ SurfacesGrow
  <2>1. /\ UNCHANGED <<mounted, surface, requests>>
        /\ state' = state \/ state' = [state EXCEPT !.status = "error"]
    BY <1>2 DEF DemandFails, viewVars
  <2>2. state'.toSeq = state.toSeq
    BY <2>1, CursorFacts DEF State
  <2> QED BY <2>1, <2>2, AheadFrame
<1>3. ASSUME NEW r \in requests, SnapshotFails(r)
      PROVE  SnapshotsAreAhead' /\ SurfacesGrow
  <2>1. /\ UNCHANGED <<mounted, surface>> /\ requests' = requests \ {r}
        /\ state' = state \/ state' = [state EXCEPT !.status = "error"]
    BY <1>3 DEF SnapshotFails, viewVars
  <2>2. state'.toSeq = state.toSeq
    BY <2>1, CursorFacts DEF State
  <2> QED BY <2>1, <2>2, AheadFrame
<1>4. ASSUME NEW v \in Viewers, Dispose(v)
      PROVE  SnapshotsAreAhead' /\ SurfacesGrow
  <2>1. /\ mounted' \subseteq mounted /\ UNCHANGED <<state, surface>>
        /\ requests' = requests \/ requests' = Superseded(requests)
    BY <1>4 DEF Dispose
  <2>2. \A r \in Superseded(requests) : ~r.current
    BY SupersededFacts DEF PresentationInv, TypeOK
  <2> QED BY <2>1, <2>2, AheadFrame
<1>5. CASE UNCHANGED <<requests, state, mounted, surface>>
  BY <1>5, AheadFrame
<1>6. ASSUME NEW v \in Viewers, Open(v) \/ Connect(v) \/ Present(v)
      PROVE  SnapshotsAreAhead' /\ SurfacesGrow
  BY <1>6, AheadAtConnect, AheadAtPresent
<1>7. ASSUME NEW r \in requests, Answer(r) \/ SnapshotResponse(r)
      PROVE  SnapshotsAreAhead' /\ SurfacesGrow
  BY <1>7, AheadAtAnswer, AheadAtResponse
<1>8. CASE Receive
  BY <1>8, AheadAtReceive
<1>9. \/ Continue \/ Receive
      \/ \E k \in 1..MaxSessions : DemandFails(k)
      \/ \E r \in requests : Answer(r) \/ SnapshotResponse(r) \/ SnapshotFails(r)
      \/ \E v \in Viewers : Open(v) \/ Connect(v) \/ Dispose(v) \/ Present(v)
      \/ UNCHANGED <<requests, state, mounted, surface>>
  <2>1. Emit \/ Disconnect \/ ForgetDemand \/ Reconnect \/ (\E a \in stray : HandleStray(a)) =>
          UNCHANGED <<requests, state, mounted, surface>>
    BY DEF Emit, Disconnect, ForgetDemand, Reconnect, HandleStray, viewVars, syncVars
  <2>2. \A k \in 1..MaxSessions : HandleDemand(k) \/ DemandAnswered(k) =>
          UNCHANGED <<requests, state, mounted, surface>>
    BY DEF HandleDemand, DemandAnswered, viewVars, syncVars
  <2>3. \A v \in Viewers : Show(v) \/ Hide(v) =>
          UNCHANGED <<requests, state, mounted, surface>>
    BY DEF Show, Hide, syncVars
  <2>4. UNCHANGED vars => UNCHANGED <<requests, state, mounted, surface>>
    BY DEF vars, viewVars, syncVars
  <2> QED BY <2>1, <2>2, <2>3, <2>4 DEF Next
<1> QED BY <1>1, <1>2, <1>3, <1>4, <1>5, <1>6, <1>7, <1>8, <1>9

\* What a viewer has seen is never taken back while it stays: however late a
\* snapshot is, it is not older than what it replaces (TerminalHistorySession.resync,
\* applySnapshot).
THEOREM SurfacesOnlyGrow == Spec => [][SurfacesGrow]_vars
<1>1. Init => SnapshotsAreAhead
  BY DEF Init, SnapshotsAreAhead
<1>2. PresentationInv /\ SnapshotsAreAhead /\ [Next]_vars => SnapshotsAreAhead'
  BY AheadStep
<1>3. PresentationInv /\ SnapshotsAreAhead /\ [Next]_vars => [SurfacesGrow]_vars
  BY AheadStep
<1> QED BY <1>1, <1>2, <1>3, PresentationInvariant, PTL DEF Spec
-----------------------------------------------------------------------------
(* Presentations implement PresentedOutput. *)

\* The output up to chunk n.
UpToChunk(n) == [i \in 1..n |-> i]

PO == INSTANCE PresentedOutput WITH
        written  <- UpToChunk(emitted),
        attached <- mounted,
        seen     <- [v \in Viewers |-> surface[v].shown]
ImplementsPresentedOutput == PO!Spec

LEMMA UpToChunkFacts ==
    ASSUME NEW n \in Cursors
    PROVE  /\ UpToChunk(n) \in Seq(Chunks) /\ Len(UpToChunk(n)) = n /\ n \in Nat
           /\ \A i \in 1..n : UpToChunk(n)[i] = i
BY Numbers DEF UpToChunk, Cursors

LEMMA PrefixesOfOutput ==
    ASSUME NEW e \in Cursors, NEW n \in Cursors, n <= e
    PROVE  SubSeq(UpToChunk(e), 1, n) = UpToChunk(n)
<1> DEFINE prefix == SubSeq(UpToChunk(e), 1, n)
<1>1. /\ UpToChunk(e) \in Seq(Chunks) /\ Len(UpToChunk(e)) = e /\ e \in Nat
      /\ \A i \in 1..e : UpToChunk(e)[i] = i
  BY UpToChunkFacts
<1>2. /\ UpToChunk(n) \in Seq(Chunks) /\ Len(UpToChunk(n)) = n /\ n \in Nat
      /\ \A i \in 1..n : UpToChunk(n)[i] = i
  BY UpToChunkFacts
<1>3. \A s \in Seq(Chunks) : n <= Len(s) =>
        /\ SubSeq(s, 1, n) \in Seq(Chunks) /\ Len(SubSeq(s, 1, n)) = n
        /\ \A i \in 1..n : SubSeq(s, 1, n)[i] = s[i]
  BY <1>2
<1>4. prefix \in Seq(Chunks) /\ Len(prefix) = n /\ \A i \in 1..n : prefix[i] = UpToChunk(e)[i]
  BY <1>1, <1>3
<1>5. \A i \in 1..n : i \in 1..e
  BY <1>1, <1>2
<1> HIDE DEF prefix
<1>6. \A i \in 1..n : prefix[i] = UpToChunk(n)[i]
  BY <1>1, <1>2, <1>4, <1>5
<1>7. prefix = UpToChunk(n)
  BY <1>2, <1>4, <1>6, SeqEqual
<1> QED BY <1>7 DEF prefix

LEMMA OutputGrows ==
    ASSUME NEW e \in Cursors, e + 1 \in Cursors
    PROVE  UpToChunk(e + 1) = Append(UpToChunk(e), e + 1) /\ e + 1 \in Chunks
<1> DEFINE longer == Append(UpToChunk(e), e + 1)
<1>1. /\ UpToChunk(e) \in Seq(Chunks) /\ Len(UpToChunk(e)) = e /\ e \in Nat
      /\ \A i \in 1..e : UpToChunk(e)[i] = i
  BY UpToChunkFacts
<1>2. /\ UpToChunk(e + 1) \in Seq(Chunks) /\ Len(UpToChunk(e + 1)) = e + 1
      /\ \A i \in 1..(e + 1) : UpToChunk(e + 1)[i] = i
  BY UpToChunkFacts
<1>3. e + 1 \in Chunks
  BY <1>1, PresentationBounds DEF Cursors, Chunks
<1>4. /\ longer \in Seq(Chunks) /\ Len(longer) = e + 1
      /\ \A i \in 1..e : longer[i] = UpToChunk(e)[i]
      /\ longer[e + 1] = e + 1
  BY <1>1, <1>3, AppendFacts
<1> HIDE DEF longer
<1>5. \A i \in 1..(e + 1) : i \in 1..e \/ i = e + 1
  BY <1>1
<1>6. \A i \in 1..(e + 1) : longer[i] = UpToChunk(e + 1)[i]
  BY <1>1, <1>2, <1>4, <1>5
<1>7. longer = UpToChunk(e + 1)
  BY <1>2, <1>4, <1>6, SeqEqual
<1> QED BY <1>3, <1>7 DEF longer

\* What the surfaces show, in the words of the abstract specification.
LEMMA ShownFacts ==
    ASSUME PresentationInv
    PROVE  /\ emitted \in Cursors /\ mounted \subseteq Viewers
           /\ \A v \in Viewers : /\ surface[v].toSeq \in Cursors
                                 /\ surface[v].toSeq <= emitted
                                 /\ surface[v].shown = UpToChunk(surface[v].toSeq)
                                 /\ Len(surface[v].shown) = surface[v].toSeq
<1> USE DEF PresentationInv
<1>1. emitted \in Cursors /\ mounted \subseteq Viewers
  BY DEF TypeOK
<1>2. \A v \in Viewers : surface[v].toSeq \in Cursors
  BY DEF TypeOK, Surface
<1>3. \A v \in Viewers : /\ surface[v].toSeq <= emitted
                         /\ surface[v].shown = UpToChunk(surface[v].toSeq)
  BY DEF SurfacesShowPrefix, UpToChunk
<1> QED BY <1>1, <1>2, <1>3, UpToChunkFacts

LEMMA OutputFrame ==
    ASSUME UNCHANGED <<emitted, mounted, surface>>
    PROVE  [PO!Next]_(PO!vars)
BY DEF PO!vars

LEMMA OutputAtEmit ==
    ASSUME PresentationInv, PresentationInv', Emit
    PROVE  [PO!Next]_(PO!vars)
<1>1. emitted' = emitted + 1 /\ UNCHANGED <<mounted, surface>>
  BY DEF Emit, viewVars
<1>2. emitted \in Cursors /\ emitted + 1 \in Cursors
  BY <1>1 DEF PresentationInv, TypeOK
<1>3. UpToChunk(emitted') = Append(UpToChunk(emitted), emitted + 1) /\ emitted + 1 \in Chunks
  BY <1>1, <1>2, OutputGrows
<1>4. PO!Write(emitted + 1)
  BY <1>1, <1>3 DEF PO!Write
<1> QED BY <1>3, <1>4 DEF PO!Next

LEMMA OutputAtConnect ==
    ASSUME PresentationInv, NEW v \in Viewers, Open(v) \/ Connect(v)
    PROVE  [PO!Next]_(PO!vars)
<1>1. /\ v \notin mounted /\ mounted' = mounted \cup {v} /\ emitted' = emitted
      /\ surface' = [surface EXCEPT ![v] = BlankSurface]
  BY DEF Open, Connect, serverVars
<1>2. surface \in [Viewers -> Surface]
  BY DEF PresentationInv, TypeOK
<1>3. BlankSurface.shown = <<>>
  BY DEF BlankSurface
<1>4. [w \in Viewers |-> surface'[w].shown] =
        [[w \in Viewers |-> surface[w].shown] EXCEPT ![v] = <<>>]
  BY <1>1, <1>2, <1>3
<1>5. PO!Attach(v)
  BY <1>1, <1>4 DEF PO!Attach
<1> QED BY <1>5 DEF PO!Next

LEMMA OutputAtDispose ==
    ASSUME NEW v \in Viewers, Dispose(v)
    PROVE  [PO!Next]_(PO!vars)
<1>1. v \in mounted /\ mounted' = mounted \ {v} /\ UNCHANGED <<emitted, surface>>
  BY DEF Dispose, serverVars
<1>2. PO!Detach(v)
  BY <1>1 DEF PO!Detach
<1> QED BY <1>2 DEF PO!Next

LEMMA OutputAtPresent ==
    ASSUME PresentationInv, PresentationInv', SurfacesGrow, NEW v \in Viewers, Present(v)
    PROVE  [PO!Next]_(PO!vars)
<1>1. v \in mounted /\ UNCHANGED <<emitted, mounted>>
  BY DEF Present, serverVars, viewVars
<1>2. CASE surface' = surface
  BY <1>1, <1>2, OutputFrame
<1>3. CASE \E s : surface' = [surface EXCEPT ![v] = s]
  <2> DEFINE n == surface'[v].toSeq
             shown == [w \in Viewers |-> surface[w].shown]
  <2>1. PICK s : surface' = [surface EXCEPT ![v] = s]
    BY <1>3
  <2>2. surface \in [Viewers -> Surface]
    BY DEF PresentationInv, TypeOK
  <2>3. /\ n \in Cursors /\ n <= emitted' /\ surface'[v].shown = UpToChunk(n)
        /\ emitted \in Cursors
    <3>1. TypeOK' /\ SurfacesShowPrefix' /\ TypeOK
      BY DEF PresentationInv
    <3>2. n \in Cursors /\ emitted \in Cursors
      BY <3>1 DEF TypeOK, Surface
    <3>3. n <= emitted' /\ surface'[v].shown = UpToChunk(n)
      BY <3>1 DEF SurfacesShowPrefix, UpToChunk
    <3> QED BY <3>2, <3>3
  <2>4. surface[v].toSeq <= n /\ Len(surface[v].shown) = surface[v].toSeq
        /\ surface[v].toSeq \in Nat
    BY <1>1, ShownFacts, CursorFacts DEF SurfacesGrow
  <2> HIDE DEF n
  <2>5. surface'[v].shown = SubSeq(UpToChunk(emitted), 1, n)
    BY <1>1, <2>3, PrefixesOfOutput
  <2>6. [w \in Viewers |-> surface'[w].shown] =
          [shown EXCEPT ![v] = SubSeq(UpToChunk(emitted), 1, n)]
    BY <2>1, <2>2, <2>5
  <2>7. n \in Len(shown[v])..Len(UpToChunk(emitted))
    <3>1. Len(UpToChunk(emitted)) = emitted /\ emitted \in Nat /\ n \in Nat
      BY <2>3, UpToChunkFacts
    <3>2. Len(shown[v]) = surface[v].toSeq
      BY <2>4
    <3> HIDE DEF shown
    <3> QED BY <1>1, <2>3, <2>4, <3>1, <3>2
  <2>8. PO!See(v)
    BY <1>1, <2>6, <2>7 DEF PO!See
  <2> QED BY <2>8 DEF PO!Next
<1>4. surface' = surface \/ \E s : surface' = [surface EXCEPT ![v] = s]
  BY DEF Present
<1> QED BY <1>2, <1>3, <1>4

LEMMA OutputStep ==
    ASSUME PresentationInv, PresentationInv', SnapshotsAreAhead, [Next]_vars
    PROVE  [PO!Next]_(PO!vars)
<1>1. SurfacesGrow
  BY AheadStep
<1>2. CASE Emit
  BY <1>2, OutputAtEmit
<1>3. ASSUME NEW v \in Viewers, Open(v) \/ Connect(v) \/ Dispose(v) \/ Present(v)
      PROVE  [PO!Next]_(PO!vars)
  BY <1>1, <1>3, OutputAtConnect, OutputAtDispose, OutputAtPresent
<1>4. CASE UNCHANGED <<emitted, mounted, surface>>
  BY <1>4, OutputFrame
<1>5. \/ Emit
      \/ \E v \in Viewers : Open(v) \/ Connect(v) \/ Dispose(v) \/ Present(v)
      \/ UNCHANGED <<emitted, mounted, surface>>
  <2>1. \/ Disconnect \/ ForgetDemand \/ Reconnect \/ Continue \/ Receive
        \/ \E a \in stray : HandleStray(a)
        => UNCHANGED <<emitted, mounted, surface>>
    BY DEF Disconnect, ForgetDemand, Reconnect, Continue, Receive, HandleStray,
           serverVars, viewVars
  <2>2. \A k \in 1..MaxSessions : HandleDemand(k) \/ DemandAnswered(k) \/ DemandFails(k) =>
          UNCHANGED <<emitted, mounted, surface>>
    BY DEF HandleDemand, DemandAnswered, DemandFails, serverVars, viewVars
  <2>3. \A r \in requests : Answer(r) \/ SnapshotResponse(r) \/ SnapshotFails(r) =>
          UNCHANGED <<emitted, mounted, surface>>
    BY DEF Answer, SnapshotResponse, SnapshotFails, serverVars, viewVars
  <2>4. \A v \in Viewers : Show(v) \/ Hide(v) => UNCHANGED <<emitted, mounted, surface>>
    BY DEF Show, Hide, serverVars
  <2>5. UNCHANGED vars => UNCHANGED <<emitted, mounted, surface>>
    BY DEF vars, serverVars, viewVars
  <2> QED BY <2>1, <2>2, <2>3, <2>4, <2>5 DEF Next
<1> QED BY <1>2, <1>3, <1>4, <1>5

LEMMA OutputInit == ASSUME Init PROVE PO!Init
<1>1. emitted = 0 /\ mounted = {} /\ surface = [v \in Viewers |-> BlankSurface]
  BY DEF Init
<1>2. UpToChunk(0) = <<>>
  <2>1. 0 \in Cursors
    BY PresentationBounds DEF Cursors
  <2>2. UpToChunk(0) \in Seq(Chunks) /\ Len(UpToChunk(0)) = 0
    BY <2>1, UpToChunkFacts
  <2> QED BY <2>2, EmptySeq
<1>3. \A v \in Viewers : surface[v].shown = <<>>
  BY <1>1 DEF BlankSurface
<1> QED BY <1>1, <1>2, <1>3 DEF PO!Init

\* Whatever is snapshotted, held back, dropped or replayed below, a viewer sees
\* a growing prefix of what the PTY wrote (TerminalHistorySession,
\* terminalPresentationUpdates).
THEOREM PresentationsImplementOutput == Spec => ImplementsPresentedOutput
<1>1. Init => SnapshotsAreAhead
  BY DEF Init, SnapshotsAreAhead
<1>2. PresentationInv /\ SnapshotsAreAhead /\ [Next]_vars => SnapshotsAreAhead'
  BY AheadStep
<1>3. PresentationInv /\ PresentationInv' /\ SnapshotsAreAhead /\ [Next]_vars =>
        [PO!Next]_(PO!vars)
  BY OutputStep
<1>4. Init => PO!Init
  BY OutputInit
<1> QED BY <1>1, <1>2, <1>3, <1>4, PresentationInvariant, PTL
       DEF Spec, PO!Spec, ImplementsPresentedOutput

-----------------------------------------------------------------------------
(* The history of a terminal: sums. *)

\* The sum of equal terms is the same.
LEMMA PointsSame ==
    ASSUME NEW S, NEW w, NEW v, \A x \in S : w[x] = v[x]
    PROVE  Points(S, w) = Points(S, v)
<1>1. \A p : p \in Points(S, w) <=> \E x \in S : p \in {x} \X (1 .. w[x])
  BY DEF Points
<1>2. \A p : p \in Points(S, v) <=> \E x \in S : p \in {x} \X (1 .. v[x])
  BY DEF Points
<1> QED BY <1>1, <1>2

LEMMA ColumnCounts ==
    ASSUME NEW x, NEW n \in Nat
    PROVE  /\ IsFiniteSet({x} \X (1 .. n))
           /\ Cardinality({x} \X (1 .. n)) = n
<1> DEFINE f == [i \in 1 .. n |-> <<x, i>>]
<1>1. f \in Bijection(1 .. n, {x} \X (1 .. n))
  <2>1. f \in [1 .. n -> {x} \X (1 .. n)]
    OBVIOUS
  <2>2. \A i, j \in 1 .. n : f[i] = f[j] => i = j
    OBVIOUS
  <2>3. \A p \in {x} \X (1 .. n) : \E i \in 1 .. n : f[i] = p
    OBVIOUS
  <2> QED BY <2>1, <2>2, <2>3 DEF Bijection, Injection, Surjection, IsInjective
<1>2. ExistsBijection(1 .. n, {x} \X (1 .. n))
  BY <1>1 DEF ExistsBijection
<1>3. IsFiniteSet(1 .. n) /\ Cardinality(1 .. n) = n
  BY FS_Interval
<1> QED BY <1>2, <1>3, FS_Bijection

\* One term more.
LEMMA PointsOfOneMore ==
    ASSUME NEW S, NEW w, NEW x \in S, w[x] \in Nat, IsFiniteSet(Points(S \ {x}, w))
    PROVE  /\ IsFiniteSet(Points(S, w))
           /\ Total(S \ {x}, w) \in Nat
           /\ Total(S, w) = Total(S \ {x}, w) + w[x]
<1> DEFINE column == {x} \X (1 .. w[x])
           rest == Points(S \ {x}, w)
<1>1. Points(S, w) = rest \cup column
  <2>1. \A p : p \in Points(S, w) <=> \E y \in S : p \in {y} \X (1 .. w[y])
    BY DEF Points
  <2>2. \A p : p \in rest <=> \E y \in S \ {x} : p \in {y} \X (1 .. w[y])
    BY DEF Points
  <2> QED BY <2>1, <2>2
<1>2. rest \cap column = {}
  <2>1. \A p \in rest : \E y \in S \ {x} : p \in {y} \X (1 .. w[y])
    BY DEF Points
  <2>2. \A p \in rest : p[1] # x
    BY <2>1
  <2> QED BY <2>2
<1>3. IsFiniteSet(column) /\ Cardinality(column) = w[x]
  BY ColumnCounts
<1>4. Cardinality(rest) \in Nat
  BY FS_CardinalityType
<1> HIDE DEF column, rest
<1>5. IsFiniteSet(rest)
  BY DEF rest
<1>6. IsFiniteSet(rest \cup column)
      /\ Cardinality(rest \cup column) = Cardinality(rest) + Cardinality(column) - Cardinality({})
  BY <1>2, <1>3, <1>5, FS_Union
<1>7. Cardinality({}) = 0
  BY FS_EmptySet
<1> QED BY <1>1, <1>3, <1>4, <1>6, <1>7 DEF Total, rest

LEMMA FewerPoints ==
    ASSUME NEW S, NEW w, NEW x, IsFiniteSet(Points(S, w))
    PROVE  IsFiniteSet(Points(S \ {x}, w))
<1>1. \A p : p \in Points(S, w) <=> \E y \in S : p \in {y} \X (1 .. w[y])
  BY DEF Points
<1>2. \A p : p \in Points(S \ {x}, w) <=> \E y \in S \ {x} : p \in {y} \X (1 .. w[y])
  BY DEF Points
<1>3. Points(S \ {x}, w) \in SUBSET Points(S, w)
  BY <1>1, <1>2
<1> QED BY <1>3, FS_Subset

\* A sum of which one term changes.
LEMMA OneTermChanges ==
    ASSUME NEW S, NEW w, NEW v, NEW x \in S, w[x] \in Nat, v[x] \in Nat,
           \A y \in S \ {x} : v[y] = w[y], IsFiniteSet(Points(S, w))
    PROVE  /\ IsFiniteSet(Points(S, v))
           /\ Total(S, w) \in Nat /\ Total(S, v) \in Nat
           /\ Total(S, w) - w[x] \in Nat
           /\ Total(S, v) = Total(S, w) - w[x] + v[x]
<1>1. Points(S \ {x}, v) = Points(S \ {x}, w)
  BY PointsSame
<1>2. IsFiniteSet(Points(S \ {x}, w))
  BY FewerPoints
<1>3. Total(S \ {x}, w) \in Nat /\ Total(S, w) = Total(S \ {x}, w) + w[x]
  BY <1>2, PointsOfOneMore
<1>4. /\ IsFiniteSet(Points(S, v))
      /\ Total(S, v) = Total(S \ {x}, v) + v[x]
  BY <1>1, <1>2, PointsOfOneMore
<1>5. Total(S \ {x}, v) = Total(S \ {x}, w)
  BY <1>1 DEF Total
<1> QED BY <1>3, <1>4, <1>5

\* Nothing sums up to nothing.
LEMMA TotalOfNothing ==
    ASSUME NEW S, NEW w, \A x \in S : w[x] = 0
    PROVE  Points(S, w) = {} /\ IsFiniteSet(Points(S, w)) /\ Total(S, w) = 0
<1>1. \A x \in S : 1 .. w[x] = {}
  OBVIOUS
<1>2. Points(S, w) = {}
  BY <1>1 DEF Points
<1> QED BY <1>2, FS_EmptySet DEF Total

LEMMA PointsAreFinite ==
    ASSUME NEW S, IsFiniteSet(S), NEW w, \A x \in S : w[x] \in Nat
    PROVE  IsFiniteSet(Points(S, w)) /\ Total(S, w) \in Nat
<1> DEFINE columns == {{x} \X (1 .. w[x]) : x \in S}
<1>1. IsFiniteSet(columns)
  <2> DEFINE g == [x \in S |-> {x} \X (1 .. w[x])]
  <2>1. g \in Surjection(S, columns)
    BY DEF Surjection
  <2> QED BY <2>1, FS_Surjection
<1>2. ASSUME NEW column \in columns PROVE IsFiniteSet(column)
  <2>1. PICK x \in S : column = {x} \X (1 .. w[x])
    OBVIOUS
  <2> QED BY <2>1, ColumnCounts
<1>3. IsFiniteSet(UNION columns)
  BY <1>1, <1>2, FS_UNION
<1> QED BY <1>3, FS_CardinalityType DEF Points, Total

-----------------------------------------------------------------------------
(* Texts. *)

LEMMA BreaksAreFinite ==
    ASSUME NEW text \in Texts
    PROVE  /\ IsFiniteSet(text.breaks)
           /\ Cardinality(text.breaks) \in Nat
<1>1. text.breaks \in SUBSET (1 .. text.length) /\ text.length \in Nat
  BY DEF Texts
<1>2. IsFiniteSet(1 .. text.length)
  BY <1>1, FS_Interval
<1>3. IsFiniteSet(text.breaks)
  BY <1>1, <1>2, FS_Subset
<1> QED BY <1>3, FS_CardinalityType

\* There is an n-th line break, if there are n of them.
LEMMA AfterLinesExists ==
    ASSUME NEW text \in Texts, NEW n \in Nat \ {0}, n <= Cardinality(text.breaks)
    PROVE  /\ AfterLines(text, n) \in text.breaks
           /\ Cardinality({q \in text.breaks : q <= AfterLines(text, n)}) = n
<1> DEFINE upTo(p) == {q \in text.breaks : q <= p}
           enough == {p \in Nat : Cardinality(upTo(p)) >= n}
<1>1. text.breaks \in SUBSET (1 .. text.length) /\ text.length \in Nat
  BY DEF Texts
<1>2. IsFiniteSet(text.breaks)
  BY BreaksAreFinite
<1>3. ASSUME NEW p \in Nat PROVE IsFiniteSet(upTo(p)) /\ Cardinality(upTo(p)) \in Nat
  <2>1. upTo(p) \in SUBSET text.breaks
    OBVIOUS
  <2> HIDE DEF upTo
  <2>2. IsFiniteSet(upTo(p))
    BY <1>2, <2>1, FS_Subset
  <2> QED BY <2>2, FS_CardinalityType
<1>4. text.length \in enough
  <2>1. upTo(text.length) = text.breaks
    BY <1>1
  <2> QED BY <1>1, <2>1
<1>5. PICK p \in enough : \A k \in enough : p <= k
  <2>1. enough \in SUBSET Nat /\ enough # {}
    BY <1>4
  <2> HIDE DEF enough
  <2> QED BY <2>1, LeastNumber
<1>6. p \in Nat /\ Cardinality(upTo(p)) >= n
  BY <1>5
<1>7. p # 0
  <2>1. upTo(0) = {}
    BY <1>1
  <2>2. Cardinality(upTo(0)) = 0
    BY <2>1, FS_EmptySet
  <2> QED BY <1>6, <2>2
<1>8. p - 1 \in Nat /\ ~(Cardinality(upTo(p - 1)) >= n)
  <2>1. p - 1 \in Nat /\ ~(p <= p - 1)
    BY <1>6, <1>7
  <2>2. p - 1 \notin enough
    BY <1>5, <2>1
  <2> QED BY <2>1, <2>2
<1>9. p \in text.breaks
  <2>1. SUFFICES ASSUME p \notin text.breaks PROVE FALSE
    OBVIOUS
  <2>2. upTo(p) = upTo(p - 1)
    BY <1>1, <1>6, <1>7, <2>1
  <2> QED BY <1>6, <1>8, <2>2
<1>10. upTo(p) = upTo(p - 1) \cup {p} /\ p \notin upTo(p - 1)
  BY <1>1, <1>6, <1>7, <1>9
<1>11. Cardinality(upTo(p)) = Cardinality(upTo(p - 1)) + 1
  <2> HIDE DEF upTo
  <2> QED BY <1>3, <1>8, <1>10, FS_AddElement
<1>12. Cardinality(upTo(p)) = n
  <2> HIDE DEF upTo
  <2> QED BY <1>3, <1>6, <1>8, <1>11
<1> QED BY <1>9, <1>12 DEF AfterLines

\* What follows a line break.
LEMMA TextFromBreak ==
    ASSUME NEW text \in Texts, NEW p \in text.breaks
    PROVE  /\ TextFrom(text, p) \in Texts
           /\ p \in Nat \ {0} /\ p <= text.length
           /\ TextFrom(text, p).length = text.length - p
           /\ ~IsEmpty(TextFrom(text, p)) =>
                (text.length - p \in TextFrom(text, p).breaks <=> text.length \in text.breaks)
           /\ Cardinality(TextFrom(text, p).breaks)
                = Cardinality(text.breaks) - Cardinality({q \in text.breaks : q <= p})
<1>1. text.breaks \in SUBSET (1 .. text.length) /\ text.length \in Nat
  BY DEF Texts
<1>2. p \in Nat \ {0} /\ p <= text.length
  BY <1>1
<1> DEFINE before == {q \in text.breaks : q <= p}
           behind == {q \in text.breaks : q > p}
           moved == {q - p : q \in behind}
<1>3. TextFrom(text, p) = [length |-> text.length - p, breaks |-> moved]
  BY DEF TextFrom
<1>4. moved \in SUBSET (1 .. (text.length - p)) /\ moved \in SUBSET Nat
  BY <1>1, <1>2
<1>5. TextFrom(text, p) \in Texts
  BY <1>1, <1>2, <1>3, <1>4 DEF Texts
<1>6. text.length > p => (text.length - p \in moved <=> text.length \in text.breaks)
  BY <1>1, <1>2
<1>7. Cardinality(moved) = Cardinality(behind)
  <2> DEFINE f == [q \in behind |-> q - p]
  <2>1. f \in Bijection(behind, moved)
    <3>1. \A q \in behind : q \in Nat
      BY <1>1
    <3>2. f \in [behind -> moved]
      OBVIOUS
    <3>3. \A q, r \in behind : f[q] = f[r] => q = r
      BY <1>2, <3>1
    <3>4. \A m \in moved : \E q \in behind : f[q] = m
      OBVIOUS
    <3> QED BY <3>2, <3>3, <3>4 DEF Bijection, Injection, Surjection, IsInjective
  <2>2. IsFiniteSet(behind)
    BY BreaksAreFinite, FS_Subset
  <2>3. ExistsBijection(behind, moved)
    BY <2>1 DEF ExistsBijection
  <2> HIDE DEF behind, moved
  <2> QED BY <2>2, <2>3, FS_Bijection
<1>8. Cardinality(behind) = Cardinality(text.breaks) - Cardinality(before)
  <2>1. IsFiniteSet(text.breaks)
    BY BreaksAreFinite
  <2>2. behind = text.breaks \ before /\ before = text.breaks \cap before
    BY <1>1, <1>2
  <2> HIDE DEF before, behind
  <2>3. Cardinality(text.breaks \ before)
          = Cardinality(text.breaks) - Cardinality(text.breaks \cap before)
    BY <2>1, FS_Difference
  <2> QED BY <2>2, <2>3
<1>9. IsEmpty(TextFrom(text, p)) <=> text.length - p = 0
  BY <1>3 DEF IsEmpty
<1> QED BY <1>1, <1>2, <1>3, <1>5, <1>6, <1>7, <1>8, <1>9

\* Two cuts are one.
LEMMA TwoCuts ==
    ASSUME NEW text \in Texts, NEW p \in text.breaks, NEW q \in TextFrom(text, p).breaks
    PROVE  /\ p + q \in text.breaks
           /\ TextFrom(TextFrom(text, p), q) = TextFrom(text, p + q)
<1>1. text.breaks \in SUBSET (1 .. text.length) /\ text.length \in Nat
  BY DEF Texts
<1> DEFINE behind == {r \in text.breaks : r > p}
           moved == {r - p : r \in behind}
<1>2. TextFrom(text, p) = [length |-> text.length - p, breaks |-> moved]
  BY DEF TextFrom
<1>3. q \in moved
  BY <1>2
<1>4. PICK r \in text.breaks : r > p /\ q = r - p
  BY <1>3
<1>5. p \in Nat /\ r \in Nat /\ q \in Nat /\ p + q = r
  BY <1>1, <1>4
<1>6. {x - q : x \in {x \in moved : x > q}} = {x - (p + q) : x \in {x \in text.breaks : x > p + q}}
  <2>1. ASSUME NEW x \in moved, x > q
        PROVE  \E y \in text.breaks : y > p + q /\ x - q = y - (p + q)
    <3>1. PICK y \in text.breaks : y > p /\ x = y - p
      BY <2>1
    <3>2. y \in Nat
      BY <1>1
    <3> QED BY <1>5, <2>1, <3>1, <3>2
  <2>2. ASSUME NEW y \in text.breaks, y > p + q
        PROVE  \E x \in moved : x > q /\ x - q = y - (p + q)
    <3>1. y \in Nat /\ y > p /\ y - p \in moved
      BY <1>1, <1>5, <2>2
    <3>2. y - p > q /\ (y - p) - q = y - (p + q)
      BY <1>5, <2>2, <3>1
    <3> QED BY <3>1, <3>2
  <2> HIDE DEF moved
  <2> QED BY <2>1, <2>2
<1>7. (text.length - p) - q = text.length - (p + q)
  BY <1>1, <1>5
<1> QED BY <1>2, <1>4, <1>5, <1>6, <1>7 DEF TextFrom

-----------------------------------------------------------------------------
(* The invariant of the history. *)

AllSizes == Sizes \cup {UnitSize}

ChunkSet ==
    [at: Nat, terminal: Terminals, seq: Nat, text: Texts, bytes: Nat, lineBreaks: Nat,
     size: AllSizes]

ResizeSet == [at: Nat, afterSeq: Nat, size: AllSizes]

HistoryState ==
    [registered: BOOLEAN, session: Sessions \cup {"none"}, size: AllSizes,
     chunks: SUBSET ChunkSet, resizes: SUBSET ResizeSet, bytes: Nat, lineBreaks: Nat,
     textChunks: Nat, endsWithNewline: BOOLEAN, lastSeq: Nat, truncated: BOOLEAN, pending: Nat]

WithText(S) == {c \in S : ~IsEmpty(c.text)}
EndsWithBreak(S) == \E c \in S : LastWithText(S, c) /\ c.text.length \in c.text.breaks

\* The counts of a state are those of its chunks.
Counted(s) ==
    /\ \A c \in s.chunks : /\ c.bytes = c.text.length
                           /\ c.lineBreaks = Cardinality(c.text.breaks)
    /\ s.bytes = Lengths(s.chunks)
    /\ s.lineBreaks = Breaks(s.chunks)
    /\ s.textChunks = Cardinality(WithText(s.chunks))
    /\ s.endsWithNewline <=> EndsWithBreak(s.chunks)
    /\ StateLines(s) = Lines(s.chunks)

\* Chunks came in the order of their events.
InOrder(s) ==
    \A c, d \in s.chunks :
        /\ c.seq \in 1 .. s.lastSeq
        /\ c.at < d.at <=> c.seq < d.seq
        /\ c.at = d.at => c = d

SoundState(s) ==
    /\ s \in HistoryState
    /\ IsFiniteSet(s.chunks)
    /\ Counted(s) /\ InOrder(s)

BytesOf(b) == [t \in Terminals |-> b.states[t].bytes]
LinesOf(b) == [t \in Terminals |-> StateLines(b.states[t])]
Stamps(S) == {c.at : c \in S}

\* The totals and the global order are those of the states.
SoundBuffer(b) ==
    /\ b \in [states: [Terminals -> HistoryState], order: SUBSET Nat, bytes: Nat, lines: Nat]
    /\ \A t \in Terminals :
         /\ SoundState(b.states[t])
         /\ \A c \in b.states[t].chunks : c.terminal = t
         /\ ~b.states[t].registered => b.states[t] = Absent
    /\ b.order = Stamps(AllChunks(b)) /\ IsFiniteSet(b.order)
    /\ \A c, d \in AllChunks(b) : c.at = d.at => c = d
    /\ IsFiniteSet(Points(Terminals, BytesOf(b))) /\ b.bytes = Total(Terminals, BytesOf(b))
    /\ IsFiniteSet(Points(Terminals, LinesOf(b))) /\ b.lines = Total(Terminals, LinesOf(b))

Heard(l) == {e.seq : e \in l.outputs} \cup l.refused

\* A state s retains the end of what l logs.
EndOf(s, l) ==
    /\ \A c \in s.chunks : \E e \in l.outputs :
         /\ c.seq = e.seq
         /\ \/ c.text = e.text
            \/ /\ \A d \in s.chunks : c.at <= d.at
               /\ \E cut \in e.text.breaks : c.text = TextFrom(e.text, cut)
    /\ \A e \in l.outputs, c \in s.chunks : c.seq <= e.seq => \E d \in s.chunks : d.seq = e.seq

\* Nothing is missing from a state that is not truncated.
Complete(s, l) ==
    ~s.truncated =>
        /\ l.refused = {}
        /\ {[seq |-> c.seq, text |-> c.text] : c \in s.chunks} = l.outputs
        /\ \A i, j \in Heard(l) : i .. j \subseteq Heard(l)

ResizesSince(s, l) ==
    s.resizes = {r \in l.resizes : \E c \in s.chunks : c.seq <= r.afterSeq}

Logs == [outputs: SUBSET [seq: Nat, text: Texts], refused: SUBSET Nat,
         resizes: SUBSET ResizeSet]

\* The size is that of the last of the resizes S, or start if there are none.
InForce(size, S, start) ==
    \/ S = {} /\ size = start
    \/ \E r \in S : (\A q \in S : q.at <= r.at) /\ size = r.size

\* What has a size has the one in force at its time, which every resize changed.
SizedFrom(s, l, start) ==
    /\ InForce(s.size, l.resizes, start)
    /\ \A c \in s.chunks : InForce(c.size, {r \in l.resizes : r.afterSeq < c.seq}, start)
    /\ \A r \in l.resizes : ~InForce(r.size, {q \in l.resizes : q.at < r.at}, start)

Sized(s, l) == \E start \in AllSizes : SizedFrom(s, l, start)

Mirrors(s, l) == EndOf(s, l) /\ Complete(s, l) /\ ResizesSince(s, l) /\ Sized(s, l)

\* Resizes are numbered as they came, each after an event.
Numbered(l) ==
    /\ \A r \in l.resizes : r.at \in 1 .. Cardinality(l.resizes)
    /\ \A r \in l.resizes : r.afterSeq \in Heard(l) \cup {0}
    /\ \A r, q \in l.resizes : r.at = q.at => r = q
    /\ \A r, q \in l.resizes : r.at < q.at => r.afterSeq <= q.afterSeq

\* A log holds what happened up to the last event of the registered terminal.
Recorded(s, l) ==
    /\ IsFiniteSet(l.resizes) /\ Numbered(l)
    /\ Heard(l) \subseteq 1 .. s.lastSeq
    /\ s.lastSeq \in Heard(l) \cup {0}
    /\ \A r \in l.resizes : r.afterSeq <= s.lastSeq
    /\ s.registered => s.session \in Sessions
    /\ ~s.registered => l = NoLog
-----------------------------------------------------------------------------
(* Chunks. *)

\* The first of a Set of JavaScript.
LEMMA OldestIsFirst ==
    ASSUME NEW S, S # {}, \A x \in S : x.at \in Nat
    PROVE  Oldest(S) \in S /\ \A y \in S : Oldest(S).at <= y.at
<1> DEFINE stamps == {x.at : x \in S}
<1>1. stamps \in SUBSET Nat /\ stamps # {}
  OBVIOUS
<1>2. PICK m \in stamps : \A k \in stamps : m <= k
  <2> HIDE DEF stamps
  <2> QED BY <1>1, LeastNumber
<1>3. PICK x \in S : x.at = m
  OBVIOUS
<1>4. \A y \in S : x.at <= y.at
  BY <1>2, <1>3
<1> QED BY <1>4 DEF Oldest

\* The sums of the chunks but one.
LEMMA SumsWithout ==
    ASSUME NEW S \in SUBSET ChunkSet, IsFiniteSet(S), NEW c \in S
    PROVE  /\ Lengths(S) \in Nat /\ Lengths(S \ {c}) \in Nat
           /\ Lengths(S) = Lengths(S \ {c}) + c.text.length
           /\ Breaks(S) \in Nat /\ Breaks(S \ {c}) \in Nat
           /\ Breaks(S) = Breaks(S \ {c}) + Cardinality(c.text.breaks)
<1>1. \A d \in S : d.text.length \in Nat /\ Cardinality(d.text.breaks) \in Nat
  BY BreaksAreFinite DEF ChunkSet, Texts
<1>2. /\ Lengths(S) = Lengths(S \ {c}) + c.text.length
      /\ Lengths(S \ {c}) \in Nat
  <2> DEFINE w == [d \in S |-> d.text.length]
             v == [d \in S \ {c} |-> d.text.length]
  <2>1. Points(S \ {c}, w) = Points(S \ {c}, v)
    BY PointsSame
  <2>2. IsFiniteSet(Points(S, w))
    BY <1>1, PointsAreFinite
  <2>3. w[c] \in Nat /\ w[c] = c.text.length
    BY <1>1
  <2> HIDE DEF w, v
  <2>4. Total(S \ {c}, w) \in Nat /\ Total(S, w) = Total(S \ {c}, w) + w[c]
    BY <2>2, <2>3, FewerPoints, PointsOfOneMore
  <2>5. Total(S \ {c}, w) = Total(S \ {c}, v)
    BY <2>1 DEF Total
  <2>6. Lengths(S) = Total(S, w) /\ Lengths(S \ {c}) = Total(S \ {c}, v)
    BY DEF Lengths, w, v
  <2> QED BY <2>3, <2>4, <2>5, <2>6
<1>3. /\ Breaks(S) = Breaks(S \ {c}) + Cardinality(c.text.breaks)
      /\ Breaks(S \ {c}) \in Nat
  <2> DEFINE w == [d \in S |-> Cardinality(d.text.breaks)]
             v == [d \in S \ {c} |-> Cardinality(d.text.breaks)]
  <2>1. Points(S \ {c}, w) = Points(S \ {c}, v)
    BY PointsSame
  <2>2. IsFiniteSet(Points(S, w))
    BY <1>1, PointsAreFinite
  <2>3. w[c] \in Nat /\ w[c] = Cardinality(c.text.breaks)
    BY <1>1
  <2> HIDE DEF w, v
  <2>4. Total(S \ {c}, w) \in Nat /\ Total(S, w) = Total(S \ {c}, w) + w[c]
    BY <2>2, <2>3, FewerPoints, PointsOfOneMore
  <2>5. Total(S \ {c}, w) = Total(S \ {c}, v)
    BY <2>1 DEF Total
  <2>6. Breaks(S) = Total(S, w) /\ Breaks(S \ {c}) = Total(S \ {c}, v)
    BY DEF Breaks, w, v
  <2> QED BY <2>3, <2>4, <2>5, <2>6
<1> QED BY <1>1, <1>2, <1>3

LEMMA SumsOfNone ==
    /\ Lengths({}) = 0 /\ Breaks({}) = 0 /\ Lines({}) = 0
    /\ Cardinality(WithText({})) = 0 /\ ~EndsWithBreak({}) /\ ~EndsInLine({})
<1>1. Lengths({}) = 0 /\ Breaks({}) = 0
  BY TotalOfNothing DEF Lengths, Breaks
<1>2. WithText({}) = {}
  BY DEF WithText
<1> QED BY <1>1, <1>2, FS_EmptySet DEF Lines, EndsWithBreak, EndsInLine

LEMMA SumsAreNumbers ==
    ASSUME NEW S \in SUBSET ChunkSet, IsFiniteSet(S)
    PROVE  Lengths(S) \in Nat /\ Breaks(S) \in Nat /\ Lines(S) \in Nat
<1>1. \A d \in S : d.text.length \in Nat /\ Cardinality(d.text.breaks) \in Nat
  BY BreaksAreFinite DEF ChunkSet, Texts
<1>2. Lengths(S) \in Nat /\ Breaks(S) \in Nat
  <2>1. \A d \in S : [x \in S |-> x.text.length][d] \in Nat
                     /\ [x \in S |-> Cardinality(x.text.breaks)][d] \in Nat
    BY <1>1
  <2> QED BY <2>1, PointsAreFinite DEF Lengths, Breaks
<1> QED BY <1>2 DEF Lines

-----------------------------------------------------------------------------
(* One round of a limit's loop, on the owner of a chunk. *)

\* What eviction and trimming leave of a state.
Remains(s, s2) ==
    /\ s2.registered = s.registered /\ s2.session = s.session /\ s2.size = s.size
    /\ s2.lastSeq = s.lastSeq /\ s2.pending = s.pending /\ s2.truncated

\* The last line after the oldest chunk is gone.
LEMMA TailWithout ==
    ASSUME NEW S \in SUBSET ChunkSet, IsFiniteSet(S), NEW c \in S,
           \A d \in S : c.at <= d.at /\ (c.at = d.at => c = d)
    PROVE  /\ Cardinality(WithText(S)) \in Nat /\ Cardinality(WithText(S \ {c})) \in Nat
           /\ Cardinality(WithText(S \ {c}))
                = IF IsEmpty(c.text) THEN Cardinality(WithText(S)) ELSE Cardinality(WithText(S)) - 1
           /\ EndsWithBreak(S \ {c}) <=> WithText(S \ {c}) # {} /\ EndsWithBreak(S)
           /\ EndsInLine(S \ {c}) => EndsInLine(S)
           /\ Cardinality(WithText(S \ {c})) = 0 <=> WithText(S \ {c}) = {}
<1>1. WithText(S \ {c}) = IF IsEmpty(c.text) THEN WithText(S) ELSE WithText(S) \ {c}
  BY DEF WithText
<1>2. IsFiniteSet(WithText(S)) /\ Cardinality(WithText(S)) \in Nat
  <2>1. WithText(S) \in SUBSET S
    BY DEF WithText
  <2> QED BY <2>1, FS_Subset, FS_CardinalityType
<1>3. IsEmpty(c.text) <=> c \notin WithText(S)
  BY DEF WithText
<1>4. /\ IsFiniteSet(WithText(S) \ {c})
      /\ Cardinality(WithText(S) \ {c})
           = IF c \in WithText(S) THEN Cardinality(WithText(S)) - 1 ELSE Cardinality(WithText(S))
  BY <1>2, FS_RemoveElement
<1>5. IsFiniteSet(WithText(S \ {c}))
  BY <1>1, <1>2, <1>4
<1>6. Cardinality(WithText(S \ {c})) \in Nat
      /\ (Cardinality(WithText(S \ {c})) = 0 <=> WithText(S \ {c}) = {})
  BY <1>5, FS_CardinalityType, FS_EmptySet
<1>7. \A d \in S : d.at \in Nat
  BY DEF ChunkSet
<1>8. \A d \in S \ {c} : c.at < d.at
  BY <1>7
<1>9. ASSUME NEW d \in S \ {c} PROVE LastWithText(S \ {c}, d) <=> LastWithText(S, d)
  BY <1>7, <1>8 DEF LastWithText
<1>10. WithText(S \ {c}) # {} => ~LastWithText(S, c)
  BY <1>8 DEF LastWithText, WithText
<1>11. \A d : LastWithText(S \ {c}, d) => d \in WithText(S \ {c})
  BY DEF LastWithText, WithText
<1>12. EndsWithBreak(S \ {c}) <=> WithText(S \ {c}) # {} /\ EndsWithBreak(S)
  <2>1. ASSUME EndsWithBreak(S \ {c}) PROVE WithText(S \ {c}) # {} /\ EndsWithBreak(S)
    <3>1. PICK d \in S \ {c} : LastWithText(S \ {c}, d) /\ d.text.length \in d.text.breaks
      BY <2>1 DEF EndsWithBreak
    <3> QED BY <1>9, <1>11, <3>1 DEF EndsWithBreak
  <2>2. ASSUME WithText(S \ {c}) # {}, EndsWithBreak(S) PROVE EndsWithBreak(S \ {c})
    <3>1. PICK d \in S : LastWithText(S, d) /\ d.text.length \in d.text.breaks
      BY <2>2 DEF EndsWithBreak
    <3>2. d \in S \ {c}
      BY <1>10, <2>2, <3>1
    <3> QED BY <1>9, <3>1, <3>2 DEF EndsWithBreak
  <2> QED BY <2>1, <2>2
<1>13. EndsInLine(S \ {c}) => EndsInLine(S)
  BY <1>9 DEF EndsInLine
<1>14. Cardinality(WithText(S \ {c}))
         = IF IsEmpty(c.text) THEN Cardinality(WithText(S)) ELSE Cardinality(WithText(S)) - 1
  BY <1>1, <1>3, <1>4
<1> QED BY <1>2, <1>6, <1>12, <1>13, <1>14

\* The resizes since the new first chunk are kept.
LEMMA PrunedResizes ==
    ASSUME NEW s, NEW l, s \in HistoryState, ResizesSince(s, l), l \in Logs,
           NEW C \in SUBSET ChunkSet,
           \A c, d \in C : c.at < d.at <=> c.seq < d.seq,
           \A c \in C : \E d \in s.chunks : d.seq <= c.seq,
           NEW s2, s2.chunks = C,
           s2.resizes = {r \in s.resizes : C # {} /\ r.afterSeq >= Oldest(C).seq}
    PROVE  ResizesSince(s2, l)
<1> DEFINE R == s2.resizes
<1>0. R = {r \in s.resizes : C # {} /\ r.afterSeq >= Oldest(C).seq}
  OBVIOUS
<1> HIDE DEF R
<1>1. \A c \in C : c.at \in Nat /\ c.seq \in Nat
  BY DEF ChunkSet
<1>2. \A c \in s.chunks : c.seq \in Nat
  BY DEF HistoryState, ChunkSet
<1>3. \A r \in l.resizes : r.afterSeq \in Nat
  BY DEF Logs, ResizeSet
<1>4. s.resizes = {r \in l.resizes : \E c \in s.chunks : c.seq <= r.afterSeq}
  BY DEF ResizesSince
<1>5. CASE C = {}
  BY <1>0, <1>5 DEF ResizesSince, R
<1>6. CASE C # {}
  <2>1. Oldest(C) \in C /\ \A c \in C : Oldest(C).at <= c.at
    BY <1>1, <1>6, OldestIsFirst
  <2>2. \A c \in C : Oldest(C).seq <= c.seq
    BY <1>1, <2>1
  <2>3. ASSUME NEW r \in l.resizes, \E c \in C : c.seq <= r.afterSeq PROVE r \in R
    <3>1. r.afterSeq >= Oldest(C).seq
      BY <1>1, <1>3, <2>1, <2>2, <2>3
    <3>2. PICK d \in s.chunks : d.seq <= Oldest(C).seq
      BY <2>1
    <3>3. r \in s.resizes
      BY <1>1, <1>2, <1>3, <1>4, <2>1, <3>1, <3>2
    <3> QED BY <1>0, <1>6, <3>1, <3>3
  <2>4. ASSUME NEW r \in R PROVE r \in l.resizes /\ \E c \in C : c.seq <= r.afterSeq
    BY <1>0, <1>1, <1>3, <1>4, <2>1
  <2>5. R = {r \in l.resizes : \E c \in C : c.seq <= r.afterSeq}
    BY <2>3, <2>4
  <2> QED BY <2>5 DEF ResizesSince, R
<1> QED BY <1>5, <1>6

\* What is left ends what was logged, if its oldest chunk is what is left of the
\* old one or is whole.
LEMMA EndWithout ==
    ASSUME NEW s, NEW l, SoundState(s), EndOf(s, l), NEW c \in s.chunks,
           \A d \in s.chunks : c.at <= d.at,
           NEW s2, s2.chunks = s.chunks \ {c}
    PROVE  EndOf(s2, l)
<1>1. \A d \in s.chunks : d.at \in Nat /\ d.seq \in Nat
  BY DEF SoundState, HistoryState, ChunkSet
<1>2. \A d \in s2.chunks : d \in s.chunks /\ c.at < d.at /\ c.seq < d.seq
  BY <1>1 DEF SoundState, InOrder
<1>3. ASSUME NEW d \in s2.chunks PROVE \E e \in l.outputs : d.seq = e.seq /\ d.text = e.text
  <2>1. ~(\A x \in s.chunks : d.at <= x.at)
    BY <1>1, <1>2
  <2> QED BY <1>2, <2>1 DEF EndOf
<1>4. ASSUME NEW e \in l.outputs, NEW d \in s2.chunks, d.seq <= e.seq
      PROVE  \E x \in s2.chunks : x.seq = e.seq
  <2>1. PICK x \in s.chunks : x.seq = e.seq
    BY <1>2, <1>4 DEF EndOf
  <2>2. x # c
    BY <1>1, <1>2, <1>4, <2>1
  <2> QED BY <2>1, <2>2
<1> QED BY <1>3, <1>4 DEF EndOf

\* One size at most is in force.
LEMMA OneInForce ==
    ASSUME NEW S \in SUBSET ResizeSet, \A r, q \in S : r.at = q.at => r = q,
           NEW start, NEW size, NEW other, InForce(size, S, start), InForce(other, S, start)
    PROVE  size = other
<1>1. CASE S = {}
  BY <1>1 DEF InForce
<1>2. CASE S # {}
  <2>1. PICK r \in S : (\A x \in S : x.at <= r.at) /\ size = r.size
    BY <1>2 DEF InForce
  <2>2. PICK q \in S : (\A x \in S : x.at <= q.at) /\ other = q.size
    BY <1>2 DEF InForce
  <2>3. r.at \in Nat /\ q.at \in Nat /\ r.at <= q.at /\ q.at <= r.at
    BY <2>1, <2>2 DEF ResizeSet
  <2>4. r = q
    BY <2>3
  <2> QED BY <2>1, <2>2, <2>4
<1> QED BY <1>1, <1>2

\* Sizes stay in force while chunks go or are cut.
LEMMA SizesKept ==
    ASSUME NEW s, NEW l, Sized(s, l), NEW s2, NEW l2, l2.resizes = l.resizes,
           s2.size = s.size,
           \A d \in s2.chunks : \E c \in s.chunks : c.seq = d.seq /\ c.size = d.size
    PROVE  Sized(s2, l2)
<1>1. PICK start \in AllSizes : SizedFrom(s, l, start)
  BY DEF Sized
<1>2. ASSUME NEW d \in s2.chunks
      PROVE  InForce(d.size, {r \in l2.resizes : r.afterSeq < d.seq}, start)
  <2>1. PICK c \in s.chunks : c.seq = d.seq /\ c.size = d.size
    OBVIOUS
  <2>2. InForce(c.size, {r \in l.resizes : r.afterSeq < c.seq}, start)
    BY <1>1 DEF SizedFrom
  <2> QED BY <2>1, <2>2
<1>3. SizedFrom(s2, l2, start)
  BY <1>1, <1>2 DEF SizedFrom
<1> QED BY <1>3 DEF Sized

LEMMA NumbersKept ==
    ASSUME NEW l, Numbered(l), NEW l2, l2.resizes = l.resizes, Heard(l) \subseteq Heard(l2)
    PROVE  Numbered(l2)
BY DEF Numbered

LEMMA LessIsMinus ==
    ASSUME NEW a \in Nat, NEW d \in Nat, d <= a
    PROVE  Less(a, d) = a - d /\ Less(a, d) \in Nat
BY DEF Less

EvictedState(s, c) ==
    PruneResizes([Forget([s EXCEPT !.bytes = Less(@, c.bytes),
                                   !.lineBreaks = Less(@, c.lineBreaks)], c)
                    EXCEPT !.truncated = TRUE])

LEMMA EvictedFields ==
    ASSUME NEW s \in HistoryState, NEW c
    PROVE  /\ EvictedState(s, c).chunks = s.chunks \ {c}
           /\ EvictedState(s, c).bytes = Less(s.bytes, c.bytes)
           /\ EvictedState(s, c).lineBreaks = Less(s.lineBreaks, c.lineBreaks)
           /\ EvictedState(s, c).textChunks
                = IF IsEmpty(c.text) THEN s.textChunks ELSE Less(s.textChunks, 1)
           /\ EvictedState(s, c).endsWithNewline
                = (EvictedState(s, c).textChunks # 0 /\ s.endsWithNewline)
           /\ EvictedState(s, c).resizes
                = {r \in s.resizes : /\ s.chunks \ {c} # {}
                                     /\ r.afterSeq >= Oldest(s.chunks \ {c}).seq}
           /\ Remains(s, EvictedState(s, c))
           /\ DOMAIN EvictedState(s, c) = DOMAIN s
BY DEF EvictedState, PruneResizes, Forget, HistoryState, Remains

\* Eviction of the oldest chunk.
LEMMA EvictionIsSound ==
    ASSUME NEW s, SoundState(s), NEW c \in s.chunks, \A d \in s.chunks : c.at <= d.at
    PROVE  /\ SoundState(EvictedState(s, c))
           /\ EvictedState(s, c).bytes = s.bytes - c.bytes
           /\ c.bytes \in Nat /\ c.bytes <= s.bytes
           /\ StateLines(EvictedState(s, c)) <= StateLines(s)
<1> DEFINE s2 == EvictedState(s, c)
           rest == s.chunks \ {c}
<1>1. /\ s \in HistoryState /\ s.chunks \in SUBSET ChunkSet /\ IsFiniteSet(s.chunks)
      /\ Counted(s) /\ InOrder(s)
  BY DEF SoundState, HistoryState
<1>2. \A d \in s.chunks : c.at = d.at => c = d
  BY <1>1 DEF InOrder
<1>3. /\ s2.chunks = rest
      /\ s2.bytes = Less(s.bytes, c.bytes)
      /\ s2.lineBreaks = Less(s.lineBreaks, c.lineBreaks)
      /\ s2.textChunks = IF IsEmpty(c.text) THEN s.textChunks ELSE Less(s.textChunks, 1)
      /\ s2.endsWithNewline = (s2.textChunks # 0 /\ s.endsWithNewline)
      /\ s2.resizes = {r \in s.resizes : rest # {} /\ r.afterSeq >= Oldest(rest).seq}
      /\ Remains(s, s2) /\ DOMAIN s2 = DOMAIN s
  BY <1>1, EvictedFields
<1>4. /\ Lengths(s.chunks) \in Nat /\ Lengths(rest) \in Nat
      /\ Lengths(s.chunks) = Lengths(rest) + c.text.length
      /\ Breaks(s.chunks) \in Nat /\ Breaks(rest) \in Nat
      /\ Breaks(s.chunks) = Breaks(rest) + Cardinality(c.text.breaks)
  BY <1>1, SumsWithout
<1>5. /\ c.bytes = c.text.length /\ c.lineBreaks = Cardinality(c.text.breaks)
      /\ c.bytes \in Nat /\ c.lineBreaks \in Nat
      /\ s.bytes = Lengths(s.chunks) /\ s.lineBreaks = Breaks(s.chunks)
      /\ s.textChunks = Cardinality(WithText(s.chunks))
      /\ s.endsWithNewline <=> EndsWithBreak(s.chunks)
      /\ StateLines(s) = Lines(s.chunks)
  BY <1>1 DEF Counted, ChunkSet
<1>6. /\ s2.bytes = Lengths(rest) /\ s2.bytes = s.bytes - c.bytes /\ c.bytes <= s.bytes
      /\ s2.lineBreaks = Breaks(rest)
  BY <1>3, <1>4, <1>5, LessIsMinus
<1>7. /\ Cardinality(WithText(s.chunks)) \in Nat /\ Cardinality(WithText(rest)) \in Nat
      /\ Cardinality(WithText(rest))
           = IF IsEmpty(c.text) THEN Cardinality(WithText(s.chunks))
             ELSE Cardinality(WithText(s.chunks)) - 1
      /\ EndsWithBreak(rest) <=> WithText(rest) # {} /\ EndsWithBreak(s.chunks)
      /\ EndsInLine(rest) => EndsInLine(s.chunks)
      /\ Cardinality(WithText(rest)) = 0 <=> WithText(rest) = {}
  BY <1>1, <1>2, TailWithout
<1>8. s2.textChunks = Cardinality(WithText(rest))
  BY <1>3, <1>5, <1>7 DEF Less
<1>9. s2.endsWithNewline <=> EndsWithBreak(rest)
  BY <1>3, <1>5, <1>7, <1>8
<1>10. StateLines(s2) = Lines(rest)
  <2>1. EndsInLine(rest) <=> s2.textChunks > 0 /\ ~s2.endsWithNewline
    <3>1. s.textChunks > 0 /\ ~s.endsWithNewline <=> EndsInLine(s.chunks)
      BY <1>4, <1>5 DEF StateLines, Lines
    <3>2. EndsInLine(rest) => WithText(rest) # {}
      BY DEF EndsInLine, LastWithText, WithText
    <3>3. ASSUME WithText(rest) # {}, EndsInLine(s.chunks) PROVE EndsInLine(rest)
      <4>1. PICK d \in s.chunks : LastWithText(s.chunks, d) /\ d.text.length \notin d.text.breaks
        BY <3>3 DEF EndsInLine
      <4>2. d # c
        <5>1. PICK x \in rest : ~IsEmpty(x.text)
          BY <3>3 DEF WithText
        <5>2. c.at \in Nat /\ x.at \in Nat /\ c.at # x.at /\ c.at <= x.at
          BY <1>1, <1>2, <5>1 DEF ChunkSet
        <5> QED BY <4>1, <5>1, <5>2 DEF LastWithText
      <4>3. LastWithText(rest, d) /\ d \in rest
        BY <4>1, <4>2 DEF LastWithText
      <4> HIDE DEF rest
      <4> QED BY <4>1, <4>3 DEF EndsInLine
    <3> HIDE DEF s2, rest
    <3>4. s2.textChunks > 0 => WithText(rest) # {}
      BY <1>7, <1>8
    <3>5. WithText(rest) # {} => s2.textChunks > 0 /\ s.textChunks > 0
      BY <1>5, <1>7, <1>8
    <3> QED BY <1>5, <1>7, <1>9, <3>1, <3>2, <3>3, <3>4, <3>5
  <2> QED BY <1>6, <2>1 DEF StateLines, Lines
<1>11. StateLines(s2) <= StateLines(s)
  BY <1>4, <1>5, <1>7, <1>10 DEF Lines, ChunkSet
<1>12. s2 \in HistoryState
  <2> DEFINE less == [s EXCEPT !.bytes = Less(@, c.bytes), !.lineBreaks = Less(@, c.lineBreaks)]
             gone == Forget(less, c)
             cut == [gone EXCEPT !.truncated = TRUE]
  <2>1. Less(s.bytes, c.bytes) \in Nat /\ Less(s.lineBreaks, c.lineBreaks) \in Nat
    BY <1>3, <1>4, <1>6
  <2>2. /\ less \in HistoryState /\ less.chunks = s.chunks
        /\ less.textChunks = s.textChunks
    BY <1>1, <2>1 DEF HistoryState
  <2> HIDE DEF less
  <2>3. gone \in HistoryState
    <3>1. (IF IsEmpty(c.text) THEN less.textChunks ELSE Less(less.textChunks, 1)) \in Nat
      BY <1>5, <1>7, <2>2 DEF Less
    <3>2. less.chunks \ {c} \in SUBSET ChunkSet
      BY <1>1, <2>2
    <3> QED BY <2>2, <3>1, <3>2 DEF Forget, HistoryState
  <2> HIDE DEF gone
  <2>4. cut \in HistoryState
    BY <2>3 DEF HistoryState
  <2> HIDE DEF cut
  <2>5. PruneResizes(cut) \in HistoryState
    BY <2>4 DEF PruneResizes, HistoryState
  <2> QED BY <2>5 DEF cut, less, gone, EvictedState
<1>13. IsFiniteSet(s2.chunks)
  BY <1>1, <1>3, FS_RemoveElement
<1>14. Counted(s2)
  <2>1. \A d \in s2.chunks : d.bytes = d.text.length /\ d.lineBreaks = Cardinality(d.text.breaks)
    BY <1>1, <1>3 DEF Counted
  <2> HIDE DEF s2, rest
  <2> QED BY <1>3, <1>6, <1>8, <1>9, <1>10, <2>1 DEF Counted
<1>15. InOrder(s2)
  <2> HIDE DEF s2
  <2> QED BY <1>1, <1>3 DEF InOrder, Remains
<1> HIDE DEF s2, rest
<1>16. SoundState(s2)
  BY <1>12, <1>13, <1>14, <1>15 DEF SoundState
<1> QED BY <1>5, <1>6, <1>11, <1>16 DEF s2

\* The chunk without its first n lines, and the state with it.
Kept(c, n) ==
    [c EXCEPT !.text = TextFrom(@, AfterLines(c.text, n)),
              !.bytes = Less(@, AfterLines(c.text, n)),
              !.lineBreaks = Less(@, n)]

TrimmedState(s, c, n) ==
    PruneResizes([[[s EXCEPT !.bytes = Less(@, AfterLines(c.text, n)),
                             !.lineBreaks = Less(@, n)]
                      EXCEPT !.chunks = (@ \ {c}) \cup {Kept(c, n)}]
                    EXCEPT !.truncated = TRUE])

LEMMA KeptChunk ==
    ASSUME NEW c \in ChunkSet, c.bytes = c.text.length,
           c.lineBreaks = Cardinality(c.text.breaks),
           NEW n \in Nat \ {0}, n <= c.lineBreaks
    PROVE  /\ AfterLines(c.text, n) \in c.text.breaks
           /\ AfterLines(c.text, n) \in Nat \ {0} /\ AfterLines(c.text, n) <= c.bytes
           /\ Kept(c, n) \in ChunkSet
           /\ Kept(c, n).at = c.at /\ Kept(c, n).terminal = c.terminal /\ Kept(c, n).seq = c.seq
           /\ Kept(c, n).size = c.size
           /\ Kept(c, n).text = TextFrom(c.text, AfterLines(c.text, n))
           /\ Kept(c, n).bytes = Kept(c, n).text.length
           /\ Kept(c, n).bytes = c.bytes - AfterLines(c.text, n)
           /\ Kept(c, n).lineBreaks = Cardinality(Kept(c, n).text.breaks)
           /\ Kept(c, n).lineBreaks = c.lineBreaks - n
           /\ ~IsEmpty(c.text)
           /\ ~IsEmpty(Kept(c, n).text) =>
                (Kept(c, n).text.length \in Kept(c, n).text.breaks
                   <=> c.text.length \in c.text.breaks)
<1> DEFINE cut == AfterLines(c.text, n)
<1>1. c.text \in Texts /\ c.text.length \in Nat /\ c.bytes \in Nat /\ c.lineBreaks \in Nat
  BY DEF ChunkSet, Texts
<1>2. cut \in c.text.breaks /\ Cardinality({q \in c.text.breaks : q <= cut}) = n
  BY <1>1, AfterLinesExists
<1> HIDE DEF cut
<1>3. /\ TextFrom(c.text, cut) \in Texts
      /\ cut \in Nat \ {0} /\ cut <= c.text.length
      /\ TextFrom(c.text, cut).length = c.text.length - cut
      /\ ~IsEmpty(TextFrom(c.text, cut)) =>
           (c.text.length - cut \in TextFrom(c.text, cut).breaks
              <=> c.text.length \in c.text.breaks)
      /\ Cardinality(TextFrom(c.text, cut).breaks)
           = Cardinality(c.text.breaks) - Cardinality({q \in c.text.breaks : q <= cut})
  BY <1>1, <1>2, TextFromBreak
<1>4. /\ Less(c.bytes, cut) = c.bytes - cut /\ Less(c.bytes, cut) \in Nat
      /\ Less(c.lineBreaks, n) = c.lineBreaks - n /\ Less(c.lineBreaks, n) \in Nat
  BY <1>1, <1>3, LessIsMinus
<1>5. Kept(c, n) = [c EXCEPT !.text = TextFrom(c.text, cut), !.bytes = c.bytes - cut,
                             !.lineBreaks = c.lineBreaks - n]
  BY <1>4 DEF Kept, cut, ChunkSet
<1>6. /\ Kept(c, n).text = TextFrom(c.text, cut) /\ Kept(c, n).bytes = c.bytes - cut
      /\ Kept(c, n).lineBreaks = c.lineBreaks - n
      /\ Kept(c, n).at = c.at /\ Kept(c, n).terminal = c.terminal /\ Kept(c, n).seq = c.seq
      /\ Kept(c, n).size = c.size /\ Kept(c, n) \in ChunkSet
  <2>1. /\ c \in ChunkSet /\ TextFrom(c.text, cut) \in Texts
        /\ c.bytes - cut \in Nat /\ c.lineBreaks - n \in Nat
    BY <1>3, <1>4
  <2> QED BY <1>5, <2>1 DEF ChunkSet
<1>7. ~IsEmpty(c.text)
  BY <1>3 DEF IsEmpty
<1> QED BY <1>1, <1>2, <1>3, <1>6, <1>7 DEF cut

LEMMA TrimmedFields ==
    ASSUME NEW s \in HistoryState, NEW c, NEW n
    PROVE  /\ TrimmedState(s, c, n).chunks = (s.chunks \ {c}) \cup {Kept(c, n)}
           /\ TrimmedState(s, c, n).bytes = Less(s.bytes, AfterLines(c.text, n))
           /\ TrimmedState(s, c, n).lineBreaks = Less(s.lineBreaks, n)
           /\ TrimmedState(s, c, n).textChunks = s.textChunks
           /\ TrimmedState(s, c, n).endsWithNewline = s.endsWithNewline
           /\ Remains(s, TrimmedState(s, c, n))
BY DEF TrimmedState, PruneResizes, HistoryState, Remains

LEMMA TrimmedResizes ==
    ASSUME NEW s \in HistoryState, NEW c, NEW n, NEW C, C = (s.chunks \ {c}) \cup {Kept(c, n)}
    PROVE  TrimmedState(s, c, n).resizes
             = {r \in s.resizes : C # {} /\ r.afterSeq >= Oldest(C).seq}
BY DEF TrimmedState, PruneResizes, HistoryState

\* The last line stays when the oldest chunk is replaced by its end.
LEMMA TailReplaced ==
    ASSUME NEW S \in SUBSET ChunkSet, IsFiniteSet(S), NEW c \in S, NEW k \in ChunkSet,
           \A d \in S : c.at <= d.at /\ (c.at = d.at => c = d),
           k.at = c.at, ~IsEmpty(c.text), ~IsEmpty(k.text),
           k.text.length \in k.text.breaks <=> c.text.length \in c.text.breaks
    PROVE  /\ k \notin S \ {c}
           /\ Cardinality(WithText((S \ {c}) \cup {k})) = Cardinality(WithText(S))
           /\ EndsWithBreak((S \ {c}) \cup {k}) <=> EndsWithBreak(S)
           /\ EndsInLine((S \ {c}) \cup {k}) <=> EndsInLine(S)
<1> DEFINE C == (S \ {c}) \cup {k}
<1>1. k \notin S \ {c}
  OBVIOUS
<1>2. /\ WithText(C) = (WithText(S) \ {c}) \cup {k}
      /\ c \in WithText(S) /\ k \notin WithText(S) \ {c}
  BY <1>1 DEF WithText
<1>3. IsFiniteSet(WithText(S)) /\ Cardinality(WithText(S)) \in Nat
  <2>1. WithText(S) \in SUBSET S
    BY DEF WithText
  <2> QED BY <2>1, FS_Subset, FS_CardinalityType
<1>4. /\ IsFiniteSet(WithText(S) \ {c})
      /\ Cardinality(WithText(S) \ {c}) = Cardinality(WithText(S)) - 1
  BY <1>2, <1>3, FS_RemoveElement
<1>5. Cardinality((WithText(S) \ {c}) \cup {k}) = Cardinality(WithText(S) \ {c}) + 1
  BY <1>2, <1>4, FS_AddElement
<1>6. Cardinality(WithText(C)) = Cardinality(WithText(S))
  <2>1. Cardinality(WithText(C)) = Cardinality((WithText(S) \ {c}) \cup {k})
    BY <1>2
  <2> HIDE DEF C
  <2> QED BY <1>3, <1>4, <1>5, <2>1
<1>7. \A d \in S : d.at \in Nat
  BY DEF ChunkSet
<1>8. ASSUME NEW d \in S \ {c} PROVE LastWithText(C, d) <=> LastWithText(S, d)
  BY <1>7 DEF LastWithText
<1>9. LastWithText(C, k) <=> LastWithText(S, c)
  BY <1>7 DEF LastWithText
<1>10. \A x, T : LastWithText(T, x) => x \in T
  BY DEF LastWithText
<1>11. EndsWithBreak(C) <=> EndsWithBreak(S)
  BY <1>8, <1>9, <1>10 DEF EndsWithBreak
<1>12. EndsInLine(C) <=> EndsInLine(S)
  BY <1>8, <1>9, <1>10 DEF EndsInLine
<1> QED BY <1>1, <1>6, <1>11, <1>12

\* Trimming of the oldest chunk, when something of it is left.
LEMMA TrimmingIsSound ==
    ASSUME NEW s, SoundState(s), NEW c \in s.chunks, \A d \in s.chunks : c.at <= d.at,
           NEW n \in Nat \ {0}, n <= c.lineBreaks, ~IsEmpty(Kept(c, n).text)
    PROVE  /\ SoundState(TrimmedState(s, c, n))
           /\ TrimmedState(s, c, n).bytes = s.bytes - AfterLines(c.text, n)
           /\ AfterLines(c.text, n) <= s.bytes
           /\ StateLines(TrimmedState(s, c, n)) <= StateLines(s)
<1> DEFINE s2 == TrimmedState(s, c, n)
           k == Kept(c, n)
           cut == AfterLines(c.text, n)
           rest == s.chunks \ {c}
           C == rest \cup {k}
<1>1. /\ s \in HistoryState /\ s.chunks \in SUBSET ChunkSet /\ IsFiniteSet(s.chunks)
      /\ Counted(s) /\ InOrder(s)
  BY DEF SoundState, HistoryState
<1>2. \A d \in s.chunks : c.at = d.at => c = d
  BY <1>1 DEF InOrder
<1>3. /\ c.bytes = c.text.length /\ c.lineBreaks = Cardinality(c.text.breaks) /\ c \in ChunkSet
      /\ c.bytes \in Nat /\ c.lineBreaks \in Nat
      /\ s.bytes = Lengths(s.chunks) /\ s.lineBreaks = Breaks(s.chunks)
      /\ s.textChunks = Cardinality(WithText(s.chunks))
      /\ s.endsWithNewline <=> EndsWithBreak(s.chunks)
      /\ StateLines(s) = Lines(s.chunks)
  BY <1>1 DEF Counted, ChunkSet
<1>4. /\ s2.chunks = C
      /\ s2.bytes = Less(s.bytes, cut) /\ s2.lineBreaks = Less(s.lineBreaks, n)
      /\ s2.textChunks = s.textChunks /\ s2.endsWithNewline = s.endsWithNewline
      /\ Remains(s, s2)
  <2>1. /\ TrimmedState(s, c, n).chunks = (s.chunks \ {c}) \cup {Kept(c, n)}
        /\ TrimmedState(s, c, n).bytes = Less(s.bytes, AfterLines(c.text, n))
        /\ TrimmedState(s, c, n).lineBreaks = Less(s.lineBreaks, n)
        /\ TrimmedState(s, c, n).textChunks = s.textChunks
        /\ TrimmedState(s, c, n).endsWithNewline = s.endsWithNewline
        /\ Remains(s, TrimmedState(s, c, n))
    <3> HIDE DEF s2, k, cut, rest, C
    <3>1. s \in HistoryState
      BY <1>1
    <3> QED BY ONLY <3>1, TrimmedFields
  <2> QED BY <2>1
<1>5. /\ cut \in Nat \ {0} /\ cut <= c.bytes /\ k \in ChunkSet
      /\ k.at = c.at /\ k.seq = c.seq
      /\ k.bytes = k.text.length /\ k.bytes = c.bytes - cut
      /\ k.lineBreaks = Cardinality(k.text.breaks) /\ k.lineBreaks = c.lineBreaks - n
      /\ ~IsEmpty(c.text) /\ ~IsEmpty(k.text)
      /\ k.text.length \in k.text.breaks <=> c.text.length \in c.text.breaks
  BY <1>3, KeptChunk
<1> HIDE DEF s2, k, cut
<1>6. /\ k \notin rest
      /\ Cardinality(WithText(C)) = Cardinality(WithText(s.chunks))
      /\ EndsWithBreak(C) <=> EndsWithBreak(s.chunks)
      /\ EndsInLine(C) <=> EndsInLine(s.chunks)
  BY <1>1, <1>2, <1>5, TailReplaced
<1>7. C \in SUBSET ChunkSet /\ IsFiniteSet(C) /\ C \ {k} = rest
  <2>1. IsFiniteSet(rest)
    BY <1>1, FS_RemoveElement
  <2>2. C \in SUBSET ChunkSet /\ C \ {k} = rest
    BY <1>1, <1>5, <1>6
  <2> HIDE DEF rest
  <2>3. IsFiniteSet(C)
    BY <2>1, FS_AddElement
  <2> QED BY <2>2, <2>3
<1>8. /\ Lengths(s.chunks) = Lengths(rest) + c.text.length /\ Lengths(rest) \in Nat
      /\ Breaks(s.chunks) = Breaks(rest) + Cardinality(c.text.breaks) /\ Breaks(rest) \in Nat
  BY <1>1, SumsWithout
<1>9. /\ Lengths(C) = Lengths(rest) + k.text.length
      /\ Breaks(C) = Breaks(rest) + Cardinality(k.text.breaks)
  <2> HIDE DEF C, rest
  <2>1. k \in C
    BY DEF C
  <2> QED BY <1>7, <2>1, SumsWithout
<1>10. /\ s2.bytes = s.bytes - cut /\ cut <= s.bytes /\ s2.bytes = Lengths(C) /\ s2.bytes \in Nat
       /\ s2.lineBreaks = Breaks(C) /\ s2.lineBreaks = s.lineBreaks - n /\ s2.lineBreaks \in Nat
       /\ s.lineBreaks \in Nat
  <2> HIDE DEF C, rest
  <2>1. cut <= s.bytes /\ n <= s.lineBreaks /\ s.bytes \in Nat /\ s.lineBreaks \in Nat
    BY <1>3, <1>5, <1>8
  <2>2. Less(s.bytes, cut) = s.bytes - cut /\ Less(s.bytes, cut) \in Nat
    BY <1>5, <2>1, LessIsMinus
  <2>3. Less(s.lineBreaks, n) = s.lineBreaks - n /\ Less(s.lineBreaks, n) \in Nat
    BY <2>1, LessIsMinus
  <2>4. s2.bytes = s.bytes - cut /\ s2.bytes \in Nat
    BY <1>4, <2>2
  <2>5. s2.lineBreaks = s.lineBreaks - n /\ s2.lineBreaks \in Nat
    BY <1>4, <2>3
  <2>6. s.bytes - cut = Lengths(C)
    <3>1. /\ k.text.length = c.bytes - cut /\ c.bytes \in Nat /\ cut \in Nat
          /\ s.bytes = Lengths(rest) + c.bytes /\ Lengths(rest) \in Nat
      BY <1>3, <1>5, <1>8
    <3> QED BY <1>9, <3>1
  <2>7. s.lineBreaks - n = Breaks(C)
    <3>1. /\ Cardinality(k.text.breaks) = c.lineBreaks - n /\ c.lineBreaks \in Nat
          /\ s.lineBreaks = Breaks(rest) + c.lineBreaks /\ Breaks(rest) \in Nat
      BY <1>3, <1>5, <1>8
    <3> QED BY <1>9, <3>1
  <2> QED BY <2>1, <2>4, <2>5, <2>6, <2>7
<1>11. StateLines(s2) = Lines(C) /\ StateLines(s2) <= StateLines(s)
  <2>1. s.textChunks > 0 /\ ~s.endsWithNewline <=> EndsInLine(s.chunks)
    BY <1>3, <1>8, <1>10 DEF StateLines, Lines
  <2> HIDE DEF C, rest
  <2> QED BY <1>4, <1>6, <1>10, <2>1 DEF StateLines, Lines
<1>12. s2 \in HistoryState
  <2> DEFINE less == [s EXCEPT !.bytes = Less(@, cut), !.lineBreaks = Less(@, n)]
             swapped == [less EXCEPT !.chunks = (@ \ {c}) \cup {k}]
             marked == [swapped EXCEPT !.truncated = TRUE]
  <2>1. less \in HistoryState /\ less.chunks = s.chunks
    BY <1>1, <1>4, <1>10 DEF HistoryState
  <2> HIDE DEF less
  <2>2. swapped \in HistoryState
    BY <1>7, <2>1 DEF HistoryState
  <2> HIDE DEF swapped
  <2>3. marked \in HistoryState
    BY <2>2 DEF HistoryState
  <2> HIDE DEF marked
  <2>4. PruneResizes(marked) \in HistoryState
    BY <2>3 DEF PruneResizes, HistoryState
  <2> QED BY <2>4 DEF marked, swapped, less, s2, k, cut, TrimmedState
<1>13. Counted(s2)
  <2>1. \A d \in s2.chunks : d.bytes = d.text.length /\ d.lineBreaks = Cardinality(d.text.breaks)
    BY <1>1, <1>4, <1>5 DEF Counted
  <2> HIDE DEF C, rest
  <2> QED BY <1>3, <1>4, <1>6, <1>10, <1>11, <2>1 DEF Counted
<1>14. InOrder(s2)
  BY <1>1, <1>4, <1>5 DEF InOrder, Remains
<1>15. SoundState(s2)
  BY <1>4, <1>7, <1>12, <1>13, <1>14 DEF SoundState
<1> QED BY <1>10, <1>11, <1>15 DEF s2, cut

LEMMA EvictionMirrors ==
    ASSUME NEW s, SoundState(s), NEW c \in s.chunks, \A d \in s.chunks : c.at <= d.at,
           NEW l \in Logs, Mirrors(s, l)
    PROVE  Mirrors(EvictedState(s, c), l)
<1> DEFINE s2 == EvictedState(s, c)
           rest == s.chunks \ {c}
<1>1. /\ s \in HistoryState /\ s.chunks \in SUBSET ChunkSet /\ InOrder(s)
      /\ EndOf(s, l) /\ ResizesSince(s, l) /\ Sized(s, l)
  BY DEF SoundState, HistoryState, Mirrors
<1>2. /\ s2.chunks = rest
      /\ s2.resizes = {r \in s.resizes : rest # {} /\ r.afterSeq >= Oldest(rest).seq}
      /\ s2.truncated /\ s2.size = s.size
  BY <1>1, EvictedFields DEF Remains
<1> HIDE DEF s2
<1>3. EndOf(s2, l)
  BY <1>1, <1>2, EndWithout
<1>4. ResizesSince(s2, l)
  <2>1. \A x, y \in rest : x.at < y.at <=> x.seq < y.seq
    BY <1>1 DEF InOrder
  <2>2. \A x \in rest : \E d \in s.chunks : d.seq <= x.seq
    BY <1>1 DEF ChunkSet
  <2>3. rest \in SUBSET ChunkSet
    BY <1>1
  <2> HIDE DEF rest
  <2> QED BY <1>1, <1>2, <2>1, <2>2, <2>3, PrunedResizes
<1>5. Sized(s2, l)
  BY <1>1, <1>2, SizesKept
<1> QED BY <1>2, <1>3, <1>4, <1>5 DEF Mirrors, Complete, s2

LEMMA TrimmingMirrors ==
    ASSUME NEW s, SoundState(s), NEW c \in s.chunks, \A d \in s.chunks : c.at <= d.at,
           NEW n \in Nat \ {0}, n <= c.lineBreaks, ~IsEmpty(Kept(c, n).text),
           NEW l \in Logs, Mirrors(s, l)
    PROVE  Mirrors(TrimmedState(s, c, n), l)
<1> DEFINE s2 == TrimmedState(s, c, n)
           k == Kept(c, n)
           cut == AfterLines(c.text, n)
           rest == s.chunks \ {c}
           C == rest \cup {k}
<1>1. /\ s \in HistoryState /\ s.chunks \in SUBSET ChunkSet /\ InOrder(s)
      /\ EndOf(s, l) /\ ResizesSince(s, l) /\ Sized(s, l) /\ c \in ChunkSet
      /\ c.bytes = c.text.length /\ c.lineBreaks = Cardinality(c.text.breaks)
  BY DEF SoundState, HistoryState, Mirrors, Counted
<1>2. /\ cut \in c.text.breaks /\ k \in ChunkSet
      /\ k.at = c.at /\ k.seq = c.seq /\ k.text = TextFrom(c.text, cut) /\ k.size = c.size
  BY <1>1, KeptChunk
<1>3. s2.chunks = C /\ s2.truncated /\ s2.size = s.size
  BY <1>1, TrimmedFields DEF Remains
<1>4. s2.resizes = {r \in s.resizes : C # {} /\ r.afterSeq >= Oldest(C).seq}
  BY <1>1, TrimmedResizes
<1> HIDE DEF s2, k, cut
<1>5. \A d \in s.chunks : d.at \in Nat /\ d.seq \in Nat
  BY <1>1 DEF ChunkSet
<1>6. \A d \in rest : d \in s.chunks /\ c.at < d.at /\ c.seq < d.seq
  BY <1>1, <1>5 DEF InOrder
<1>7. ASSUME NEW d \in rest PROVE \E e \in l.outputs : d.seq = e.seq /\ d.text = e.text
  <2>1. ~(\A x \in s.chunks : d.at <= x.at)
    BY <1>5, <1>6
  <2> QED BY <1>1, <1>6, <2>1 DEF EndOf
<1>8. \E e \in l.outputs :
        /\ k.seq = e.seq
        /\ \E p \in e.text.breaks : k.text = TextFrom(e.text, p)
  <2>1. PICK e \in l.outputs :
          /\ c.seq = e.seq
          /\ c.text = e.text \/ \E p \in e.text.breaks : c.text = TextFrom(e.text, p)
    BY <1>1 DEF EndOf
  <2>2. CASE c.text = e.text
    BY <1>2, <2>1, <2>2
  <2>3. ASSUME NEW p \in e.text.breaks, c.text = TextFrom(e.text, p)
        PROVE  \E q \in e.text.breaks : k.text = TextFrom(e.text, q)
    <3>1. e.text \in Texts
      BY DEF Logs
    <3> QED BY <1>2, <2>3, <3>1, TwoCuts
  <2> QED BY <1>2, <2>1, <2>2, <2>3
<1>9. \A d \in s2.chunks : k.at <= d.at
  BY <1>2, <1>3, <1>5, <1>6
<1>10. ASSUME NEW e \in l.outputs, NEW d \in s2.chunks, d.seq <= e.seq
       PROVE  \E x \in s2.chunks : x.seq = e.seq
  <2>1. PICK y \in s.chunks : y.seq = d.seq
    BY <1>2, <1>3, <1>6
  <2>2. PICK x \in s.chunks : x.seq = e.seq
    BY <1>1, <1>10, <2>1 DEF EndOf
  <2> QED BY <1>2, <1>3, <2>2
<1>11. EndOf(s2, l)
  <2>1. ASSUME NEW d \in s2.chunks
        PROVE  \E e \in l.outputs :
                 /\ d.seq = e.seq
                 /\ \/ d.text = e.text
                    \/ /\ \A x \in s2.chunks : d.at <= x.at
                       /\ \E p \in e.text.breaks : d.text = TextFrom(e.text, p)
    <3>1. CASE d = k
      BY <1>8, <1>9, <3>1
    <3>2. CASE d \in rest
      BY <1>7, <3>2
    <3> QED BY <1>3, <3>1, <3>2
  <2> QED BY <1>10, <2>1 DEF EndOf
<1>12. ResizesSince(s2, l)
  <2>1. \A x, y \in C : x.at < y.at <=> x.seq < y.seq
    <3>1. \A x, y \in s.chunks : x.at < y.at <=> x.seq < y.seq
      BY <1>1 DEF InOrder
    <3> QED BY <1>2, <3>1
  <2>2. \A x \in C : \E d \in s.chunks : d.seq <= x.seq
    BY <1>2, <1>5
  <2>3. C \in SUBSET ChunkSet
    BY <1>1, <1>2
  <2> HIDE DEF C
  <2> QED BY <1>1, <1>3, <1>4, <2>1, <2>2, <2>3, PrunedResizes
<1>13. Sized(s2, l)
  <2>1. \A d \in s2.chunks : \E x \in s.chunks : x.seq = d.seq /\ x.size = d.size
    BY <1>2, <1>3
  <2> QED BY <1>1, <1>3, <2>1, SizesKept
<1> QED BY <1>3, <1>11, <1>12, <1>13 DEF Mirrors, Complete, s2

-----------------------------------------------------------------------------
(* The buffer, when the state of one terminal changes. *)

LEMMA StampsAreFinite ==
    ASSUME NEW S, IsFiniteSet(S)
    PROVE  IsFiniteSet(Stamps(S))
<1> DEFINE f == [c \in S |-> c.at]
<1>1. f \in Surjection(S, Stamps(S))
  BY DEF Surjection, Stamps
<1> QED BY <1>1, FS_Surjection

LEMMA StateLinesType ==
    ASSUME NEW s \in HistoryState
    PROVE  StateLines(s) \in Nat
BY DEF StateLines, HistoryState

LEMMA ChunksOfBuffer ==
    ASSUME NEW b, NEW c
    PROVE  c \in AllChunks(b) <=> \E t \in Terminals : c \in b.states[t].chunks
BY DEF AllChunks

LEMMA TotalsChange ==
    ASSUME NEW b, SoundBuffer(b), NEW t \in Terminals, NEW s2 \in HistoryState,
           NEW b2, b2.states = [b.states EXCEPT ![t] = s2]
    PROVE  /\ b.bytes \in Nat /\ b.bytes - b.states[t].bytes \in Nat
           /\ IsFiniteSet(Points(Terminals, BytesOf(b2)))
           /\ Total(Terminals, BytesOf(b2)) = b.bytes - b.states[t].bytes + s2.bytes
           /\ b.lines \in Nat /\ b.lines - StateLines(b.states[t]) \in Nat
           /\ IsFiniteSet(Points(Terminals, LinesOf(b2)))
           /\ Total(Terminals, LinesOf(b2)) = b.lines - StateLines(b.states[t]) + StateLines(s2)
<1>1. /\ b.states \in [Terminals -> HistoryState]
      /\ IsFiniteSet(Points(Terminals, BytesOf(b))) /\ b.bytes = Total(Terminals, BytesOf(b))
      /\ IsFiniteSet(Points(Terminals, LinesOf(b))) /\ b.lines = Total(Terminals, LinesOf(b))
  BY DEF SoundBuffer
<1>2. /\ BytesOf(b)[t] = b.states[t].bytes /\ BytesOf(b)[t] \in Nat
      /\ BytesOf(b2)[t] = s2.bytes /\ BytesOf(b2)[t] \in Nat
      /\ \A u \in Terminals \ {t} : BytesOf(b2)[u] = BytesOf(b)[u]
  BY <1>1 DEF BytesOf, HistoryState
<1>3. /\ LinesOf(b)[t] = StateLines(b.states[t]) /\ LinesOf(b)[t] \in Nat
      /\ LinesOf(b2)[t] = StateLines(s2) /\ LinesOf(b2)[t] \in Nat
      /\ \A u \in Terminals \ {t} : LinesOf(b2)[u] = LinesOf(b)[u]
  BY <1>1, StateLinesType DEF LinesOf
<1>4. /\ IsFiniteSet(Points(Terminals, BytesOf(b2)))
      /\ Total(Terminals, BytesOf(b)) \in Nat
      /\ Total(Terminals, BytesOf(b)) - BytesOf(b)[t] \in Nat
      /\ Total(Terminals, BytesOf(b2))
           = Total(Terminals, BytesOf(b)) - BytesOf(b)[t] + BytesOf(b2)[t]
  <2> DEFINE w == BytesOf(b)
             v == BytesOf(b2)
  <2>1. /\ w[t] \in Nat /\ v[t] \in Nat /\ \A u \in Terminals \ {t} : v[u] = w[u]
        /\ IsFiniteSet(Points(Terminals, w))
    BY <1>1, <1>2
  <2> HIDE DEF w, v
  <2>2. /\ IsFiniteSet(Points(Terminals, v))
        /\ Total(Terminals, w) \in Nat /\ Total(Terminals, w) - w[t] \in Nat
        /\ Total(Terminals, v) = Total(Terminals, w) - w[t] + v[t]
    BY <2>1, OneTermChanges
  <2> QED BY <2>2 DEF w, v
<1>5. /\ IsFiniteSet(Points(Terminals, LinesOf(b2)))
      /\ Total(Terminals, LinesOf(b)) \in Nat
      /\ Total(Terminals, LinesOf(b)) - LinesOf(b)[t] \in Nat
      /\ Total(Terminals, LinesOf(b2))
           = Total(Terminals, LinesOf(b)) - LinesOf(b)[t] + LinesOf(b2)[t]
  BY <1>1, <1>3, OneTermChanges
<1> QED BY <1>1, <1>2, <1>3, <1>4, <1>5

LEMMA BufferChanges ==
    ASSUME NEW b, SoundBuffer(b), NEW t \in Terminals,
           NEW s2, SoundState(s2), \A c \in s2.chunks : c.terminal = t,
           ~s2.registered => s2 = Absent,
           \A u \in Terminals \ {t} : \A d \in b.states[u].chunks : d.at \notin Stamps(s2.chunks),
           NEW b2, b2 = [states |-> [b.states EXCEPT ![t] = s2], order |-> b2.order,
                         bytes |-> b.bytes - b.states[t].bytes + s2.bytes,
                         lines |-> b.lines - StateLines(b.states[t]) + StateLines(s2)],
           b2.order = (b.order \ Stamps(b.states[t].chunks)) \cup Stamps(s2.chunks)
    PROVE  SoundBuffer(b2)
<1>1. /\ b.states \in [Terminals -> HistoryState] /\ b.order \in SUBSET Nat
      /\ \A u \in Terminals :
           /\ SoundState(b.states[u])
           /\ \A c \in b.states[u].chunks : c.terminal = u
           /\ ~b.states[u].registered => b.states[u] = Absent
      /\ b.order = Stamps(AllChunks(b)) /\ IsFiniteSet(b.order)
      /\ \A c, d \in AllChunks(b) : c.at = d.at => c = d
  BY DEF SoundBuffer
<1>2. s2 \in HistoryState /\ IsFiniteSet(s2.chunks) /\ s2.chunks \in SUBSET ChunkSet
  BY DEF SoundState, HistoryState
<1>3. /\ b2.states = [b.states EXCEPT ![t] = s2]
      /\ b2.bytes = b.bytes - b.states[t].bytes + s2.bytes
      /\ b2.lines = b.lines - StateLines(b.states[t]) + StateLines(s2)
  OBVIOUS
<1>4. /\ b2.states \in [Terminals -> HistoryState] /\ b2.states[t] = s2
      /\ \A u \in Terminals \ {t} : b2.states[u] = b.states[u]
  BY <1>1, <1>2, <1>3
<1>5. /\ b.bytes - b.states[t].bytes \in Nat
      /\ IsFiniteSet(Points(Terminals, BytesOf(b2))) /\ b2.bytes = Total(Terminals, BytesOf(b2))
      /\ b.lines - StateLines(b.states[t]) \in Nat
      /\ IsFiniteSet(Points(Terminals, LinesOf(b2))) /\ b2.lines = Total(Terminals, LinesOf(b2))
  BY <1>2, <1>3, TotalsChange
<1>6. \A c : c \in AllChunks(b2) <=>
        c \in s2.chunks \/ \E u \in Terminals \ {t} : c \in b.states[u].chunks
  BY <1>4, ChunksOfBuffer
<1>7. b2.order = Stamps(AllChunks(b2))
  <2>1. \A u \in Terminals \ {t} : \A d \in b.states[u].chunks :
          d.at \notin Stamps(b.states[t].chunks)
    <3>1. SUFFICES ASSUME NEW u \in Terminals \ {t}, NEW d \in b.states[u].chunks,
                          NEW c \in b.states[t].chunks, c.at = d.at
                   PROVE  FALSE
      BY DEF Stamps
    <3>2. c = d
      BY <1>1, <3>1, ChunksOfBuffer
    <3> QED BY <1>1, <3>1, <3>2
  <2>2. ASSUME NEW x \in b2.order PROVE x \in Stamps(AllChunks(b2))
    <3>1. CASE x \in Stamps(s2.chunks)
      BY <1>6, <3>1 DEF Stamps
    <3>2. CASE x \in b.order /\ x \notin Stamps(b.states[t].chunks)
      <4>1. PICK c \in AllChunks(b) : x = c.at
        BY <1>1, <3>2 DEF Stamps
      <4>2. PICK u \in Terminals : c \in b.states[u].chunks
        BY <4>1, ChunksOfBuffer
      <4>3. u # t
        BY <3>2, <4>1, <4>2 DEF Stamps
      <4> QED BY <1>6, <4>1, <4>2, <4>3 DEF Stamps
    <3> QED BY <3>1, <3>2
  <2>3. ASSUME NEW c \in AllChunks(b2) PROVE c.at \in b2.order
    <3>1. CASE c \in s2.chunks
      BY <3>1 DEF Stamps
    <3>2. ASSUME NEW u \in Terminals \ {t}, c \in b.states[u].chunks PROVE c.at \in b2.order
      <4>1. c \in AllChunks(b)
        BY <3>2, ChunksOfBuffer
      <4>2. c.at \in b.order
        BY <1>1, <4>1 DEF Stamps
      <4> QED BY <2>1, <3>2, <4>2
    <3> QED BY <1>6, <3>1, <3>2
  <2> QED BY <2>2, <2>3 DEF Stamps
<1>8. b2.order \in SUBSET Nat /\ IsFiniteSet(b2.order)
  <2>1. IsFiniteSet(Stamps(s2.chunks)) /\ Stamps(s2.chunks) \in SUBSET Nat
    BY <1>2, StampsAreFinite DEF Stamps, ChunkSet
  <2>2. IsFiniteSet(b.order \ Stamps(b.states[t].chunks))
    BY <1>1, FS_Difference
  <2>3. IsFiniteSet((b.order \ Stamps(b.states[t].chunks)) \cup Stamps(s2.chunks))
    BY <2>1, <2>2, FS_Union
  <2> QED BY <1>1, <2>1, <2>3
<1>9. ASSUME NEW c \in AllChunks(b2), NEW d \in AllChunks(b2), c.at = d.at PROVE c = d
  <2>1. CASE c \in s2.chunks /\ d \in s2.chunks
    BY <1>9, <2>1 DEF SoundState, InOrder
  <2>2. ASSUME c \notin s2.chunks, d \notin s2.chunks PROVE c = d
    <3>1. c \in AllChunks(b) /\ d \in AllChunks(b)
      BY <1>6, <2>2, ChunksOfBuffer
    <3> QED BY <1>1, <1>9, <3>1
  <2>3. ASSUME c \in s2.chunks, d \notin s2.chunks PROVE FALSE
    <3>1. PICK u \in Terminals \ {t} : d \in b.states[u].chunks
      BY <1>6, <2>3
    <3> QED BY <1>9, <2>3, <3>1 DEF Stamps
  <2>4. ASSUME c \notin s2.chunks, d \in s2.chunks PROVE FALSE
    <3>1. PICK u \in Terminals \ {t} : c \in b.states[u].chunks
      BY <1>6, <2>4
    <3> QED BY <1>9, <2>4, <3>1 DEF Stamps
  <2> QED BY <2>1, <2>2, <2>3, <2>4
<1>10. b2 \in [states: [Terminals -> HistoryState], order: SUBSET Nat, bytes: Nat, lines: Nat]
  <2>1. b2.bytes \in Nat /\ b2.lines \in Nat
    BY <1>2, <1>3, <1>5, StateLinesType DEF HistoryState
  <2>2. b2 = [states |-> b2.states, order |-> b2.order, bytes |-> b2.bytes, lines |-> b2.lines]
    BY <1>3
  <2> QED BY <1>4, <1>8, <2>1, <2>2
<1> QED BY <1>1, <1>4, <1>5, <1>7, <1>8, <1>9, <1>10 DEF SoundBuffer

\* Terminals only lose chunks, and what counts of them does not grow.
Shrinks(b, b2) ==
    /\ b2.order \subseteq b.order
    /\ \A t \in Terminals :
         LET s == b.states[t]  s2 == b2.states[t] IN
         /\ s2.registered = s.registered /\ s2.session = s.session /\ s2.size = s.size
         /\ s2.lastSeq = s.lastSeq /\ s2.pending = s.pending
         /\ s2.bytes <= s.bytes /\ StateLines(s2) <= StateLines(s)
         /\ Cardinality(s2.chunks) <= Cardinality(s.chunks)
         /\ s.chunks = {} => s2.chunks = {}

Good(b, l) == SoundBuffer(b) /\ \A t \in Terminals : Mirrors(b.states[t], l[t])

\* s2 is what Settle makes of raw, and lacks those bytes and chunks.
Settles(b, t, raw, s2, bytes, gone) ==
    /\ b.states[t].registered
    /\ s2 = PruneResizes([raw EXCEPT !.truncated = TRUE])
    /\ StateLines(raw) = StateLines(s2)
    /\ SoundState(s2) /\ Remains(b.states[t], s2) /\ \A c \in s2.chunks : c.terminal = t
    /\ bytes \in Nat /\ bytes <= b.states[t].bytes
    /\ s2.bytes = b.states[t].bytes - bytes
    /\ StateLines(s2) <= StateLines(b.states[t])
    /\ gone \subseteq Stamps(b.states[t].chunks)
    /\ Stamps(s2.chunks) = Stamps(b.states[t].chunks) \ gone

Settled(b, t, s2, bytes, gone, b2) ==
    /\ SoundBuffer(b2)
    /\ b2.states = [b.states EXCEPT ![t] = s2]
    /\ b2.order = b.order \ gone
    /\ b2.bytes = b.bytes - bytes

LEMMA SettleIsSound ==
    ASSUME NEW b, SoundBuffer(b), NEW t \in Terminals,
           NEW raw, NEW s2, NEW bytes, NEW gone, Settles(b, t, raw, s2, bytes, gone)
    PROVE  Settled(b, t, s2, bytes, gone, Settle(b, t, raw, bytes, gone))
<1> DEFINE b2 == Settle(b, t, raw, bytes, gone)
           s == b.states[t]
<1>0. /\ s.registered
      /\ s2 = PruneResizes([raw EXCEPT !.truncated = TRUE])
      /\ StateLines(raw) = StateLines(s2)
      /\ SoundState(s2) /\ Remains(s, s2) /\ \A c \in s2.chunks : c.terminal = t
      /\ bytes \in Nat /\ bytes <= s.bytes /\ s2.bytes = s.bytes - bytes
      /\ StateLines(s2) <= StateLines(s)
      /\ gone \subseteq Stamps(s.chunks)
      /\ Stamps(s2.chunks) = Stamps(s.chunks) \ gone
  BY DEF Settles
<1>1. /\ b.states \in [Terminals -> HistoryState]
      /\ \A u \in Terminals : SoundState(b.states[u])
      /\ b.order = Stamps(AllChunks(b))
      /\ \A u \in Terminals : \A c \in b.states[u].chunks : c.terminal = u
      /\ \A c, d \in AllChunks(b) : c.at = d.at => c = d
  BY DEF SoundBuffer
<1>2. s \in HistoryState /\ s2 \in HistoryState /\ s.bytes \in Nat /\ s2.bytes \in Nat
      /\ StateLines(s) \in Nat /\ StateLines(s2) \in Nat
  BY <1>0, <1>1, StateLinesType DEF SoundState, HistoryState
<1>3. b.bytes \in Nat /\ b.bytes - s.bytes \in Nat /\ b.lines \in Nat /\ b.lines - StateLines(s) \in Nat
  <2> DEFINE x == [states |-> [b.states EXCEPT ![t] = s2]]
  <2>1. x.states = [b.states EXCEPT ![t] = s2]
    OBVIOUS
  <2> HIDE DEF x
  <2> QED BY <1>2, <2>1, TotalsChange
<1>4. b2 = [states |-> [b.states EXCEPT ![t] = s2], order |-> b.order \ gone,
            bytes |-> Less(b.bytes, bytes), lines |-> Less(b.lines, StateLines(s) - StateLines(s2))]
  BY <1>0 DEF Settle
<1>5. /\ Less(b.bytes, bytes) = b.bytes - s.bytes + s2.bytes
      /\ Less(b.bytes, bytes) = b.bytes - bytes
  <2>1. bytes <= b.bytes
    BY <1>0, <1>2, <1>3
  <2>2. Less(b.bytes, bytes) = b.bytes - bytes
    BY <1>0, <1>3, <2>1, LessIsMinus
  <2> QED BY <1>0, <1>2, <1>3, <2>2
<1>6. Less(b.lines, StateLines(s) - StateLines(s2)) = b.lines - StateLines(s) + StateLines(s2)
  <2>1. StateLines(s) - StateLines(s2) \in Nat /\ StateLines(s) - StateLines(s2) <= b.lines
    BY <1>0, <1>2, <1>3
  <2>2. Less(b.lines, StateLines(s) - StateLines(s2)) = b.lines - (StateLines(s) - StateLines(s2))
    BY <1>3, <2>1, LessIsMinus
  <2> QED BY <1>2, <1>3, <2>2
<1>7. \A u \in Terminals \ {t} : \A d \in b.states[u].chunks : d.at \notin Stamps(s.chunks)
  <2>1. SUFFICES ASSUME NEW u \in Terminals \ {t}, NEW d \in b.states[u].chunks,
                        NEW c \in s.chunks, c.at = d.at
                 PROVE  FALSE
    BY DEF Stamps
  <2>2. c = d
    BY <1>1, <2>1, ChunksOfBuffer
  <2> QED BY <1>1, <2>1, <2>2
<1>8. b.order \ gone = (b.order \ Stamps(s.chunks)) \cup Stamps(s2.chunks)
  <2>1. Stamps(s.chunks) \subseteq b.order
    BY <1>1, ChunksOfBuffer DEF Stamps
  <2> QED BY <1>0, <2>1
<1>9. b2.states = [b.states EXCEPT ![t] = s2] /\ b2.order = b.order \ gone
      /\ b2.bytes = b.bytes - bytes
  BY <1>4, <1>5
<1>10. SoundBuffer(b2)
  <2>1. b2 = [states |-> [b.states EXCEPT ![t] = s2], order |-> b2.order,
              bytes |-> b.bytes - s.bytes + s2.bytes,
              lines |-> b.lines - StateLines(s) + StateLines(s2)]
    BY <1>4, <1>5, <1>6
  <2>2. s2.registered
    BY <1>0 DEF Remains
  <2>3. \A u \in Terminals \ {t} : \A d \in b.states[u].chunks : d.at \notin Stamps(s2.chunks)
    BY <1>0, <1>7
  <2>4. b2.order = (b.order \ Stamps(s.chunks)) \cup Stamps(s2.chunks)
    BY <1>8, <1>9
  <2>5. SoundState(s2) /\ \A c \in s2.chunks : c.terminal = t
    BY <1>0
  <2> HIDE DEF b2
  <2> QED BY <2>1, <2>2, <2>3, <2>4, <2>5, BufferChanges
<1> QED BY <1>9, <1>10 DEF Settled

\* When nothing of the chunk is left, trimming is eviction.
LEMMA TrimmedAway ==
    ASSUME NEW b, NEW c \in ChunkSet,
           c.bytes = c.text.length, c.lineBreaks = Cardinality(c.text.breaks),
           NEW n \in Nat \ {0}, n <= c.lineBreaks, IsEmpty(Kept(c, n).text)
    PROVE  Trim(b, c, n) = Evict(b, c)
<1> DEFINE s == b.states[c.terminal]
           cut == AfterLines(c.text, n)
<1>1. /\ Kept(c, n) \in ChunkSet /\ cut \in Nat
      /\ Kept(c, n).bytes = Kept(c, n).text.length /\ Kept(c, n).bytes = c.bytes - cut
      /\ Kept(c, n).lineBreaks = Cardinality(Kept(c, n).text.breaks)
      /\ Kept(c, n).lineBreaks = c.lineBreaks - n
      /\ ~IsEmpty(c.text)
  BY KeptChunk
<1>2. c.bytes \in Nat /\ c.lineBreaks \in Nat
  BY DEF ChunkSet
<1>3. cut = c.bytes
  BY <1>1, <1>2 DEF IsEmpty
<1>4. n = c.lineBreaks
  <2>1. Kept(c, n).text \in Texts /\ Kept(c, n).text.length = 0
    BY <1>1 DEF ChunkSet, IsEmpty
  <2>2. Kept(c, n).text.breaks \subseteq 1 .. 0
    BY <2>1 DEF Texts
  <2>3. Kept(c, n).text.breaks = {}
    BY <2>2
  <2>4. Cardinality(Kept(c, n).text.breaks) = 0
    BY <2>3, FS_EmptySet
  <2>5. c.lineBreaks - n = 0
    BY <1>1, <2>4
  <2> QED BY <1>2, <2>5
<1>5. Trim(b, c, n) = Settle(b, c.terminal,
                        Forget([s EXCEPT !.bytes = Less(@, cut), !.lineBreaks = Less(@, n)], c),
                        cut, {c.at})
  <2>1. [c EXCEPT !.text = TextFrom(@, AfterLines(c.text, n)),
                  !.bytes = Less(@, AfterLines(c.text, n)),
                  !.lineBreaks = Less(@, n)] = Kept(c, n)
    BY DEF Kept
  <2> QED BY <2>1 DEF Trim
<1> QED BY <1>3, <1>4, <1>5 DEF Evict

\* One round, whatever the limits: a chunk or a byte goes, and all is sound.
LEMMA ShedIsSound ==
    ASSUME NEW b, NEW l \in [Terminals -> Logs], Good(b, l),
           NEW t \in Terminals, NEW c \in b.states[t].chunks,
           \A d \in b.states[t].chunks : c.at <= d.at,
           NEW lines \in Nat, NEW limit \in Nat
    PROVE  LET b2 == Shed(b, c, lines, limit) IN
           /\ Good(b2, l) /\ Shrinks(b, b2)
           /\ b.bytes \in Nat /\ b2.bytes \in Nat
           /\ Cardinality(b.order) \in Nat /\ Cardinality(b2.order) \in Nat
           /\ Cardinality(b2.order) + b2.bytes < Cardinality(b.order) + b.bytes
<1> DEFINE s == b.states[t]
           excess == Less(lines, limit)
<1>1. /\ b.states \in [Terminals -> HistoryState] /\ b.bytes \in Nat
      /\ SoundState(s) /\ s \in HistoryState /\ IsFiniteSet(s.chunks)
      /\ \A d \in s.chunks : d.terminal = t
      /\ ~s.registered => s = Absent
      /\ b.order = Stamps(AllChunks(b)) /\ IsFiniteSet(b.order)
      /\ SoundBuffer(b) /\ \A u \in Terminals : Mirrors(b.states[u], l[u])
  BY DEF Good, SoundBuffer, SoundState
<1>2. /\ c \in ChunkSet /\ c.terminal = t
      /\ c.bytes = c.text.length /\ c.lineBreaks = Cardinality(c.text.breaks)
      /\ c.bytes \in Nat /\ c.lineBreaks \in Nat
  BY <1>1 DEF SoundState, HistoryState, Counted, ChunkSet
<1>3. s.registered
  BY <1>1 DEF Absent, NewState
<1>4. Cardinality(b.order) \in Nat /\ c.at \in b.order /\ Cardinality(s.chunks) \in Nat
  BY <1>1, ChunksOfBuffer, FS_CardinalityType DEF Stamps
<1>5. \A u \in Terminals : StateLines(b.states[u]) \in Nat /\ b.states[u].bytes \in Nat
                           /\ Cardinality(b.states[u].chunks) \in Nat
  <2>1. \A u \in Terminals : b.states[u] \in HistoryState /\ IsFiniteSet(b.states[u].chunks)
    BY <1>1 DEF SoundBuffer, SoundState
  <2> QED BY <2>1, StateLinesType, FS_CardinalityType DEF HistoryState
<1>6. ASSUME NEW b2, NEW s2, SoundBuffer(b2), Mirrors(s2, l[t]), Remains(s, s2),
             b2.states = [b.states EXCEPT ![t] = s2],
             s2.bytes <= s.bytes, StateLines(s2) <= StateLines(s),
             Cardinality(s2.chunks) <= Cardinality(s.chunks), b2.order \subseteq b.order
      PROVE  /\ Good(b2, l) /\ Shrinks(b, b2)
             /\ b2.bytes \in Nat /\ Cardinality(b2.order) \in Nat
  <2>1. \A u \in Terminals : b2.states[u] = IF u = t THEN s2 ELSE b.states[u]
    BY <1>1, <1>6
  <2>2. Good(b2, l)
    BY <1>1, <1>6, <2>1 DEF Good
  <2>3. Shrinks(b, b2)
    <3>1. ASSUME NEW u \in Terminals
          PROVE  LET x == b.states[u]  y == b2.states[u] IN
                 /\ y.registered = x.registered /\ y.session = x.session /\ y.size = x.size
                 /\ y.lastSeq = x.lastSeq /\ y.pending = x.pending
                 /\ y.bytes <= x.bytes /\ StateLines(y) <= StateLines(x)
                 /\ Cardinality(y.chunks) <= Cardinality(x.chunks)
                 /\ x.chunks = {} => y.chunks = {}
      <4>1. CASE u = t
        <5>1. s.chunks # {}
          OBVIOUS
        <5> QED BY <1>6, <2>1, <4>1, <5>1 DEF Remains
      <4>2. CASE u # t
        <5>1. b2.states[u] = b.states[u]
          BY <2>1, <4>2
        <5> QED BY <1>5, <5>1
      <4> QED BY <4>1, <4>2
    <3> QED BY <1>6, <3>1 DEF Shrinks
  <2>4. b2.bytes \in Nat /\ IsFiniteSet(b2.order)
    BY <1>6 DEF SoundBuffer
  <2> QED BY <2>2, <2>3, <2>4, FS_CardinalityType
<1>7. LET b2 == Evict(b, c) IN
      /\ Good(b2, l) /\ Shrinks(b, b2)
      /\ b2.bytes \in Nat /\ Cardinality(b2.order) \in Nat
      /\ Cardinality(b2.order) + b2.bytes < Cardinality(b.order) + b.bytes
  <2> DEFINE s2 == EvictedState(s, c)
             raw == Forget([s EXCEPT !.bytes = Less(@, c.bytes),
                                     !.lineBreaks = Less(@, c.lineBreaks)], c)
             b2 == Evict(b, c)
  <2>1. /\ SoundState(s2) /\ s2.bytes = s.bytes - c.bytes /\ c.bytes <= s.bytes
        /\ StateLines(s2) <= StateLines(s)
    BY <1>1, EvictionIsSound
  <2>2. /\ s2 = PruneResizes([raw EXCEPT !.truncated = TRUE])
        /\ StateLines(raw) = StateLines(s2)
        /\ b2 = Settle(b, t, raw, c.bytes, {c.at})
    BY <1>1, <1>2 DEF EvictedState, PruneResizes, Forget, HistoryState, StateLines, Evict
  <2>3. s2.chunks = s.chunks \ {c} /\ Remains(s, s2)
    BY <1>1, EvictedFields
  <2>4. Mirrors(s2, l[t])
    BY <1>1, EvictionMirrors
  <2> HIDE DEF s2, raw
  <2>5. {c.at} \subseteq Stamps(s.chunks) /\ Stamps(s2.chunks) = Stamps(s.chunks) \ {c.at}
    BY <1>1, <2>3 DEF Stamps, SoundState, InOrder
  <2>6. \A d \in s2.chunks : d.terminal = t
    BY <1>1, <2>3
  <2>7. /\ SoundBuffer(b2) /\ b2.states = [b.states EXCEPT ![t] = s2]
        /\ b2.order = b.order \ {c.at} /\ b2.bytes = b.bytes - c.bytes
    <3>1. Settles(b, t, raw, s2, c.bytes, {c.at})
      BY <1>1, <1>2, <1>3, <2>1, <2>2, <2>3, <2>5, <2>6 DEF Settles
    <3>2. Settled(b, t, s2, c.bytes, {c.at}, Settle(b, t, raw, c.bytes, {c.at}))
      BY <1>1, <3>1, SettleIsSound
    <3> QED BY <2>2, <3>2 DEF Settled
  <2>8. Cardinality(s2.chunks) <= Cardinality(s.chunks)
    <3>1. s2.chunks \in SUBSET s.chunks
      BY <2>3
    <3> QED BY <1>1, <3>1, FS_Subset
  <2>9. s2.bytes <= s.bytes
    BY <1>2, <1>5, <2>1
  <2> HIDE DEF b2
  <2>10. /\ Good(b2, l) /\ Shrinks(b, b2)
         /\ b2.bytes \in Nat /\ Cardinality(b2.order) \in Nat
    BY <1>6, <2>1, <2>3, <2>4, <2>7, <2>8, <2>9
  <2>11. Cardinality(b2.order) = Cardinality(b.order) - 1
    <3>1. IsFiniteSet(b.order) /\ c.at \in b.order /\ b2.order = b.order \ {c.at}
      BY <1>1, <1>4, <2>7
    <3>2. Cardinality(b.order \ {c.at}) = Cardinality(b.order) - 1
      BY <3>1, FS_RemoveElement
    <3> QED BY <3>1, <3>2
  <2> QED BY <1>1, <1>2, <1>4, <2>7, <2>10, <2>11 DEF b2
<1>8. ASSUME NEW n \in Nat \ {0}, n <= c.lineBreaks
      PROVE  LET b2 == Trim(b, c, n) IN
             /\ Good(b2, l) /\ Shrinks(b, b2)
             /\ b2.bytes \in Nat /\ Cardinality(b2.order) \in Nat
             /\ Cardinality(b2.order) + b2.bytes < Cardinality(b.order) + b.bytes
  <2>1. CASE IsEmpty(Kept(c, n).text)
    <3>1. Trim(b, c, n) = Evict(b, c)
      BY <1>2, <1>8, <2>1, TrimmedAway
    <3> QED BY <1>7, <3>1
  <2>2. CASE ~IsEmpty(Kept(c, n).text)
    <3> DEFINE s2 == TrimmedState(s, c, n)
               cut == AfterLines(c.text, n)
               raw == [[s EXCEPT !.bytes = Less(@, cut), !.lineBreaks = Less(@, n)]
                         EXCEPT !.chunks = (@ \ {c}) \cup {Kept(c, n)}]
               b2 == Trim(b, c, n)
    <3>1. /\ SoundState(s2) /\ s2.bytes = s.bytes - cut /\ cut <= s.bytes
          /\ StateLines(s2) <= StateLines(s)
      BY <1>1, <1>8, <2>2, TrimmingIsSound
    <3>2. s2 = PruneResizes([raw EXCEPT !.truncated = TRUE])
      BY DEF TrimmedState
    <3>3. StateLines(raw) = StateLines(s2)
      BY <1>1 DEF TrimmedState, PruneResizes, HistoryState, StateLines
    <3>4. b2 = Settle(b, t, raw, cut, {})
      <4>1. [c EXCEPT !.text = TextFrom(@, AfterLines(c.text, n)),
                      !.bytes = Less(@, AfterLines(c.text, n)),
                      !.lineBreaks = Less(@, n)] = Kept(c, n)
        BY DEF Kept
      <4> QED BY <1>2, <2>2, <4>1 DEF Trim
    <3>5. s2.chunks = (s.chunks \ {c}) \cup {Kept(c, n)} /\ Remains(s, s2)
      BY <1>1, TrimmedFields
    <3>6. Mirrors(s2, l[t])
      BY <1>1, <1>8, <2>2, TrimmingMirrors
    <3>7. /\ Kept(c, n).at = c.at /\ Kept(c, n).terminal = c.terminal
          /\ cut \in Nat \ {0}
      BY <1>2, <1>8, KeptChunk
    <3> HIDE DEF s2, raw, cut
    <3>8. {} \subseteq Stamps(s.chunks) /\ Stamps(s2.chunks) = Stamps(s.chunks) \ {}
      BY <3>5, <3>7 DEF Stamps
    <3>9. \A d \in s2.chunks : d.terminal = t
      BY <1>1, <1>2, <3>5, <3>7
    <3>10. /\ SoundBuffer(b2) /\ b2.states = [b.states EXCEPT ![t] = s2]
           /\ b2.order = b.order \ {} /\ b2.bytes = b.bytes - cut
      <4>1. Settles(b, t, raw, s2, cut, {})
        BY <1>1, <1>3, <3>1, <3>2, <3>3, <3>5, <3>7, <3>8, <3>9 DEF Settles
      <4>2. Settled(b, t, s2, cut, {}, Settle(b, t, raw, cut, {}))
        BY <1>1, <4>1, SettleIsSound
      <4> QED BY <3>4, <4>2 DEF Settled
    <3>11. Cardinality(s2.chunks) <= Cardinality(s.chunks)
      <4>1. /\ IsFiniteSet(s.chunks \ {c})
            /\ Cardinality(s.chunks \ {c}) = Cardinality(s.chunks) - 1
        BY <1>1, FS_RemoveElement
      <4>2. Cardinality(s2.chunks) = IF Kept(c, n) \in s.chunks \ {c}
                                     THEN Cardinality(s.chunks \ {c})
                                     ELSE Cardinality(s.chunks \ {c}) + 1
        <5> DEFINE S == s.chunks \ {c}
                   k == Kept(c, n)
        <5>1. s2.chunks = S \cup {k} /\ IsFiniteSet(S)
          BY <3>5, <4>1
        <5> HIDE DEF s2, raw, b2, cut, S, k
        <5>2. Cardinality(S \cup {k})
                = IF k \in S THEN Cardinality(S) ELSE Cardinality(S) + 1
          BY <5>1, FS_AddElement
        <5> QED BY <5>1, <5>2 DEF S, k
      <4>3. \/ Cardinality(s2.chunks) = Cardinality(s.chunks) - 1
            \/ Cardinality(s2.chunks) = Cardinality(s.chunks) - 1 + 1
        BY <4>1, <4>2
      <4> QED BY <1>4, <4>3
    <3>12. s2.bytes <= s.bytes
      BY <1>5, <3>1, <3>7
    <3> HIDE DEF b2
    <3>13. /\ Good(b2, l) /\ Shrinks(b, b2)
           /\ b2.bytes \in Nat /\ Cardinality(b2.order) \in Nat
      BY <1>6, <3>1, <3>5, <3>6, <3>10, <3>11, <3>12
    <3>14. b2.order = b.order
      BY <3>10
    <3> QED BY <1>1, <1>4, <3>7, <3>10, <3>13, <3>14 DEF b2
  <2> QED BY <2>1, <2>2
<1>9. CASE excess > 0 /\ c.lineBreaks >= excess
  <2>1. excess \in Nat \ {0} /\ excess <= c.lineBreaks
    BY <1>2, <1>9 DEF Less
  <2>2. Shed(b, c, lines, limit) = Trim(b, c, excess)
    BY <1>9 DEF Shed
  <2> HIDE DEF excess
  <2> QED BY <1>1, <1>4, <1>8, <2>1, <2>2
<1>10. CASE ~(excess > 0 /\ c.lineBreaks >= excess)
  <2>1. Shed(b, c, lines, limit) = Evict(b, c)
    BY <1>10 DEF Shed
  <2> QED BY <1>1, <1>4, <1>7, <2>1
<1> QED BY <1>9, <1>10

-----------------------------------------------------------------------------
(* The loops over the limits. *)

\* What every round lowers.
SizeOf(b) == Cardinality(b.order) + b.bytes

LEMMA GoodTypes ==
    ASSUME NEW b, SoundBuffer(b)
    PROVE  /\ b.bytes \in Nat /\ b.lines \in Nat /\ Cardinality(b.order) \in Nat /\ SizeOf(b) \in Nat
           /\ b.states \in [Terminals -> HistoryState]
           /\ \A t \in Terminals :
                /\ b.states[t].bytes \in Nat /\ StateLines(b.states[t]) \in Nat
                /\ IsFiniteSet(b.states[t].chunks) /\ Cardinality(b.states[t].chunks) \in Nat
                /\ b.states[t].chunks \in SUBSET ChunkSet
<1>1. /\ b \in [states: [Terminals -> HistoryState], order: SUBSET Nat, bytes: Nat, lines: Nat]
      /\ IsFiniteSet(b.order)
      /\ \A t \in Terminals : SoundState(b.states[t])
  BY DEF SoundBuffer
<1>2. Cardinality(b.order) \in Nat /\ b.bytes \in Nat /\ b.lines \in Nat
  BY <1>1, FS_CardinalityType
<1>3. ASSUME NEW t \in Terminals
      PROVE  /\ b.states[t].bytes \in Nat /\ StateLines(b.states[t]) \in Nat
             /\ IsFiniteSet(b.states[t].chunks) /\ Cardinality(b.states[t].chunks) \in Nat
             /\ b.states[t].chunks \in SUBSET ChunkSet
  <2>1. b.states[t] \in HistoryState /\ IsFiniteSet(b.states[t].chunks)
    BY <1>1 DEF SoundState
  <2> QED BY <2>1, StateLinesType, FS_CardinalityType DEF HistoryState
<1> QED BY <1>1, <1>2, <1>3 DEF SizeOf

LEMMA ShrinksNot ==
    ASSUME NEW b, SoundBuffer(b)
    PROVE  Shrinks(b, b)
BY GoodTypes DEF Shrinks

LEMMA ShrinksTwice ==
    ASSUME NEW b, SoundBuffer(b), NEW b2, SoundBuffer(b2), NEW b3, SoundBuffer(b3),
           Shrinks(b, b2), Shrinks(b2, b3)
    PROVE  Shrinks(b, b3)
<1>1. b3.order \subseteq b.order
  BY DEF Shrinks
<1>2. ASSUME NEW t \in Terminals
      PROVE  LET s == b.states[t]  s2 == b3.states[t] IN
             /\ s2.registered = s.registered /\ s2.session = s.session /\ s2.size = s.size
             /\ s2.lastSeq = s.lastSeq /\ s2.pending = s.pending
             /\ s2.bytes <= s.bytes /\ StateLines(s2) <= StateLines(s)
             /\ Cardinality(s2.chunks) <= Cardinality(s.chunks)
             /\ s.chunks = {} => s2.chunks = {}
  <2> DEFINE x == b.states[t]
             y == b2.states[t]
             z == b3.states[t]
  <2>1. /\ x.bytes \in Nat /\ y.bytes \in Nat /\ z.bytes \in Nat
        /\ StateLines(x) \in Nat /\ StateLines(y) \in Nat /\ StateLines(z) \in Nat
        /\ Cardinality(x.chunks) \in Nat /\ Cardinality(y.chunks) \in Nat
        /\ Cardinality(z.chunks) \in Nat
    BY GoodTypes
  <2>2. /\ y.registered = x.registered /\ y.session = x.session /\ y.size = x.size
        /\ y.lastSeq = x.lastSeq /\ y.pending = x.pending
        /\ y.bytes <= x.bytes /\ StateLines(y) <= StateLines(x)
        /\ Cardinality(y.chunks) <= Cardinality(x.chunks)
        /\ x.chunks = {} => y.chunks = {}
    BY DEF Shrinks
  <2>3. /\ z.registered = y.registered /\ z.session = y.session /\ z.size = y.size
        /\ z.lastSeq = y.lastSeq /\ z.pending = y.pending
        /\ z.bytes <= y.bytes /\ StateLines(z) <= StateLines(y)
        /\ Cardinality(z.chunks) <= Cardinality(y.chunks)
        /\ y.chunks = {} => z.chunks = {}
    BY DEF Shrinks
  <2> HIDE DEF x, y, z
  <2>4. /\ z.registered = x.registered /\ z.session = x.session /\ z.size = x.size
        /\ z.lastSeq = x.lastSeq /\ z.pending = x.pending
        /\ z.bytes <= x.bytes /\ StateLines(z) <= StateLines(x)
        /\ Cardinality(z.chunks) <= Cardinality(x.chunks)
        /\ x.chunks = {} => z.chunks = {}
    BY <2>1, <2>2, <2>3
  <2> QED BY <2>4 DEF x, y, z
<1> QED BY <1>1, <1>2 DEF Shrinks

\* Nothing is left to do for the limits of the terminals ts and the totals.
Stable(b, ts, limit) ==
    /\ \A t \in ts : ~OverOwn(b.states[t], limit)
    /\ ~OverAll(b, limit)

LEMMA StableStays ==
    ASSUME NEW b, NEW ts, NEW limit, Stable(b, ts, limit)
    PROVE  Round(b, ts, limit) = b
BY DEF Round, Stable

LEMMA RoundIsSound ==
    ASSUME NEW b, NEW l \in [Terminals -> Logs], Good(b, l),
           NEW ts \in SUBSET Terminals, NEW limit \in Nat
    PROVE  LET b2 == Round(b, ts, limit) IN
           /\ Good(b2, l) /\ Shrinks(b, b2)
           /\ SizeOf(b2) < SizeOf(b) \/ Stable(b, ts, limit)
<1>1. /\ SoundBuffer(b) /\ b.order = Stamps(AllChunks(b))
      /\ \A t \in Terminals : b.states[t].chunks \in SUBSET ChunkSet
      /\ b.lines \in Nat /\ \A t \in Terminals : StateLines(b.states[t]) \in Nat
  BY GoodTypes DEF Good, SoundBuffer
<1>2. ASSUME NEW t \in Terminals, NEW c \in b.states[t].chunks,
             \A d \in b.states[t].chunks : c.at <= d.at, NEW lines \in Nat, NEW n \in Nat,
             Round(b, ts, limit) = Shed(b, c, lines, n)
      PROVE  /\ Good(Round(b, ts, limit), l) /\ Shrinks(b, Round(b, ts, limit))
             /\ SizeOf(Round(b, ts, limit)) < SizeOf(b)
  <2>1. /\ Good(Shed(b, c, lines, n), l) /\ Shrinks(b, Shed(b, c, lines, n))
        /\ SizeOf(Shed(b, c, lines, n)) < SizeOf(b)
    BY <1>2, ShedIsSound DEF SizeOf
  <2> QED BY <1>2, <2>1
<1>3. CASE \E t \in ts : OverOwn(b.states[t], limit)
  <2> DEFINE t == CHOOSE t \in ts : OverOwn(b.states[t], limit)
             c == Oldest(b.states[t].chunks)
  <2>1. t \in ts /\ OverOwn(b.states[t], limit)
    BY <1>3
  <2>2. Round(b, ts, limit) = Shed(b, c, StateLines(b.states[t]), limit)
    BY <1>3 DEF Round
  <2> HIDE DEF t
  <2>3. t \in Terminals /\ b.states[t].chunks # {}
        /\ \A d \in b.states[t].chunks : d.at \in Nat
    BY <1>1, <2>1 DEF OverOwn, ChunkSet
  <2>4. c \in b.states[t].chunks /\ \A d \in b.states[t].chunks : c.at <= d.at
    BY <2>3, OldestIsFirst
  <2> HIDE DEF c
  <2> QED BY <1>1, <1>2, <2>2, <2>3, <2>4
<1>4. CASE (\A t \in ts : ~OverOwn(b.states[t], limit)) /\ OverAll(b, limit)
  <2> DEFINE S == {c \in AllChunks(b) : c.at \in b.order}
             c == Oldest(S)
  <2>1. Round(b, ts, limit) = Shed(b, c, b.lines, limit * Multiplier)
    BY <1>4 DEF Round
  <2>2. S = AllChunks(b) /\ S # {}
    BY <1>1, <1>4 DEF OverAll, Stamps
  <2>3. \A d \in S : d.at \in Nat
    BY <1>1, ChunksOfBuffer DEF ChunkSet
  <2> HIDE DEF S
  <2>4. c \in S /\ \A d \in S : c.at <= d.at
    BY <2>2, <2>3, OldestIsFirst
  <2> HIDE DEF c
  <2>5. PICK t \in Terminals : c \in b.states[t].chunks
    BY <2>2, <2>4, ChunksOfBuffer
  <2>6. \A d \in b.states[t].chunks : c.at <= d.at
    BY <2>2, <2>4, ChunksOfBuffer
  <2>7. limit * Multiplier \in Nat
    BY HistoryAssumption DEF HistoryAssumption
  <2> QED BY <1>1, <1>2, <2>1, <2>5, <2>6, <2>7
<1>5. CASE (\A t \in ts : ~OverOwn(b.states[t], limit)) /\ ~OverAll(b, limit)
  <2>1. Stable(b, ts, limit)
    BY <1>5 DEF Stable
  <2> QED BY <1>1, <2>1, StableStays, ShrinksNot
<1> QED BY <1>3, <1>4, <1>5

\* Induction, for sets of numbers.
LEMMA AllNumbers ==
    ASSUME NEW T \in SUBSET Nat, 0 \in T, \A n \in T : n + 1 \in T
    PROVE  T = Nat
<1>1. SUFFICES ASSUME T # Nat PROVE FALSE
  OBVIOUS
<1> DEFINE U == Nat \ T
<1>2. U \in SUBSET Nat /\ U # {}
  BY <1>1
<1>3. PICK m \in U : \A k \in U : m <= k
  <2> HIDE DEF U
  <2> QED BY <1>2, LeastNumber
<1>4. m # 0 /\ m - 1 \in Nat /\ ~(m <= m - 1)
  OBVIOUS
<1>5. m - 1 \in T
  BY <1>3, <1>4
<1>6. (m - 1) + 1 \in T
  BY <1>5
<1> QED BY <1>4, <1>6

\* A round of the job: of the loops over the limits, or of the replay's.
Turn(job, x) == IF job.replays THEN Play(x) ELSE Round(x, job.ts, job.limit)

\* The first n rounds.
Rounds(g, n, b, job) ==
    /\ DOMAIN g = 0 .. n
    /\ g[0] = b
    /\ \A i \in 1 .. n : g[i] = Turn(job, g[i - 1])

LEMMA RoundsAgree ==
    ASSUME NEW b, NEW job, NEW g, NEW h, NEW m \in Nat, NEW n \in Nat, m <= n,
           Rounds(g, m, b, job), Rounds(h, n, b, job)
    PROVE  \A i \in 0 .. m : g[i] = h[i]
<1> DEFINE T == {i \in Nat : i <= m => g[i] = h[i]}
<1>1. 0 \in T
  BY DEF Rounds
<1>2. ASSUME NEW i \in T PROVE i + 1 \in T
  <2>1. ASSUME i + 1 <= m PROVE g[i + 1] = h[i + 1]
    <3>1. i \in Nat /\ i + 1 \in 1 .. m /\ i + 1 \in 1 .. n /\ (i + 1) - 1 = i /\ i <= m
      BY <2>1
    <3>2. g[i + 1] = Turn(job, g[i])
      <4>1. g[i + 1] = Turn(job, g[(i + 1) - 1])
        BY <3>1 DEF Rounds
      <4> QED BY <3>1, <4>1
    <3>3. h[i + 1] = Turn(job, h[i])
      <4>1. h[i + 1] = Turn(job, h[(i + 1) - 1])
        BY <3>1 DEF Rounds
      <4> QED BY <3>1, <4>1
    <3>4. g[i] = h[i]
      BY <3>1
    <3> QED BY <3>2, <3>3, <3>4
  <2> QED BY <2>1
<1>3. T = Nat
  <2>1. T \in SUBSET Nat
    OBVIOUS
  <2> HIDE DEF T
  <2> QED BY <1>1, <1>2, <2>1, AllNumbers
<1> QED BY <1>3

LEMMA RoundsExist ==
    ASSUME NEW b, NEW job, NEW n \in Nat
    PROVE  \E g : Rounds(g, n, b, job)
<1> DEFINE T == {k \in Nat : \E g : Rounds(g, k, b, job)}
<1>1. 0 \in T
  <2> DEFINE g == [i \in 0 .. 0 |-> b]
  <2>1. Rounds(g, 0, b, job)
    BY DEF Rounds
  <2> HIDE DEF g
  <2> QED BY <2>1
<1>2. ASSUME NEW k \in T PROVE k + 1 \in T
  <2>1. k \in Nat /\ k + 1 \in Nat
    OBVIOUS
  <2>2. PICK g : Rounds(g, k, b, job)
    OBVIOUS
  <2> DEFINE h == [i \in 0 .. (k + 1) |-> IF i = k + 1 THEN Turn(job, g[k]) ELSE g[i]]
  <2>3. DOMAIN h = 0 .. (k + 1) /\ h[0] = b
    BY <2>1, <2>2 DEF Rounds
  <2>4. ASSUME NEW i \in 1 .. (k + 1) PROVE h[i] = Turn(job, h[i - 1])
    <3>1. i - 1 \in 0 .. k /\ i - 1 \in 0 .. (k + 1) /\ i - 1 # k + 1 /\ i \in 0 .. (k + 1)
      BY <2>1
    <3>2. h[i - 1] = g[i - 1]
      BY <3>1
    <3>3. CASE i = k + 1
      <4>1. h[i] = Turn(job, g[k]) /\ i - 1 = k
        BY <2>1, <3>1, <3>3
      <4> QED BY <3>2, <4>1
    <3>4. CASE i # k + 1
      <4>1. i \in 1 .. k /\ h[i] = g[i]
        BY <2>1, <3>1, <3>4
      <4>2. g[i] = Turn(job, g[i - 1])
        BY <2>2, <4>1 DEF Rounds
      <4> QED BY <3>2, <4>1, <4>2
    <3> QED BY <3>3, <3>4
  <2> HIDE DEF h
  <2>5. Rounds(h, k + 1, b, job)
    BY <2>3, <2>4 DEF Rounds
  <2> QED BY <2>1, <2>5
<1>3. T = Nat
  <2>1. T \in SUBSET Nat
    OBVIOUS
  <2> HIDE DEF T
  <2> QED BY <1>1, <1>2, <2>1, AllNumbers
<1> QED BY <1>3

\* The recursive functions of Enforce and Replay exist.
IsAfter(after, b, job) ==
    after = [n \in Nat |-> IF n = 0 THEN b ELSE Turn(job, after[n - 1])]

LEMMA AfterExists ==
    ASSUME NEW b, NEW job
    PROVE  \E after : IsAfter(after, b, job)
<1> DEFINE run(n) == CHOOSE g : Rounds(g, n, b, job)
           after == [n \in Nat |-> run(n)[n]]
<1>1. \A n \in Nat : Rounds(run(n), n, b, job)
  BY RoundsExist
<1> HIDE DEF run
<1>2. ASSUME NEW n \in Nat
      PROVE  after[n] = IF n = 0 THEN b ELSE Turn(job, after[n - 1])
  <2>1. CASE n = 0
    BY <1>1, <2>1 DEF Rounds
  <2>2. CASE n # 0
    <3>1. n - 1 \in Nat /\ n - 1 <= n /\ n \in 1 .. n /\ n - 1 \in 0 .. (n - 1)
      BY <2>2
    <3>2. run(n)[n] = Turn(job, run(n)[n - 1])
      BY <1>1, <3>1 DEF Rounds
    <3>3. Rounds(run(n - 1), n - 1, b, job) /\ Rounds(run(n), n, b, job)
      BY <1>1, <3>1
    <3>4. run(n - 1)[n - 1] = run(n)[n - 1]
      BY <3>1, <3>3, RoundsAgree
    <3>5. after[n] = run(n)[n] /\ after[n - 1] = run(n - 1)[n - 1]
      BY <3>1
    <3> QED BY <2>2, <3>2, <3>4, <3>5
  <2> QED BY <2>1, <2>2
<1>3. DOMAIN after = Nat
  OBVIOUS
<1>4. after = [n \in Nat |-> IF n = 0 THEN b ELSE Turn(job, after[n - 1])]
  <2>1. after = [n \in Nat |-> after[n]]
    OBVIOUS
  <2> HIDE DEF after
  <2> QED BY <1>2, <2>1
<1> HIDE DEF after
<1> QED BY <1>4 DEF IsAfter

LEMMA AfterRounds ==
    ASSUME NEW b, NEW job, NEW after, IsAfter(after, b, job)
    PROVE  after[0] = b /\ \A n \in Nat : after[n + 1] = Turn(job, after[n])
<1>1. \A n \in Nat : after[n] = IF n = 0 THEN b ELSE Turn(job, after[n - 1])
  BY DEF IsAfter
<1>2. ASSUME NEW n \in Nat PROVE after[n + 1] = Turn(job, after[n])
  <2>1. n + 1 \in Nat /\ n + 1 # 0 /\ (n + 1) - 1 = n
    OBVIOUS
  <2>2. after[n + 1] = Turn(job, after[(n + 1) - 1])
    BY <1>1, <2>1
  <2> QED BY <2>1, <2>2
<1> QED BY <1>1, <1>2

\* The loops end, with no limit exceeded, and keep the books.
LEMMA EnforceIsSound ==
    ASSUME NEW b, NEW l \in [Terminals -> Logs], Good(b, l),
           NEW ts \in SUBSET Terminals, NEW limit \in Nat
    PROVE  LET b2 == Enforce(b, ts, limit) IN
           Good(b2, l) /\ Shrinks(b, b2) /\ Stable(b2, ts, limit)
<1> DEFINE job == [replays |-> FALSE, ts |-> ts, limit |-> limit]
<1>1. PICK after : IsAfter(after, b, job) /\ Enforce(b, ts, limit) = after[SizeOf(b)]
  <2> DEFINE f == CHOOSE f : f = [n \in Nat |-> IF n = 0 THEN b ELSE Round(f[n - 1], ts, limit)]
  <2>1. Enforce(b, ts, limit) = f[SizeOf(b)]
    BY DEF Enforce, SizeOf
  <2>2. \A x : Turn(job, x) = Round(x, ts, limit)
    BY DEF Turn
  <2> HIDE DEF job
  <2>3. PICK g : IsAfter(g, b, job)
    BY AfterExists
  <2>4. g = [n \in Nat |-> IF n = 0 THEN b ELSE Round(g[n - 1], ts, limit)]
    BY <2>2, <2>3 DEF IsAfter
  <2>5. f = [n \in Nat |-> IF n = 0 THEN b ELSE Round(f[n - 1], ts, limit)]
    BY <2>4
  <2> HIDE DEF f
  <2>6. IsAfter(f, b, job)
    BY <2>2, <2>5 DEF IsAfter
  <2> QED BY <2>1, <2>6
<1>2. after[0] = b /\ \A n \in Nat : after[n + 1] = Round(after[n], ts, limit)
  <2>1. after[0] = b /\ \A n \in Nat : after[n + 1] = Turn(job, after[n])
    BY <1>1, AfterRounds
  <2> QED BY <2>1 DEF Turn
<1>3. SoundBuffer(b) /\ SizeOf(b) \in Nat
  BY GoodTypes DEF Good
<1> DEFINE T == {n \in Nat : /\ Good(after[n], l) /\ Shrinks(b, after[n])
                             /\ Stable(after[n], ts, limit) \/ SizeOf(after[n]) + n <= SizeOf(b)}
<1>4. 0 \in T
  BY <1>2, <1>3, ShrinksNot
<1>5. ASSUME NEW n \in T PROVE n + 1 \in T
  <2> DEFINE x == after[n]
             y == after[n + 1]
  <2>1. n \in Nat /\ n + 1 \in Nat /\ Good(x, l) /\ Shrinks(b, x) /\ y = Round(x, ts, limit)
        /\ (Stable(x, ts, limit) \/ SizeOf(x) + n <= SizeOf(b))
    BY <1>2
  <2> HIDE DEF x, y, T
  <2>2. /\ Good(y, l) /\ Shrinks(x, y)
        /\ SizeOf(y) < SizeOf(x) \/ Stable(x, ts, limit)
    BY <2>1, RoundIsSound
  <2>3. SoundBuffer(x) /\ SoundBuffer(y) /\ SizeOf(x) \in Nat /\ SizeOf(y) \in Nat
    BY <2>1, <2>2, GoodTypes DEF Good
  <2>4. Shrinks(b, y)
    BY <1>3, <2>1, <2>2, <2>3, ShrinksTwice
  <2>5. Stable(x, ts, limit) => y = x
    BY <2>1, StableStays
  <2>6. Stable(y, ts, limit) \/ SizeOf(y) + (n + 1) <= SizeOf(b)
    BY <1>3, <2>1, <2>2, <2>3, <2>5
  <2> QED BY <2>1, <2>2, <2>4, <2>6 DEF x, y, T
<1>6. T = Nat
  <2>1. T \in SUBSET Nat
    OBVIOUS
  <2> HIDE DEF T
  <2> QED BY <1>4, <1>5, <2>1, AllNumbers
<1> DEFINE e == after[SizeOf(b)]
<1>7. /\ Good(e, l) /\ Shrinks(b, e)
      /\ Stable(e, ts, limit) \/ SizeOf(e) + SizeOf(b) <= SizeOf(b)
  BY <1>3, <1>6
<1> HIDE DEF e
<1>8. ASSUME SizeOf(e) + SizeOf(b) <= SizeOf(b) PROVE Stable(e, ts, limit)
  <2>1. /\ SoundBuffer(e) /\ SizeOf(e) \in Nat /\ Cardinality(e.order) \in Nat /\ e.bytes \in Nat
        /\ IsFiniteSet(e.order) /\ e.order = Stamps(AllChunks(e))
    BY <1>7, GoodTypes DEF Good, SoundBuffer
  <2>2. Cardinality(e.order) = 0
    BY <1>3, <1>8, <2>1 DEF SizeOf
  <2>3. e.order = {}
    BY <2>1, <2>2, FS_EmptySet
  <2>4. \A t \in Terminals : e.states[t].chunks = {}
    BY <2>1, <2>3, ChunksOfBuffer DEF Stamps
  <2> QED BY <2>3, <2>4 DEF Stable, OverOwn, OverAll
<1> QED BY <1>1, <1>7, <1>8 DEF e
-----------------------------------------------------------------------------
(* Changes of one state. *)

\* The chunks and their counts are not touched.
SameChunks(s, s2) ==
    /\ s2.chunks = s.chunks /\ s2.bytes = s.bytes /\ s2.lineBreaks = s.lineBreaks
    /\ s2.textChunks = s.textChunks /\ s2.endsWithNewline = s.endsWithNewline
    /\ s.lastSeq <= s2.lastSeq

LEMMA SameChunksAreSound ==
    ASSUME NEW s, SoundState(s), NEW s2 \in HistoryState, SameChunks(s, s2)
    PROVE  SoundState(s2)
<1>1. /\ s \in HistoryState /\ IsFiniteSet(s.chunks) /\ Counted(s) /\ InOrder(s)
      /\ s.lastSeq \in Nat /\ s2.lastSeq \in Nat
  BY DEF SoundState, HistoryState
<1>2. StateLines(s2) = StateLines(s)
  BY DEF StateLines, SameChunks
<1>3. Counted(s2)
  <2>1. /\ \A c \in s2.chunks : c.bytes = c.text.length /\ c.lineBreaks = Cardinality(c.text.breaks)
        /\ s2.bytes = Lengths(s2.chunks) /\ s2.lineBreaks = Breaks(s2.chunks)
        /\ s2.textChunks = Cardinality(WithText(s2.chunks))
        /\ s2.endsWithNewline <=> EndsWithBreak(s2.chunks)
        /\ StateLines(s2) = Lines(s2.chunks)
    BY <1>1, <1>2 DEF SameChunks, Counted
  <2> QED BY <2>1 DEF Counted
<1>4. InOrder(s2)
  <2>1. \A c \in s2.chunks : c.seq \in 1 .. s2.lastSeq
    BY <1>1 DEF SameChunks, InOrder
  <2>2. s2.chunks = s.chunks
    BY DEF SameChunks
  <2> QED BY <1>1, <2>1, <2>2 DEF InOrder
<1> QED BY <1>1, <1>3, <1>4 DEF SoundState, SameChunks

LEMMA NoChunksAreSound ==
    ASSUME NEW s \in HistoryState, s.chunks = {}, s.bytes = 0, s.lineBreaks = 0,
           s.textChunks = 0, s.endsWithNewline = FALSE
    PROVE  SoundState(s) /\ StateLines(s) = 0
<1>1. StateLines(s) = 0
  BY DEF StateLines
<1>2. Counted(s)
  BY <1>1, SumsOfNone DEF Counted
<1>3. InOrder(s) /\ IsFiniteSet(s.chunks)
  BY FS_EmptySet DEF InOrder
<1> QED BY <1>1, <1>2, <1>3 DEF SoundState

LEMMA EmptyIsSized ==
    ASSUME NEW s, s.chunks = {}, s.size \in AllSizes
    PROVE  Sized(s, NoLog)
<1>1. NoLog.resizes = {}
  BY DEF NoLog
<1>2. SizedFrom(s, NoLog, s.size)
  BY <1>1 DEF SizedFrom, InForce
<1> QED BY <1>2 DEF Sized

LEMMA NewStateIsSound ==
    ASSUME NEW owner \in Sessions \cup {"none"}, NEW size \in AllSizes
    PROVE  /\ SoundState(NewState(owner, size)) /\ NewState(owner, size) \in HistoryState
           /\ StateLines(NewState(owner, size)) = 0
           /\ Mirrors(NewState(owner, size), NoLog)
<1> DEFINE s == NewState(owner, size)
<1>1. /\ s \in HistoryState /\ s.chunks = {} /\ s.bytes = 0 /\ s.lineBreaks = 0
      /\ s.textChunks = 0 /\ s.endsWithNewline = FALSE /\ s.resizes = {} /\ s.size = size
  BY DEF NewState, HistoryState
<1> HIDE DEF s
<1>2. SoundState(s) /\ StateLines(s) = 0
  BY <1>1, NoChunksAreSound
<1>3. Mirrors(s, NoLog)
  <2>1. EndOf(s, NoLog) /\ Complete(s, NoLog) /\ ResizesSince(s, NoLog)
    BY <1>1 DEF EndOf, Complete, ResizesSince, NoLog, Heard
  <2>2. Sized(s, NoLog)
    BY <1>1, EmptyIsSized
  <2> QED BY <2>1, <2>2 DEF Mirrors
<1> QED BY <1>1, <1>2, <1>3 DEF s

LEMMA AbsentIsSound ==
    /\ SoundState(Absent) /\ Absent \in HistoryState /\ Mirrors(Absent, NoLog)
    /\ Absent.bytes = 0 /\ StateLines(Absent) = 0 /\ Absent.chunks = {} /\ ~Absent.registered
    /\ Absent.lastSeq = 0
<1>1. /\ Absent \in HistoryState /\ Absent.chunks = {} /\ Absent.bytes = 0 /\ Absent.lineBreaks = 0
      /\ Absent.textChunks = 0 /\ Absent.endsWithNewline = FALSE /\ Absent.resizes = {}
      /\ ~Absent.registered /\ Absent.lastSeq = 0
  BY DEF Absent, NewState, HistoryState, AllSizes
<1>2. SoundState(Absent) /\ StateLines(Absent) = 0
  BY <1>1, NoChunksAreSound
<1>3. Mirrors(Absent, NoLog)
  <2>1. EndOf(Absent, NoLog) /\ Complete(Absent, NoLog) /\ ResizesSince(Absent, NoLog)
    BY <1>1 DEF EndOf, Complete, ResizesSince, NoLog, Heard
  <2>2. Absent.size \in AllSizes
    BY <1>1 DEF HistoryState
  <2> QED BY <1>1, <2>1, <2>2, EmptyIsSized DEF Mirrors
<1> QED BY <1>1, <1>2, <1>3

LEMMA NoLogIsRecorded ==
    ASSUME NEW s, s.lastSeq = 0, s.registered => s.session \in Sessions
    PROVE  NoLog \in Logs /\ Recorded(s, NoLog)
<1>1. NoLog \in Logs
  BY DEF NoLog, Logs
<1>2. Heard(NoLog) = {} /\ NoLog.resizes = {} /\ IsFiniteSet(NoLog.resizes)
  BY FS_EmptySet DEF NoLog, Heard
<1>3. Numbered(NoLog)
  BY <1>2 DEF Numbered
<1> QED BY <1>1, <1>2, <1>3 DEF Recorded

\* A state that keeps its chunks leaves the totals as they are.
LEMMA QuietChange ==
    ASSUME NEW b, SoundBuffer(b), NEW t \in Terminals,
           NEW s2, SoundState(s2), s2.registered, s2.chunks = b.states[t].chunks
    PROVE  LET b2 == [b EXCEPT !.states[t] = s2] IN
           /\ SoundBuffer(b2)
           /\ b2.states = [b.states EXCEPT ![t] = s2]
           /\ b2.order = b.order /\ b2.bytes = b.bytes /\ b2.lines = b.lines
<1> DEFINE s == b.states[t]
           b2 == [b EXCEPT !.states[t] = s2]
<1>1. /\ b \in [states: [Terminals -> HistoryState], order: SUBSET Nat, bytes: Nat, lines: Nat]
      /\ SoundState(s) /\ \A c \in s.chunks : c.terminal = t
      /\ b.order = Stamps(AllChunks(b))
      /\ \A u \in Terminals : \A c \in b.states[u].chunks : c.terminal = u
      /\ \A c, d \in AllChunks(b) : c.at = d.at => c = d
  BY DEF SoundBuffer
<1>2. /\ b2.states = [b.states EXCEPT ![t] = s2]
      /\ b2.order = b.order /\ b2.bytes = b.bytes /\ b2.lines = b.lines
      /\ b2 = [states |-> [b.states EXCEPT ![t] = s2], order |-> b.order,
               bytes |-> b.bytes, lines |-> b.lines]
  BY <1>1
<1>3. s.bytes = s2.bytes /\ StateLines(s) = StateLines(s2)
  BY <1>1 DEF SoundState, Counted
<1>4. b.bytes \in Nat /\ b.lines \in Nat /\ s.bytes \in Nat /\ StateLines(s) \in Nat
  BY GoodTypes
<1>5. b2 = [states |-> [b.states EXCEPT ![t] = s2], order |-> b2.order,
            bytes |-> b.bytes - s.bytes + s2.bytes,
            lines |-> b.lines - StateLines(s) + StateLines(s2)]
  <2>1. b.bytes = b.bytes - s.bytes + s2.bytes /\ b.lines = b.lines - StateLines(s) + StateLines(s2)
    BY <1>3, <1>4
  <2> QED BY <1>2, <2>1
<1>6. b2.order = (b.order \ Stamps(s.chunks)) \cup Stamps(s2.chunks)
  <2>1. Stamps(s.chunks) \subseteq b.order
    BY <1>1, ChunksOfBuffer DEF Stamps
  <2> QED BY <1>2, <2>1
<1>7. \A u \in Terminals \ {t} : \A d \in b.states[u].chunks : d.at \notin Stamps(s2.chunks)
  <2>1. SUFFICES ASSUME NEW u \in Terminals \ {t}, NEW d \in b.states[u].chunks,
                        NEW c \in s.chunks, c.at = d.at
                 PROVE  FALSE
    BY DEF Stamps
  <2>2. c = d
    BY <1>1, <2>1, ChunksOfBuffer
  <2> QED BY <1>1, <2>1, <2>2
<1>8. \A c \in s2.chunks : c.terminal = t
  BY <1>1
<1>9. SoundBuffer(b2)
  <2> HIDE DEF b2
  <2> QED BY <1>5, <1>6, <1>7, <1>8, BufferChanges
<1> QED BY <1>2, <1>9

\* A terminal is removed with its chunks.
LEMMA RemovalIsSound ==
    ASSUME NEW b, SoundBuffer(b), NEW t \in Terminals
    PROVE  LET b2 == Without(b, t) IN
           /\ SoundBuffer(b2)
           /\ b2.states = [b.states EXCEPT ![t] = Absent]
           /\ b2.order \subseteq b.order /\ b2.bytes <= b.bytes /\ b2.lines <= b.lines
<1> DEFINE s == b.states[t]
           b2 == Without(b, t)
<1>1. /\ b.states \in [Terminals -> HistoryState] /\ SoundState(s) /\ Counted(s)
  BY DEF SoundBuffer, SoundState
<1>2. Total(s.chunks, [c \in s.chunks |-> c.bytes]) = s.bytes
  <2>1. \A c \in s.chunks : c.bytes = c.text.length
    BY <1>1 DEF Counted
  <2>2. Points(s.chunks, [c \in s.chunks |-> c.bytes])
          = Points(s.chunks, [c \in s.chunks |-> c.text.length])
    BY <2>1, PointsSame
  <2> QED BY <1>1, <2>2 DEF Total, Lengths, Counted
<1>3. /\ b.bytes \in Nat /\ b.bytes - s.bytes \in Nat /\ s.bytes \in Nat
      /\ b.lines \in Nat /\ b.lines - StateLines(s) \in Nat /\ StateLines(s) \in Nat
  <2> DEFINE x == [states |-> [b.states EXCEPT ![t] = Absent]]
  <2>1. x.states = [b.states EXCEPT ![t] = Absent] /\ Absent \in HistoryState
    BY AbsentIsSound
  <2> HIDE DEF x
  <2> QED BY <2>1, TotalsChange, GoodTypes
<1>4. /\ Less(b.bytes, s.bytes) = b.bytes - s.bytes
      /\ Less(b.lines, StateLines(s)) = b.lines - StateLines(s)
  BY <1>3 DEF Less
<1>5. b2 = [states |-> [b.states EXCEPT ![t] = Absent], order |-> b.order \ Stamps(s.chunks),
            bytes |-> b.bytes - s.bytes, lines |-> b.lines - StateLines(s)]
  BY <1>2, <1>4 DEF Without, Stamps
<1>6. Absent.bytes = 0 /\ StateLines(Absent) = 0 /\ Absent.chunks = {} /\ SoundState(Absent)
  BY AbsentIsSound
<1>7. b2 = [states |-> [b.states EXCEPT ![t] = Absent], order |-> b2.order,
            bytes |-> b.bytes - s.bytes + Absent.bytes,
            lines |-> b.lines - StateLines(s) + StateLines(Absent)]
  <2>1. /\ b.bytes - s.bytes + Absent.bytes = b.bytes - s.bytes
        /\ b.lines - StateLines(s) + StateLines(Absent) = b.lines - StateLines(s)
    BY <1>3, <1>6
  <2> QED BY <1>5, <2>1
<1>8. Stamps(Absent.chunks) = {}
  BY <1>6 DEF Stamps
<1>9. b2.order = (b.order \ Stamps(s.chunks)) \cup Stamps(Absent.chunks)
  BY <1>5, <1>8
<1>10. SoundBuffer(b2)
  <2> HIDE DEF b2
  <2>1. \A u \in Terminals \ {t} : \A d \in b.states[u].chunks : d.at \notin Stamps(Absent.chunks)
    BY <1>8
  <2>2. \A c \in Absent.chunks : c.terminal = t
    BY <1>6
  <2> QED BY <1>6, <1>7, <1>9, <2>1, <2>2, BufferChanges
<1> QED BY <1>3, <1>5, <1>10
-----------------------------------------------------------------------------
(* A chunk more. *)

LEMMA SanitizedIsText ==
    ASSUME NEW held \in Nat, NEW out \in Outputs
    PROVE  Sanitize(held, out).text \in Texts /\ Sanitize(held, out).pending \in Nat
<1>1. /\ out.length \in Nat /\ out.half \in Nat /\ out.breaks \in SUBSET Nat
      /\ out.breaks \subseteq 1 .. out.length
  BY HistoryAssumption DEF HistoryAssumption
<1>2. Empty \in Texts
  BY DEF Empty, Texts
<1>3. ASSUME NEW n \in Nat
      PROVE  WithPrefix(n, [length |-> out.length, breaks |-> out.breaks]) \in Texts
  <2> DEFINE moved == {n + q : q \in out.breaks}
  <2>1. n + out.length \in Nat /\ moved \in SUBSET Nat /\ moved \subseteq 1 .. (n + out.length)
    BY <1>1
  <2>2. WithPrefix(n, [length |-> out.length, breaks |-> out.breaks])
          = [length |-> n + out.length, breaks |-> moved]
    BY DEF WithPrefix
  <2>3. \A m, set : m \in Nat /\ set \in SUBSET Nat /\ set \subseteq 1 .. m
                     => [length |-> m, breaks |-> set] \in Texts
    BY DEF Texts
  <2> HIDE DEF moved
  <2> QED BY <2>1, <2>2, <2>3
<1>4. CASE held > 0 /\ out.closes = "no"
  BY <1>1, <1>2, <1>4 DEF Sanitize
<1>5. CASE ~(held > 0 /\ out.closes = "no")
  <2> DEFINE n == IF out.closes = "kept" THEN held ELSE 0
  <2>1. n \in Nat
    OBVIOUS
  <2>2. /\ Sanitize(held, out).text = WithPrefix(n, [length |-> out.length, breaks |-> out.breaks])
        /\ Sanitize(held, out).pending = out.half
    BY <1>5 DEF Sanitize
  <2> HIDE DEF n
  <2> QED BY <1>1, <1>3, <2>1, <2>2
<1> QED BY <1>4, <1>5

\* What Retain makes of a state.
Grown(s, chunk) ==
    [s EXCEPT !.chunks = @ \cup {chunk},
              !.bytes = @ + chunk.bytes,
              !.lineBreaks = @ + chunk.lineBreaks,
              !.textChunks = IF IsEmpty(chunk.text) THEN @ ELSE @ + 1,
              !.endsWithNewline = IF IsEmpty(chunk.text) THEN @
                                  ELSE chunk.text.length \in chunk.text.breaks]

\* A chunk that may join a state.
Joins(chunk, s) ==
    /\ chunk \in ChunkSet
    /\ chunk.bytes = chunk.text.length /\ chunk.lineBreaks = Cardinality(chunk.text.breaks)
    /\ chunk.seq = s.lastSeq /\ s.lastSeq # 0
    /\ \A c \in s.chunks : c.at < chunk.at /\ c.seq < chunk.seq

\* The last line when a chunk is last.
LEMMA TailGrows ==
    ASSUME NEW S \in SUBSET ChunkSet, IsFiniteSet(S), NEW k \in ChunkSet,
           \A d \in S : d.at < k.at
    PROVE  /\ k \notin S
           /\ Cardinality(WithText(S)) \in Nat
           /\ Cardinality(WithText(S \cup {k}))
                = IF IsEmpty(k.text) THEN Cardinality(WithText(S)) ELSE Cardinality(WithText(S)) + 1
           /\ EndsWithBreak(S \cup {k})
                <=> IF IsEmpty(k.text) THEN EndsWithBreak(S) ELSE k.text.length \in k.text.breaks
           /\ EndsInLine(S \cup {k})
                <=> IF IsEmpty(k.text) THEN EndsInLine(S) ELSE k.text.length \notin k.text.breaks
<1> DEFINE C == S \cup {k}
<1>1. \A d \in S : d.at \in Nat /\ k.at \in Nat /\ d.at < k.at
  BY DEF ChunkSet
<1>2. k \notin S
  BY <1>1
<1>3. IsFiniteSet(WithText(S)) /\ Cardinality(WithText(S)) \in Nat
  <2>1. WithText(S) \in SUBSET S
    BY DEF WithText
  <2> QED BY <2>1, FS_Subset, FS_CardinalityType
<1>4. Cardinality(WithText(C))
        = IF IsEmpty(k.text) THEN Cardinality(WithText(S)) ELSE Cardinality(WithText(S)) + 1
  <2>1. CASE IsEmpty(k.text)
    <3>1. WithText(C) = WithText(S)
      BY <2>1 DEF WithText
    <3> QED BY <2>1, <3>1
  <2>2. CASE ~IsEmpty(k.text)
    <3>1. WithText(C) = WithText(S) \cup {k} /\ k \notin WithText(S)
      BY <1>2, <2>2 DEF WithText
    <3>2. Cardinality(WithText(S) \cup {k}) = Cardinality(WithText(S)) + 1
      BY <1>3, <3>1, FS_AddElement
    <3> QED BY <2>2, <3>1, <3>2
  <2> QED BY <2>1, <2>2
<1>5. \A x, T : LastWithText(T, x) => x \in T /\ ~IsEmpty(x.text)
  BY DEF LastWithText
<1>6. CASE IsEmpty(k.text)
  <2>1. \A d \in S : LastWithText(C, d) <=> LastWithText(S, d)
    BY <1>6 DEF LastWithText
  <2>2. ~LastWithText(C, k)
    BY <1>5, <1>6
  <2>3. EndsWithBreak(C) <=> EndsWithBreak(S)
    BY <1>5, <2>1, <2>2 DEF EndsWithBreak
  <2>4. EndsInLine(C) <=> EndsInLine(S)
    BY <1>5, <2>1, <2>2 DEF EndsInLine
  <2> QED BY <1>2, <1>3, <1>4, <1>6, <2>3, <2>4
<1>7. CASE ~IsEmpty(k.text)
  <2>1. LastWithText(C, k)
    <3>1. ASSUME NEW d \in C, d.at > k.at PROVE FALSE
      BY <1>1, <3>1 DEF ChunkSet
    <3> QED BY <1>7, <3>1 DEF LastWithText
  <2>2. \A d \in S : ~LastWithText(C, d)
    BY <1>1, <1>7 DEF LastWithText
  <2>3. EndsWithBreak(C) <=> k.text.length \in k.text.breaks
    BY <2>1, <2>2 DEF EndsWithBreak
  <2>4. EndsInLine(C) <=> k.text.length \notin k.text.breaks
    BY <2>1, <2>2 DEF EndsInLine
  <2> QED BY <1>2, <1>3, <1>4, <1>7, <2>3, <2>4
<1> QED BY <1>6, <1>7

LEMMA GrowthIsSound ==
    ASSUME NEW s, SoundState(s), NEW k, Joins(k, s)
    PROVE  SoundState(Grown(s, k))
<1> DEFINE s2 == Grown(s, k)
           C == s.chunks \cup {k}
<1>1. /\ s \in HistoryState /\ s.chunks \in SUBSET ChunkSet /\ IsFiniteSet(s.chunks)
      /\ Counted(s) /\ InOrder(s) /\ s.lastSeq \in Nat
  BY DEF SoundState, HistoryState
<1>2. /\ k \in ChunkSet /\ k.bytes = k.text.length /\ k.lineBreaks = Cardinality(k.text.breaks)
      /\ k.seq = s.lastSeq /\ s.lastSeq # 0 /\ k.bytes \in Nat /\ k.lineBreaks \in Nat
      /\ \A c \in s.chunks : c.at < k.at /\ c.seq < k.seq
  BY DEF Joins, ChunkSet
<1>3. /\ k \notin s.chunks
      /\ Cardinality(WithText(s.chunks)) \in Nat
      /\ Cardinality(WithText(C))
           = IF IsEmpty(k.text) THEN Cardinality(WithText(s.chunks))
             ELSE Cardinality(WithText(s.chunks)) + 1
      /\ EndsWithBreak(C)
           <=> IF IsEmpty(k.text) THEN EndsWithBreak(s.chunks) ELSE k.text.length \in k.text.breaks
      /\ EndsInLine(C)
           <=> IF IsEmpty(k.text) THEN EndsInLine(s.chunks) ELSE k.text.length \notin k.text.breaks
  BY <1>1, <1>2, TailGrows
<1>4. /\ s.bytes = Lengths(s.chunks) /\ s.lineBreaks = Breaks(s.chunks)
      /\ s.textChunks = Cardinality(WithText(s.chunks))
      /\ s.endsWithNewline <=> EndsWithBreak(s.chunks)
      /\ StateLines(s) = Lines(s.chunks)
      /\ s.bytes \in Nat /\ s.lineBreaks \in Nat /\ s.endsWithNewline \in BOOLEAN
  BY <1>1 DEF Counted, HistoryState
<1>5. C \in SUBSET ChunkSet /\ IsFiniteSet(C) /\ C \ {k} = s.chunks
  <2>1. C \in SUBSET ChunkSet /\ C \ {k} = s.chunks
    BY <1>1, <1>2, <1>3
  <2>2. IsFiniteSet(C)
    BY <1>1, FS_AddElement
  <2> QED BY <2>1, <2>2
<1>6. /\ Lengths(C) = Lengths(s.chunks) + k.text.length
      /\ Breaks(C) = Breaks(s.chunks) + Cardinality(k.text.breaks)
  <2>1. k \in C
    OBVIOUS
  <2> HIDE DEF C
  <2> QED BY <1>5, <2>1, SumsWithout
<1>7. /\ s2.chunks = C /\ s2.bytes = s.bytes + k.bytes /\ s2.lineBreaks = s.lineBreaks + k.lineBreaks
      /\ s2.textChunks = (IF IsEmpty(k.text) THEN s.textChunks ELSE s.textChunks + 1)
      /\ s2.endsWithNewline = (IF IsEmpty(k.text) THEN s.endsWithNewline
                               ELSE k.text.length \in k.text.breaks)
      /\ s2.lastSeq = s.lastSeq
  BY <1>1 DEF Grown, HistoryState
<1>8. s2 \in HistoryState
  <2>1. /\ s.bytes + k.bytes \in Nat /\ s.lineBreaks + k.lineBreaks \in Nat
        /\ (IF IsEmpty(k.text) THEN s.textChunks ELSE s.textChunks + 1) \in Nat
    BY <1>2, <1>3, <1>4
  <2>2. (IF IsEmpty(k.text) THEN s.endsWithNewline
         ELSE k.text.length \in k.text.breaks) \in BOOLEAN
    <3>1. s.endsWithNewline \in BOOLEAN
      BY <1>4
    <3>2. (k.text.length \in k.text.breaks) \in BOOLEAN
      OBVIOUS
    <3>3. CASE IsEmpty(k.text)
      BY ONLY <3>1, <3>3, Zenon
    <3>4. CASE ~IsEmpty(k.text)
      BY ONLY <3>2, <3>4, Zenon
    <3> QED BY ONLY <3>3, <3>4
  <2> QED BY <1>1, <1>5, <2>1, <2>2 DEF Grown, HistoryState
<1> HIDE DEF s2, C
<1>9. /\ s2.bytes = Lengths(C) /\ s2.lineBreaks = Breaks(C)
      /\ s2.textChunks = Cardinality(WithText(C))
      /\ s2.endsWithNewline <=> EndsWithBreak(C)
  <2>1. s2.bytes = Lengths(C) /\ s2.lineBreaks = Breaks(C)
    BY <1>2, <1>4, <1>6, <1>7
  <2>2. s2.textChunks = Cardinality(WithText(C))
    BY <1>3, <1>4, <1>7
  <2>3. s2.endsWithNewline <=> EndsWithBreak(C)
    <3>1. CASE IsEmpty(k.text)
      BY <1>3, <1>4, <1>7, <3>1, Zenon
    <3>2. CASE ~IsEmpty(k.text)
      BY <1>3, <1>7, <3>2, Zenon
    <3> QED BY <3>1, <3>2
  <2> QED BY <2>1, <2>2, <2>3
<1>10. StateLines(s2) = Lines(C)
  <2>1. EndsInLine(C) <=> s2.textChunks > 0 /\ ~s2.endsWithNewline
    <3>1. s.textChunks > 0 /\ ~s.endsWithNewline <=> EndsInLine(s.chunks)
      BY <1>4 DEF StateLines, Lines
    <3>2. CASE IsEmpty(k.text)
      BY <1>3, <1>7, <3>1, <3>2
    <3>3. CASE ~IsEmpty(k.text)
      <4>1. s2.textChunks > 0
        BY <1>3, <1>9, <3>3
      <4>2. s2.endsWithNewline <=> k.text.length \in k.text.breaks
        BY <1>7, <3>3, Zenon
      <4> QED BY <1>3, <3>3, <4>1, <4>2
    <3> QED BY <3>2, <3>3
  <2> QED BY <1>9, <2>1 DEF StateLines, Lines
<1>11. Counted(s2)
  <2>1. \A c \in s2.chunks : c.bytes = c.text.length /\ c.lineBreaks = Cardinality(c.text.breaks)
    BY <1>1, <1>2, <1>7 DEF Counted, C
  <2> QED BY <1>7, <1>9, <1>10, <2>1 DEF Counted
<1>12. InOrder(s2)
  <2>1. \A c \in s.chunks : c.at \in Nat /\ c.seq \in Nat
    BY <1>1 DEF ChunkSet
  <2>2. k.at \in Nat /\ k.seq \in 1 .. s.lastSeq
    BY <1>1, <1>2 DEF ChunkSet
  <2>3. ASSUME NEW c \in C, NEW d \in C
        PROVE  /\ c.seq \in 1 .. s.lastSeq
               /\ c.at < d.at <=> c.seq < d.seq
               /\ c.at = d.at => c = d
    <3>1. CASE c \in s.chunks /\ d \in s.chunks
      BY <1>1, <3>1 DEF InOrder
    <3>2. CASE c \in s.chunks /\ d = k
      <4>1. c.seq \in 1 .. s.lastSeq
        BY <1>1, <3>2 DEF InOrder
      <4> QED BY <1>2, <2>1, <2>2, <3>2, <4>1
    <3>3. CASE c = k /\ d \in s.chunks
      BY <1>2, <2>1, <2>2, <3>3
    <3>4. CASE c = k /\ d = k
      BY <2>2, <3>4
    <3> QED BY <3>1, <3>2, <3>3, <3>4 DEF C
  <2> QED BY <1>7, <2>3 DEF InOrder
<1> QED BY <1>5, <1>7, <1>8, <1>11, <1>12 DEF SoundState, s2

\* An output is heard after s, which becomes s2 with the chunk k of it, and l becomes l2.
Hears(s, l, gap, k, s2, l2) ==
    /\ SoundState(s) /\ l \in Logs /\ Mirrors(s, l) /\ Recorded(s, l) /\ gap \in Nat
    /\ k \in ChunkSet /\ k.seq = s.lastSeq + 1 + gap /\ \A c \in s.chunks : c.at < k.at
    /\ s2.chunks = s.chunks \cup {k} /\ s2.resizes = s.resizes
    /\ s2.size = s.size /\ k.size = s.size
    /\ ~s2.truncated => ~s.truncated /\ (s.lastSeq = 0 \/ gap = 0)
    /\ l2 \in Logs /\ l2.outputs = l.outputs \cup {[seq |-> k.seq, text |-> k.text]}
    /\ l2.refused = l.refused /\ l2.resizes = l.resizes

LEMMA GrowthMirrors ==
    ASSUME NEW s, NEW l, NEW gap, NEW k, NEW s2, NEW l2, Hears(s, l, gap, k, s2, l2)
    PROVE  Mirrors(s2, l2)
<1> DEFINE new == [seq |-> k.seq, text |-> k.text]
<1>0. /\ SoundState(s) /\ l \in Logs /\ Mirrors(s, l) /\ Recorded(s, l) /\ gap \in Nat
      /\ k \in ChunkSet /\ k.seq = s.lastSeq + 1 + gap /\ \A c \in s.chunks : c.at < k.at
      /\ s2.chunks = s.chunks \cup {k} /\ s2.resizes = s.resizes
      /\ s2.size = s.size /\ k.size = s.size
      /\ ~s2.truncated => ~s.truncated /\ (s.lastSeq = 0 \/ gap = 0)
      /\ l2 \in Logs /\ l2.outputs = l.outputs \cup {new}
      /\ l2.refused = l.refused /\ l2.resizes = l.resizes
  BY DEF Hears
<1>1. /\ s.lastSeq \in Nat /\ k.seq \in Nat /\ k.seq > s.lastSeq /\ k.at \in Nat
      /\ \A c \in s.chunks : c.seq \in 1 .. s.lastSeq /\ c.seq \in Nat /\ c.at \in Nat
      /\ \A e \in l.outputs : e.seq \in 1 .. s.lastSeq /\ e.seq \in Nat
      /\ \A r \in l.resizes : r.afterSeq \in Nat /\ r.afterSeq <= s.lastSeq
      /\ EndOf(s, l) /\ Complete(s, l) /\ ResizesSince(s, l) /\ Sized(s, l)
  BY <1>0 DEF SoundState, HistoryState, InOrder, ChunkSet, Heard, Mirrors, Recorded, Logs, ResizeSet
<1>2. new.seq = k.seq /\ new.text = k.text
  OBVIOUS
<1> HIDE DEF new
<1>3. EndOf(s2, l2)
  <2>1. ASSUME NEW c \in s2.chunks
        PROVE  \E e \in l2.outputs :
                 /\ c.seq = e.seq
                 /\ \/ c.text = e.text
                    \/ /\ \A d \in s2.chunks : c.at <= d.at
                       /\ \E cut \in e.text.breaks : c.text = TextFrom(e.text, cut)
    <3>1. CASE c = k
      BY <1>0, <1>2, <3>1
    <3>2. CASE c \in s.chunks
      <4>1. PICK e \in l.outputs :
              /\ c.seq = e.seq
              /\ \/ c.text = e.text
                 \/ /\ \A d \in s.chunks : c.at <= d.at
                    /\ \E cut \in e.text.breaks : c.text = TextFrom(e.text, cut)
        BY <1>1, <3>2 DEF EndOf
      <4>2. e \in l2.outputs
        BY <1>0
      <4>3. c.at <= k.at
        BY <1>0, <1>1, <3>2
      <4> QED BY <1>0, <4>1, <4>2, <4>3
    <3> QED BY <1>0, <3>1, <3>2
  <2>2. ASSUME NEW e \in l2.outputs, NEW c \in s2.chunks, c.seq <= e.seq
        PROVE  \E d \in s2.chunks : d.seq = e.seq
    <3>1. CASE e = new
      BY <1>0, <1>2, <3>1
    <3>2. CASE e \in l.outputs
      <4>1. c \in s.chunks
        BY <1>0, <1>1, <2>2, <3>2
      <4> QED BY <1>0, <1>1, <2>2, <3>2, <4>1 DEF EndOf
    <3> QED BY <1>0, <3>1, <3>2
  <2> QED BY <2>1, <2>2 DEF EndOf
<1>4. Heard(l2) = Heard(l) \cup {k.seq}
  BY <1>0, <1>2 DEF Heard
<1>5. Complete(s2, l2)
  <2>1. SUFFICES ASSUME ~s2.truncated
                 PROVE  /\ l2.refused = {}
                        /\ {[seq |-> c.seq, text |-> c.text] : c \in s2.chunks} = l2.outputs
                        /\ \A i, j \in Heard(l2) : i .. j \subseteq Heard(l2)
    BY DEF Complete
  <2>2. /\ l.refused = {}
        /\ {[seq |-> c.seq, text |-> c.text] : c \in s.chunks} = l.outputs
        /\ \A i, j \in Heard(l) : i .. j \subseteq Heard(l)
        /\ s.lastSeq = 0 \/ gap = 0
    BY <1>0, <1>1, <2>1 DEF Complete
  <2>3. {[seq |-> c.seq, text |-> c.text] : c \in s2.chunks} = l2.outputs
    BY <1>0, <2>2 DEF new
  <2>4. Heard(l) \subseteq 1 .. s.lastSeq /\ s.lastSeq \in Heard(l) \cup {0}
    BY <1>0 DEF Recorded
  <2>5. ASSUME NEW i \in Heard(l2), NEW j \in Heard(l2), NEW x \in i .. j PROVE x \in Heard(l2)
    <3>0. i \in Nat /\ j \in Nat /\ x \in Nat /\ i <= x /\ x <= j
      BY <1>1, <1>4, <2>4
    <3>1. CASE i = k.seq
      <4>1. j <= k.seq
        BY <1>1, <1>4, <2>4
      <4>2. x = k.seq
        BY <1>1, <3>0, <3>1, <4>1
      <4> QED BY <1>4, <4>2
    <3>2. CASE i \in Heard(l) /\ j \in Heard(l)
      BY <1>4, <2>2, <3>2
    <3>3. CASE i \in Heard(l) /\ j = k.seq
      <4>1. s.lastSeq \in Heard(l) /\ s.lastSeq # 0 /\ k.seq = s.lastSeq + 1
        BY <1>0, <1>1, <2>2, <2>4, <3>3
      <4>2. x = k.seq \/ x \in i .. s.lastSeq
        BY <1>1, <3>0, <3>3, <4>1
      <4> QED BY <1>4, <2>2, <3>3, <4>1, <4>2
    <3> QED BY <1>4, <3>1, <3>2, <3>3
  <2> QED BY <1>0, <2>2, <2>3, <2>5
<1>6. ResizesSince(s2, l2)
  <2>1. \A r \in l.resizes : ~(k.seq <= r.afterSeq)
    BY <1>1
  <2>2. \A r \in l.resizes :
          (\E c \in s2.chunks : c.seq <= r.afterSeq) <=> \E c \in s.chunks : c.seq <= r.afterSeq
    BY <1>0, <2>1
  <2>3. s.resizes = {r \in l.resizes : \E c \in s.chunks : c.seq <= r.afterSeq}
    BY <1>1 DEF ResizesSince
  <2> QED BY <1>0, <2>2, <2>3 DEF ResizesSince
<1>7. Sized(s2, l2)
  <2>1. PICK start \in AllSizes : SizedFrom(s, l, start)
    BY <1>1 DEF Sized
  <2>2. {r \in l.resizes : r.afterSeq < k.seq} = l.resizes
    BY <1>1
  <2>3. InForce(k.size, {r \in l.resizes : r.afterSeq < k.seq}, start)
    BY <1>0, <2>1, <2>2 DEF SizedFrom
  <2>4. SizedFrom(s2, l2, start)
    BY <1>0, <2>1, <2>3 DEF SizedFrom
  <2> QED BY <2>4 DEF Sized
<1> QED BY <1>3, <1>5, <1>6, <1>7 DEF Mirrors
-----------------------------------------------------------------------------
(* The invariant, of a buffer b, a log l, a limit, and n events. *)

Holds(b, l, limit, n) ==
    /\ limit \in LineLimits
    /\ l \in [Terminals -> Logs]
    /\ Good(b, l)
    /\ \A t \in Terminals : Recorded(b.states[t], l[t])
    /\ Stable(b, Terminals, limit)
    /\ n \in Nat /\ \A x \in b.order : x <= n

\* It holds of the buffer and the log between two calls.
HistoryInv == Holds(buffer, log, lineLimit, events) /\ calls \in Nat

LEMMA EmptyHolds ==
    ASSUME NEW limit \in LineLimits, NEW n \in Nat
    PROVE  Holds(EmptyBuffer, [t \in Terminals |-> NoLog], limit, n)
<1> DEFINE l == [t \in Terminals |-> NoLog]
           b == EmptyBuffer
<1>1. /\ b.states \in [Terminals -> HistoryState] /\ b.order = {} /\ b.bytes = 0 /\ b.lines = 0
      /\ \A t \in Terminals : b.states[t] = Absent /\ l[t] = NoLog
      /\ b \in [states: [Terminals -> HistoryState], order: SUBSET Nat, bytes: Nat, lines: Nat]
  BY AbsentIsSound DEF EmptyBuffer
<1>2. NoLog \in Logs /\ Recorded(Absent, NoLog)
  BY AbsentIsSound, NoLogIsRecorded
<1>3. l \in [Terminals -> Logs]
  BY <1>2
<1> HIDE DEF l, b
<1>4. AllChunks(b) = {} /\ Stamps(AllChunks(b)) = {}
  <2>1. \A c : c \notin AllChunks(b)
    BY <1>1, ChunksOfBuffer, AbsentIsSound
  <2> QED BY <2>1 DEF Stamps
<1>5. /\ IsFiniteSet(Points(Terminals, BytesOf(b))) /\ Total(Terminals, BytesOf(b)) = 0
      /\ IsFiniteSet(Points(Terminals, LinesOf(b))) /\ Total(Terminals, LinesOf(b)) = 0
  <2>1. \A t \in Terminals : BytesOf(b)[t] = 0 /\ LinesOf(b)[t] = 0
    BY <1>1, AbsentIsSound DEF BytesOf, LinesOf
  <2> QED BY <2>1, TotalOfNothing
<1>6. SoundBuffer(b)
  <2>1. \A t \in Terminals :
          /\ SoundState(b.states[t])
          /\ \A c \in b.states[t].chunks : c.terminal = t
          /\ ~b.states[t].registered => b.states[t] = Absent
    BY <1>1, AbsentIsSound
  <2> QED BY <1>1, <1>4, <1>5, <2>1, FS_EmptySet DEF SoundBuffer
<1>7. Good(b, l)
  BY <1>1, <1>6, AbsentIsSound DEF Good
<1>8. Stable(b, Terminals, limit)
  BY <1>1, AbsentIsSound DEF Stable, OverOwn, OverAll
<1> QED BY <1>1, <1>2, <1>3, <1>7, <1>8 DEF Holds, l, b

\* A state changes, but not its chunks.
LEMMA QuietHolds ==
    ASSUME NEW b, NEW l, NEW limit, NEW n, Holds(b, l, limit, n), NEW t \in Terminals,
           NEW s2, SoundState(s2), s2.registered, s2.chunks = b.states[t].chunks,
           NEW l2 \in Logs, Mirrors(s2, l2), Recorded(s2, l2)
    PROVE  Holds([b EXCEPT !.states[t] = s2], [l EXCEPT ![t] = l2], limit, n)
<1> DEFINE b2 == [b EXCEPT !.states[t] = s2]
           k2 == [l EXCEPT ![t] = l2]
           s == b.states[t]
<1>1. /\ limit \in LineLimits /\ l \in [Terminals -> Logs] /\ SoundBuffer(b)
      /\ \A u \in Terminals : Mirrors(b.states[u], l[u]) /\ Recorded(b.states[u], l[u])
      /\ Stable(b, Terminals, limit) /\ n \in Nat /\ \A x \in b.order : x <= n
  BY DEF Holds, Good
<1>2. /\ SoundBuffer(b2)
      /\ b2.states = [b.states EXCEPT ![t] = s2]
      /\ b2.order = b.order /\ b2.bytes = b.bytes /\ b2.lines = b.lines
  BY <1>1, QuietChange
<1>3. b.states \in [Terminals -> HistoryState] /\ SoundState(s)
  BY <1>1 DEF SoundBuffer
<1> HIDE DEF b2
<1>4. \A u \in Terminals : /\ b2.states[u] = IF u = t THEN s2 ELSE b.states[u]
                           /\ k2[u] = IF u = t THEN l2 ELSE l[u]
  BY <1>1, <1>2, <1>3
<1>5. k2 \in [Terminals -> Logs]
  BY <1>1
<1> HIDE DEF k2
<1>6. Good(b2, k2)
  BY <1>1, <1>2, <1>4 DEF Good
<1>7. \A u \in Terminals : Recorded(b2.states[u], k2[u])
  BY <1>1, <1>4
<1>8. s.bytes = s2.bytes /\ StateLines(s) = StateLines(s2)
  BY <1>3 DEF SoundState, Counted
<1>9. OverOwn(s2, limit) <=> OverOwn(s, limit)
  BY <1>8 DEF OverOwn
<1>10. \A u \in Terminals : ~OverOwn(b2.states[u], limit)
  BY <1>1, <1>4, <1>9 DEF Stable
<1>11. ~OverAll(b2, limit)
  BY <1>1, <1>2 DEF Stable, OverAll
<1> QED BY <1>1, <1>2, <1>5, <1>6, <1>7, <1>10, <1>11 DEF Holds, Stable, b2, k2

LEMMA RemovalHolds ==
    ASSUME NEW b, NEW l, NEW limit, NEW n, Holds(b, l, limit, n), NEW t \in Terminals
    PROVE  Holds(Without(b, t), [l EXCEPT ![t] = NoLog], limit, n)
<1> DEFINE b2 == Without(b, t)
           k2 == [l EXCEPT ![t] = NoLog]
<1>1. /\ limit \in LineLimits /\ l \in [Terminals -> Logs] /\ SoundBuffer(b)
      /\ \A u \in Terminals : Mirrors(b.states[u], l[u]) /\ Recorded(b.states[u], l[u])
      /\ Stable(b, Terminals, limit) /\ n \in Nat /\ \A x \in b.order : x <= n
      /\ b.states \in [Terminals -> HistoryState]
  BY DEF Holds, Good, SoundBuffer
<1>2. /\ SoundBuffer(b2)
      /\ b2.states = [b.states EXCEPT ![t] = Absent]
      /\ b2.order \subseteq b.order /\ b2.bytes <= b.bytes /\ b2.lines <= b.lines
  BY <1>1, RemovalIsSound
<1> HIDE DEF b2
<1>3. NoLog \in Logs /\ Recorded(Absent, NoLog)
  BY AbsentIsSound, NoLogIsRecorded
<1>4. \A u \in Terminals : /\ b2.states[u] = IF u = t THEN Absent ELSE b.states[u]
                           /\ k2[u] = IF u = t THEN NoLog ELSE l[u]
  BY <1>1, <1>2
<1>5. k2 \in [Terminals -> Logs]
  BY <1>1, <1>3
<1> HIDE DEF k2
<1>6. Good(b2, k2) /\ \A u \in Terminals : Recorded(b2.states[u], k2[u])
  BY <1>1, <1>2, <1>3, <1>4, AbsentIsSound DEF Good
<1>7. \A u \in Terminals : ~OverOwn(b2.states[u], limit)
  BY <1>1, <1>4, AbsentIsSound DEF Stable, OverOwn
<1>8. ~OverAll(b2, limit)
  <2>1. /\ b.bytes \in Nat /\ b.lines \in Nat /\ b2.bytes \in Nat /\ b2.lines \in Nat
        /\ Cardinality(b.order) \in Nat /\ Cardinality(b2.order) \in Nat /\ IsFiniteSet(b.order)
    BY <1>1, <1>2, GoodTypes DEF SoundBuffer
  <2>2. Cardinality(b2.order) <= Cardinality(b.order)
    BY <1>2, <2>1, FS_Subset
  <2>3. limit * Multiplier \in Nat /\ MaxTotalBytes \in Nat
    BY <1>1, HistoryAssumption DEF HistoryAssumption
  <2>4. ~OverAll(b, limit) /\ (b.order = {} => b2.order = {})
    BY <1>1, <1>2 DEF Stable
  <2> QED BY <1>2, <2>1, <2>2, <2>3, <2>4 DEF OverAll
<1> QED BY <1>1, <1>2, <1>5, <1>6, <1>7, <1>8 DEF Holds, Stable, b2, k2

\* The limits hold of the terminals ts after the loops, and still of the others.
LEMMA EnforceHolds ==
    ASSUME NEW b, NEW l \in [Terminals -> Logs], Good(b, l),
           \A t \in Terminals : Recorded(b.states[t], l[t]),
           NEW n \in Nat, \A x \in b.order : x <= n,
           NEW limit \in LineLimits, NEW ts \in SUBSET Terminals,
           \A t \in Terminals \ ts : ~OverOwn(b.states[t], limit)
    PROVE  Holds(Enforce(b, ts, limit), l, limit, n)
<1> DEFINE b2 == Enforce(b, ts, limit)
<1>1. limit \in Nat /\ MaxBytes \in Nat
  BY HistoryAssumption DEF HistoryAssumption
<1>2. Good(b2, l) /\ Shrinks(b, b2) /\ Stable(b2, ts, limit)
  BY <1>1, EnforceIsSound
<1> HIDE DEF b2
<1>3. ASSUME NEW t \in Terminals PROVE Recorded(b2.states[t], l[t])
  BY <1>2 DEF Shrinks, Recorded
<1>4. ASSUME NEW t \in Terminals PROVE ~OverOwn(b2.states[t], limit)
  <2>1. CASE t \in ts
    BY <1>2, <2>1 DEF Stable
  <2>2. CASE t \notin ts
    <3> DEFINE s == b.states[t]
               s2 == b2.states[t]
    <3>1. ~OverOwn(s, limit)
      BY <2>2
    <3>2. /\ s2.bytes <= s.bytes /\ StateLines(s2) <= StateLines(s)
          /\ Cardinality(s2.chunks) <= Cardinality(s.chunks)
          /\ s.chunks = {} => s2.chunks = {}
      BY <1>2 DEF Shrinks
    <3>3. /\ s.bytes \in Nat /\ StateLines(s) \in Nat /\ Cardinality(s.chunks) \in Nat
          /\ s2.bytes \in Nat /\ StateLines(s2) \in Nat /\ Cardinality(s2.chunks) \in Nat
      BY <1>2, GoodTypes DEF Good
    <3> HIDE DEF s, s2
    <3>4. ~OverOwn(s2, limit)
      BY <1>1, <3>1, <3>2, <3>3 DEF OverOwn
    <3> QED BY <3>4 DEF s2
  <2> QED BY <2>1, <2>2
<1>5. \A x \in b2.order : x <= n
  BY <1>2 DEF Shrinks
<1> QED BY <1>2, <1>3, <1>4, <1>5 DEF Holds, Stable, b2
-----------------------------------------------------------------------------
(* The actions. *)

NewChunk(t, seq, text, size) ==
    [at |-> events + 1, terminal |-> t, seq |-> seq, text |-> text,
     bytes |-> text.length, lineBreaks |-> Cardinality(text.breaks), size |-> size]

LEMMA NewChunkIsChunk ==
    ASSUME NEW t \in Terminals, NEW seq \in Nat, NEW text \in Texts, NEW size \in AllSizes,
           events \in Nat
    PROVE  /\ NewChunk(t, seq, text, size) \in ChunkSet
           /\ NewChunk(t, seq, text, size).at = events + 1
           /\ NewChunk(t, seq, text, size).terminal = t
           /\ NewChunk(t, seq, text, size).seq = seq
           /\ NewChunk(t, seq, text, size).text = text
           /\ NewChunk(t, seq, text, size).size = size
           /\ NewChunk(t, seq, text, size).bytes = text.length
           /\ NewChunk(t, seq, text, size).lineBreaks = Cardinality(text.breaks)
<1>1. text.length \in Nat /\ Cardinality(text.breaks) \in Nat /\ events + 1 \in Nat
  BY BreaksAreFinite DEF Texts
<1> QED BY <1>1 DEF NewChunk, ChunkSet

\* b2 is b with the chunk k more in the terminal t.
Retained(b, t, k, b2) ==
    /\ SoundBuffer(b2)
    /\ b2.states = [b.states EXCEPT ![t] = Grown(b.states[t], k)]
    /\ b2.order = b.order \cup {k.at}

LEMMA RetentionIsSound ==
    ASSUME NEW b, SoundBuffer(b), NEW t \in Terminals, b.states[t].registered,
           NEW seq, NEW text,
           Joins(NewChunk(t, seq, text, b.states[t].size), b.states[t]),
           NewChunk(t, seq, text, b.states[t].size).at \notin b.order
    PROVE  Retained(b, t, NewChunk(t, seq, text, b.states[t].size), Retain(b, t, seq, text))
<1> DEFINE s == b.states[t]
           k == NewChunk(t, seq, text, s.size)
           s2 == Grown(s, k)
           b2 == Retain(b, t, seq, text)
<1>1. /\ k.text = text /\ k.bytes = text.length /\ k.lineBreaks = Cardinality(text.breaks)
      /\ k.at = events + 1 /\ k.terminal = t
      /\ k = [at |-> events + 1, terminal |-> t, seq |-> seq, text |-> text,
              bytes |-> text.length, lineBreaks |-> Cardinality(text.breaks), size |-> s.size]
  BY DEF NewChunk
<1>2. s2 = [s EXCEPT !.chunks = @ \cup {k},
                     !.bytes = @ + k.bytes,
                     !.lineBreaks = @ + k.lineBreaks,
                     !.textChunks = IF IsEmpty(text) THEN @ ELSE @ + 1,
                     !.endsWithNewline = IF IsEmpty(text) THEN @
                                         ELSE text.length \in text.breaks]
  BY <1>1 DEF Grown
<1>3. b2 = [states |-> [b.states EXCEPT ![t] = s2], order |-> b.order \cup {k.at},
            bytes |-> b.bytes + k.bytes,
            lines |-> b.lines + (StateLines(s2) - StateLines(s))]
  <2> HIDE DEF k, s2
  <2>1. b2 = LET chunk == k
                 grown == [s EXCEPT !.chunks = @ \cup {chunk},
                         !.bytes = @ + chunk.bytes,
                         !.lineBreaks = @ + chunk.lineBreaks,
                         !.textChunks = IF IsEmpty(text) THEN @ ELSE @ + 1,
                         !.endsWithNewline = IF IsEmpty(text) THEN @
                                             ELSE text.length \in text.breaks]
             IN  [states |-> [b.states EXCEPT ![t] = grown],
                  order |-> b.order \cup {chunk.at},
                  bytes |-> b.bytes + chunk.bytes,
                  lines |-> b.lines + (StateLines(grown) - StateLines(s))]
    BY <1>1 DEF Retain
  <2> QED BY <1>2, <2>1
<1>4. /\ b.states \in [Terminals -> HistoryState] /\ SoundState(s) /\ s \in HistoryState
      /\ \A c \in s.chunks : c.terminal = t
      /\ b.order = Stamps(AllChunks(b))
      /\ \A u \in Terminals : \A c \in b.states[u].chunks : c.terminal = u
      /\ \A c, d \in AllChunks(b) : c.at = d.at => c = d
      /\ Joins(k, s) /\ k.at \notin b.order /\ s.registered
  BY DEF SoundBuffer
<1>5. SoundState(s2)
  <2> HIDE DEF k, s
  <2> QED BY <1>4, GrowthIsSound
<1>6. /\ s2.chunks = s.chunks \cup {k} /\ s2.bytes = s.bytes + k.bytes
      /\ s2.registered = s.registered
  <2> HIDE DEF s2, k, s
  <2> QED BY <1>2, <1>4 DEF HistoryState
<1> HIDE DEF s2, k, b2
<1>7. /\ b.bytes \in Nat /\ s.bytes \in Nat /\ b.lines \in Nat /\ StateLines(s) \in Nat
      /\ k.bytes \in Nat /\ StateLines(s2) \in Nat
  BY <1>4, <1>5, GoodTypes, StateLinesType DEF Joins, ChunkSet, SoundState
<1>8. b2 = [states |-> [b.states EXCEPT ![t] = s2], order |-> b2.order,
            bytes |-> b.bytes - s.bytes + s2.bytes,
            lines |-> b.lines - StateLines(s) + StateLines(s2)]
  <2>1. /\ b.bytes + k.bytes = b.bytes - s.bytes + s2.bytes
        /\ b.lines + (StateLines(s2) - StateLines(s)) = b.lines - StateLines(s) + StateLines(s2)
    BY <1>6, <1>7
  <2> QED BY <1>3, <2>1
<1>9. Stamps(s2.chunks) = Stamps(s.chunks) \cup {k.at} /\ Stamps(s.chunks) \subseteq b.order
  <2>1. Stamps(s.chunks) \subseteq b.order
    BY <1>4, ChunksOfBuffer DEF Stamps
  <2> QED BY <1>6, <2>1 DEF Stamps
<1>10. b2.order = (b.order \ Stamps(s.chunks)) \cup Stamps(s2.chunks)
  BY <1>3, <1>9
<1>11. \A u \in Terminals \ {t} : \A d \in b.states[u].chunks : d.at \notin Stamps(s2.chunks)
  <2>1. ASSUME NEW u \in Terminals \ {t}, NEW d \in b.states[u].chunks PROVE d.at \notin Stamps(s2.chunks)
    <3>1. d \in AllChunks(b) /\ d.at \in b.order
      BY <1>4, ChunksOfBuffer DEF Stamps
    <3>2. d.at # k.at
      BY <1>4, <3>1
    <3>3. ASSUME NEW c \in s.chunks, c.at = d.at PROVE FALSE
      <4>1. c = d
        BY <1>4, <3>1, <3>3, ChunksOfBuffer
      <4> QED BY <1>4, <2>1, <4>1
    <3> QED BY <1>9, <3>2, <3>3 DEF Stamps
  <2> QED BY <2>1
<1>12. \A c \in s2.chunks : c.terminal = t
  BY <1>1, <1>4, <1>6
<1>13. SoundBuffer(b2)
  <2>1. SoundState(s2) /\ (~s2.registered => s2 = Absent)
    BY <1>4, <1>5, <1>6
  <2> QED BY <1>8, <1>10, <1>11, <1>12, <2>1, BufferChanges
<1> QED BY <1>3, <1>13 DEF s2, k, b2, Retained

LEMMA AppendKeeps ==
    ASSUME HistoryInv, NEW t \in Terminals, NEW owner \in Sessions, NEW gap \in Nat,
           NEW out \in Outputs, AppendOutput(t, owner, gap, out), calls' \in Nat
    PROVE  HistoryInv'
<1> DEFINE known == buffer.states[t]
           before == IF known.registered THEN known ELSE NewState(owner, UnitSize)
           seq == before.lastSeq + 1 + gap
           clean == Sanitize(before.pending, out)
           heard == [before EXCEPT !.lastSeq = seq, !.pending = clean.pending,
                                   !.truncated = @ \/ (before.lastSeq > 0 /\ gap > 0)]
           fits == clean.text.length <= MaxBytes /\ clean.text.length <= MaxTotalBytes
           l == log[t]
<1>1. /\ lineLimit \in LineLimits /\ log \in [Terminals -> Logs]
      /\ SoundBuffer(buffer)
      /\ \A u \in Terminals : Mirrors(buffer.states[u], log[u]) /\ Recorded(buffer.states[u], log[u])
      /\ Stable(buffer, Terminals, lineLimit)
      /\ events \in Nat /\ \A x \in buffer.order : x <= events
      /\ Holds(buffer, log, lineLimit, events)
      /\ buffer.states \in [Terminals -> HistoryState] /\ SoundState(known)
      /\ ~known.registered => known = Absent
      /\ buffer.order = Stamps(AllChunks(buffer))
  BY DEF HistoryInv, Holds, Good, SoundBuffer
<1>2. /\ events' = events + 1 /\ lineLimit' = lineLimit
      /\ before.session = owner
  BY DEF AppendOutput
<1>3. /\ SoundState(before) /\ before \in HistoryState /\ before.registered
      /\ Mirrors(before, l) /\ Recorded(before, l) /\ l \in Logs
      /\ before.chunks = known.chunks
  <2>1. CASE known.registered
    BY <1>1, <2>1 DEF SoundState
  <2>2. CASE ~known.registered
    <3>1. known = Absent /\ l = NoLog
      BY <1>1, <2>2 DEF Recorded
    <3>2. /\ before = NewState(owner, UnitSize) /\ before.registered /\ before.chunks = {}
          /\ before.lastSeq = 0 /\ before.session = owner
      BY <2>2 DEF NewState
    <3>3. UnitSize \in AllSizes
      BY DEF AllSizes
    <3>4. NoLog \in Logs /\ Recorded(before, NoLog)
      BY <3>2, NoLogIsRecorded
    <3>5. SoundState(before) /\ before \in HistoryState /\ Mirrors(before, NoLog)
      BY <3>2, <3>3, NewStateIsSound
    <3> QED BY <3>1, <3>2, <3>4, <3>5, AbsentIsSound
  <2> QED BY <2>1, <2>2
<1> HIDE DEF before
<1>4. clean.text \in Texts /\ clean.pending \in Nat
  BY <1>3, SanitizedIsText DEF HistoryState
<1> HIDE DEF clean
<1>5. before.lastSeq \in Nat /\ seq \in Nat /\ seq > before.lastSeq /\ seq # 0
  BY <1>3 DEF HistoryState
<1>6. /\ heard \in HistoryState /\ SameChunks(before, heard)
      /\ heard.registered /\ heard.session = owner /\ heard.lastSeq = seq
      /\ heard.resizes = before.resizes /\ heard.size = before.size
      /\ ~heard.truncated => ~before.truncated /\ (before.lastSeq = 0 \/ gap = 0)
  <2>1. heard \in HistoryState
    BY <1>3, <1>4, <1>5 DEF HistoryState
  <2>2. /\ heard.chunks = before.chunks /\ heard.bytes = before.bytes
        /\ heard.lineBreaks = before.lineBreaks /\ heard.textChunks = before.textChunks
        /\ heard.endsWithNewline = before.endsWithNewline
        /\ heard.registered = before.registered /\ heard.session = before.session
        /\ heard.lastSeq = seq /\ heard.resizes = before.resizes /\ heard.size = before.size
        /\ heard.truncated = (before.truncated \/ (before.lastSeq > 0 /\ gap > 0))
    BY <1>3 DEF HistoryState
  <2> HIDE DEF heard, seq
  <2>3. ~heard.truncated => ~before.truncated /\ (before.lastSeq = 0 \/ gap = 0)
    <3>1. before.lastSeq = 0 \/ gap = 0 \/ (before.lastSeq > 0 /\ gap > 0)
      BY <1>5
    <3> QED BY <2>2, <3>1, Zenon
  <2>4. SameChunks(before, heard)
    BY <1>5, <2>2 DEF SameChunks
  <2> QED BY <1>2, <1>3, <2>1, <2>2, <2>3, <2>4
<1>7. CASE ~fits
  <2> DEFINE s2 == Refuse(heard)
             l2 == [l EXCEPT !.refused = @ \cup {seq}]
  <2>1. /\ buffer' = [buffer EXCEPT !.states[t] = s2]
        /\ log' = [log EXCEPT ![t].refused = @ \cup {seq}]
    BY <1>7 DEF AppendOutput, before, clean
  <2>2. log' = [log EXCEPT ![t] = l2]
    BY <2>1
  <2>3. /\ s2 \in HistoryState /\ SameChunks(before, s2) /\ s2.registered /\ s2.session = owner
        /\ s2.lastSeq = seq /\ s2.resizes = before.resizes /\ s2.truncated
        /\ s2.size = before.size
    <3> HIDE DEF heard
    <3> QED BY <1>6 DEF Refuse, HistoryState, SameChunks
  <2>4. /\ l2 \in Logs /\ l2.outputs = l.outputs /\ l2.refused = l.refused \cup {seq}
        /\ l2.resizes = l.resizes
    BY <1>3, <1>5 DEF Logs
  <2> HIDE DEF s2, l2, heard, seq
  <2>5. SoundState(s2) /\ s2.chunks = known.chunks
    BY <1>3, <2>3, SameChunksAreSound DEF SameChunks
  <2>6. Mirrors(s2, l2)
    <3>1. /\ EndOf(before, l) /\ ResizesSince(before, l) /\ Sized(before, l)
          /\ s2.chunks = before.chunks
      BY <1>3, <2>5 DEF Mirrors
    <3>2. EndOf(s2, l2) /\ Complete(s2, l2) /\ ResizesSince(s2, l2)
      BY <2>3, <2>4, <3>1 DEF EndOf, Complete, ResizesSince
    <3>3. Sized(s2, l2)
      BY <2>3, <2>4, <3>1, SizesKept
    <3> QED BY <3>2, <3>3 DEF Mirrors
  <2>7. Recorded(s2, l2)
    <3>1. Heard(l2) = Heard(l) \cup {seq}
      BY <2>4 DEF Heard
    <3>2. /\ Heard(l) \subseteq 1 .. before.lastSeq /\ IsFiniteSet(l.resizes)
          /\ \A r \in l.resizes : r.afterSeq <= before.lastSeq /\ r.afterSeq \in Nat
      BY <1>3 DEF Recorded, Logs, ResizeSet
    <3>3. Heard(l2) \subseteq 1 .. s2.lastSeq /\ s2.lastSeq \in Heard(l2)
      BY <1>5, <2>3, <3>1, <3>2
    <3>4. \A r \in l2.resizes : r.afterSeq <= s2.lastSeq
      BY <1>5, <2>3, <2>4, <3>2
    <3>5. Numbered(l2)
      BY <1>3, <2>4, <3>1, NumbersKept DEF Recorded
    <3> QED BY <2>3, <2>4, <3>2, <3>3, <3>4, <3>5 DEF Recorded
  <2>8. Holds(buffer', log', lineLimit, events)
    <3>1. Holds([buffer EXCEPT !.states[t] = s2], [log EXCEPT ![t] = l2], lineLimit, events)
      <4> HIDE DEF known
      <4> QED BY <1>1, <2>3, <2>4, <2>5, <2>6, <2>7, QuietHolds DEF known
    <3> QED BY <2>1, <2>2, <3>1
  <2>9. Holds(buffer', log', lineLimit', events')
    <3>1. \A x \in buffer'.order : x \in Nat
      BY <2>8 DEF Holds, Good, SoundBuffer
    <3> QED BY <1>1, <1>2, <2>8, <3>1 DEF Holds
  <2> QED BY <2>9 DEF HistoryInv
<1>8. CASE fits
  <2> DEFINE b == [buffer EXCEPT !.states[t] = heard]
             k == NewChunk(t, seq, clean.text, heard.size)
             s2 == Grown(heard, k)
             b2 == Retain(b, t, seq, clean.text)
             new == [seq |-> seq, text |-> clean.text]
             l2 == [l EXCEPT !.outputs = @ \cup {new}]
             logs == [log EXCEPT ![t] = l2]
  <2>1. /\ buffer' = Enforce(b2, {t}, lineLimit)
        /\ log' = [log EXCEPT ![t].outputs = @ \cup {new}]
    BY <1>8 DEF AppendOutput, before, clean
  <2>2. log' = logs
    BY <2>1
  <2>3. /\ l2 \in Logs /\ l2.outputs = l.outputs \cup {new} /\ l2.refused = l.refused
        /\ l2.resizes = l.resizes
    BY <1>3, <1>4, <1>5 DEF Logs
  <2>4. logs \in [Terminals -> Logs] /\ \A u \in Terminals : logs[u] = IF u = t THEN l2 ELSE log[u]
    <3> HIDE DEF l2
    <3> QED BY <1>1, <2>3
  <2> HIDE DEF heard, seq, l2, logs
  <2>5. SoundState(heard) /\ heard.chunks = before.chunks /\ heard.chunks = known.chunks
    BY <1>3, <1>6, SameChunksAreSound DEF SameChunks
  <2>6. /\ SoundBuffer(b) /\ b.states = [buffer.states EXCEPT ![t] = heard]
        /\ b.order = buffer.order
    <3> HIDE DEF known
    <3> QED BY <1>1, <1>6, <2>5, QuietChange DEF known
  <2> HIDE DEF b
  <2>7. b.states[t] = heard /\ \A u \in Terminals \ {t} : b.states[u] = buffer.states[u]
    BY <1>1, <2>6
  <2>8. /\ k \in ChunkSet /\ k.at = events + 1 /\ k.terminal = t /\ k.seq = seq
        /\ k.text = clean.text /\ k.size = heard.size
        /\ k.bytes = k.text.length /\ k.lineBreaks = Cardinality(k.text.breaks)
    <3>1. heard.size \in AllSizes
      BY <1>6 DEF HistoryState
    <3> QED BY <1>1, <1>4, <1>5, <3>1, NewChunkIsChunk
  <2> HIDE DEF k
  <2>9. \A c \in before.chunks : c.at < k.at /\ c.seq < k.seq /\ c.at \in Nat
    <3>1. ASSUME NEW c \in before.chunks PROVE c.at < k.at /\ c.seq < k.seq /\ c.at \in Nat
      <4>1. c.at \in buffer.order /\ c.at <= events
        BY <1>1, <1>3, ChunksOfBuffer DEF Stamps
      <4>2. c.seq \in 1 .. before.lastSeq /\ c.at \in Nat
        BY <1>3 DEF SoundState, InOrder, HistoryState, ChunkSet
      <4> QED BY <1>1, <1>5, <2>8, <4>1, <4>2
    <3> QED BY <3>1
  <2>10. Joins(k, heard)
    BY <1>5, <1>6, <2>5, <2>8, <2>9 DEF Joins
  <2>11. k.at \notin b.order
    BY <1>1, <2>6, <2>8
  <2>12. /\ SoundBuffer(b2) /\ b2.states = [b.states EXCEPT ![t] = s2]
         /\ b2.order = b.order \cup {k.at}
    <3>1. /\ Joins(NewChunk(t, seq, clean.text, b.states[t].size), b.states[t])
          /\ NewChunk(t, seq, clean.text, b.states[t].size).at \notin b.order
          /\ b.states[t].registered
      BY <1>6, <2>7, <2>10, <2>11 DEF k
    <3>2. Retained(b, t, NewChunk(t, seq, clean.text, b.states[t].size), b2)
      BY <2>6, <3>1, RetentionIsSound
    <3> QED BY <2>7, <3>2 DEF k, Retained
  <2> HIDE DEF b2
  <2>13. b2.states[t] = s2 /\ \A u \in Terminals \ {t} : b2.states[u] = buffer.states[u]
    <3>1. b.states \in [Terminals -> HistoryState]
      BY <2>6 DEF SoundBuffer
    <3> QED BY <2>7, <2>12, <3>1
  <2>14. /\ s2.chunks = before.chunks \cup {k} /\ s2.resizes = before.resizes
         /\ s2.truncated = heard.truncated /\ s2.lastSeq = seq
         /\ s2.registered /\ s2.session = owner /\ s2.size = heard.size
    BY <1>6, <2>5 DEF Grown, HistoryState
  <2> HIDE DEF s2
  <2>15. Mirrors(s2, l2)
    <3>1. Hears(before, l, gap, k, s2, l2)
      BY <1>3, <1>6, <2>3, <2>8, <2>9, <2>14 DEF Hears, seq
    <3> QED BY <3>1, GrowthMirrors
  <2>16. Recorded(s2, l2)
    <3>1. Heard(l2) = Heard(l) \cup {seq}
      <4>1. new.seq = seq
        OBVIOUS
      <4> HIDE DEF new
      <4> QED BY <2>3, <4>1 DEF Heard
    <3>2. /\ Heard(l) \subseteq 1 .. before.lastSeq /\ IsFiniteSet(l.resizes)
          /\ \A r \in l.resizes : r.afterSeq <= before.lastSeq /\ r.afterSeq \in Nat
      BY <1>3 DEF Recorded, Logs, ResizeSet
    <3>3. Heard(l2) \subseteq 1 .. s2.lastSeq /\ s2.lastSeq \in Heard(l2)
      BY <1>5, <2>14, <3>1, <3>2
    <3>4. \A r \in l2.resizes : r.afterSeq <= s2.lastSeq
      BY <1>5, <2>3, <2>14, <3>2
    <3>5. Numbered(l2)
      BY <1>3, <2>3, <3>1, NumbersKept DEF Recorded
    <3> QED BY <2>3, <2>14, <3>2, <3>3, <3>4, <3>5 DEF Recorded
  <2>17. Good(b2, logs)
    BY <1>1, <2>4, <2>12, <2>13, <2>15 DEF Good
  <2>18. \A u \in Terminals : Recorded(b2.states[u], logs[u])
    BY <1>1, <2>4, <2>13, <2>16
  <2>19. \A x \in b2.order : x <= events + 1
    <3>1. \A x \in buffer.order : x \in Nat
      BY <1>1 DEF SoundBuffer
    <3> QED BY <1>1, <2>6, <2>8, <2>12, <3>1
  <2>20. \A u \in Terminals \ {t} : ~OverOwn(b2.states[u], lineLimit)
    BY <1>1, <2>13 DEF Stable
  <2>21. Holds(Enforce(b2, {t}, lineLimit), logs, lineLimit, events + 1)
    <3>1. {t} \in SUBSET Terminals /\ events + 1 \in Nat
      BY <1>1
    <3> QED BY <1>1, <2>4, <2>17, <2>18, <2>19, <2>20, <3>1, EnforceHolds
  <2>22. Holds(buffer', log', lineLimit', events')
    BY <1>2, <2>1, <2>2, <2>21
  <2> QED BY <2>22 DEF HistoryInv
<1> QED BY <1>7, <1>8
\* A resize that changes the size is numbered last and is in force.
LEMMA ResizeIsNumbered ==
    ASSUME NEW l, Numbered(l), IsFiniteSet(l.resizes), l.resizes \in SUBSET ResizeSet,
           NEW r \in ResizeSet, r.at = Cardinality(l.resizes) + 1,
           \A q \in l.resizes : q.afterSeq <= r.afterSeq, r.afterSeq \in Heard(l) \cup {0},
           NEW l2, l2.resizes = l.resizes \cup {r}, Heard(l2) = Heard(l)
    PROVE  Numbered(l2)
<1> DEFINE n == Cardinality(l.resizes)
<1>1. n \in Nat
  BY FS_CardinalityType
<1>2. \A q \in l.resizes : q.at \in 1 .. n /\ q.at < r.at
  BY <1>1 DEF Numbered
<1>3. r \notin l.resizes
  BY <1>1, <1>2
<1>4. Cardinality(l2.resizes) = n + 1
  BY <1>3, FS_AddElement
<1> HIDE DEF n
<1>5. \A q \in l2.resizes : q.at \in 1 .. (n + 1) /\ (q = r \/ q \in l.resizes)
  BY <1>1, <1>2 DEF n
<1>6. \A x, q \in l2.resizes : x.at = q.at => x = q
  BY <1>2, <1>5 DEF Numbered, ResizeSet
<1>7. \A x, q \in l2.resizes : x.at < q.at => x.afterSeq <= q.afterSeq
  <2> SUFFICES ASSUME NEW x \in l2.resizes, NEW q \in l2.resizes, x.at < q.at
               PROVE  x.afterSeq <= q.afterSeq
    OBVIOUS
  <2>1. CASE q = r
    BY <1>5, <2>1 DEF ResizeSet
  <2>2. CASE q \in l.resizes
    <3>1. x \in l.resizes
      BY <1>2, <1>5, <2>2 DEF ResizeSet
    <3> QED BY <2>2, <3>1 DEF Numbered
  <2> QED BY <1>5, <2>1, <2>2
<1>8. \A q \in l2.resizes : q.afterSeq \in Heard(l2) \cup {0}
  BY <1>5 DEF Numbered
<1> QED BY <1>4, <1>5, <1>6, <1>7, <1>8 DEF Numbered

LEMMA ResizeIsSized ==
    ASSUME NEW s, NEW l, Sized(s, l), Numbered(l), l.resizes \in SUBSET ResizeSet,
           \A c \in s.chunks : c.seq \in 1 .. s.lastSeq, s.lastSeq \in Nat,
           NEW r \in ResizeSet, r.at = Cardinality(l.resizes) + 1, r.size # s.size,
           Cardinality(l.resizes) \in Nat, r.afterSeq = s.lastSeq,
           NEW s2, s2.chunks = s.chunks, s2.size = r.size,
           NEW l2, l2.resizes = l.resizes \cup {r}
    PROVE  Sized(s2, l2)
<1>1. PICK start \in AllSizes : SizedFrom(s, l, start)
  BY DEF Sized
<1>2. \A q \in l.resizes : q.at \in Nat /\ q.at < r.at /\ r.at \in Nat
  BY DEF Numbered
<1>3. InForce(s2.size, l2.resizes, start)
  BY <1>2 DEF InForce, ResizeSet
<1>4. ASSUME NEW c \in s2.chunks
      PROVE  InForce(c.size, {q \in l2.resizes : q.afterSeq < c.seq}, start)
  <2>1. ~(r.afterSeq < c.seq)
    <3>1. c.seq \in 1 .. s.lastSeq
      OBVIOUS
    <3> QED BY <3>1
  <2>2. {q \in l2.resizes : q.afterSeq < c.seq} = {q \in l.resizes : q.afterSeq < c.seq}
    BY <2>1
  <2>3. InForce(c.size, {q \in l.resizes : q.afterSeq < c.seq}, start)
    BY <1>1 DEF SizedFrom
  <2> QED BY <2>2, <2>3
<1>5. ASSUME NEW x \in l2.resizes
      PROVE  ~InForce(x.size, {q \in l2.resizes : q.at < x.at}, start)
  <2>1. CASE x \in l.resizes
    <3>1. {q \in l2.resizes : q.at < x.at} = {q \in l.resizes : q.at < x.at}
      BY <1>2, <2>1
    <3>2. ~InForce(x.size, {q \in l.resizes : q.at < x.at}, start)
      BY <1>1, <2>1 DEF SizedFrom
    <3> QED BY <3>1, <3>2
  <2>2. CASE x = r
    <3>1. {q \in l2.resizes : q.at < r.at} = l.resizes
      BY <1>2 DEF ResizeSet
    <3>2. InForce(s.size, l.resizes, start)
      BY <1>1 DEF SizedFrom
    <3>3. ~InForce(r.size, l.resizes, start)
      BY <3>2, OneInForce DEF Numbered
    <3> QED BY <2>2, <3>1, <3>3
  <2> QED BY <2>1, <2>2
<1>6. SizedFrom(s2, l2, start)
  BY <1>3, <1>4, <1>5 DEF SizedFrom
<1> QED BY <1>6 DEF Sized

LEMMA ResizedHolds ==
    ASSUME HistoryInv, NEW t \in Terminals, NEW size \in Sizes, buffer.states[t].registered,
           buffer' = [buffer EXCEPT !.states[t] = Resized(t, size)], LogResize(t, size)
    PROVE  Holds(buffer', log', lineLimit, events)
<1> DEFINE s == buffer.states[t]
           s2 == Resized(t, size)
           l == log[t]
           r == NewResize(t, size)
<1>1. /\ Holds(buffer, log, lineLimit, events)
      /\ log \in [Terminals -> Logs] /\ l \in Logs
      /\ Mirrors(s, l) /\ Recorded(s, l)
      /\ SoundState(s) /\ s \in HistoryState
      /\ buffer \in [states: [Terminals -> HistoryState], order: SUBSET Nat, bytes: Nat, lines: Nat]
  BY DEF HistoryInv, Holds, Good, SoundBuffer, SoundState
<1>2. CASE size = s.size
  <2>1. s2 = s
    BY <1>2 DEF Resized
  <2>2. buffer' = buffer
    BY <1>1, <2>1
  <2>3. log' = log
    BY <1>2 DEF LogResize
  <2> QED BY <1>1, <2>2, <2>3
<1>3. CASE size # s.size
  <2> DEFINE l2 == [l EXCEPT !.resizes = @ \cup {r}]
  <2>1. log' = [log EXCEPT ![t].resizes = @ \cup {r}]
    BY <1>3 DEF LogResize
  <2>2. log' = [log EXCEPT ![t] = l2]
    BY <2>1
  <2>3. /\ r \in ResizeSet /\ r.afterSeq = s.lastSeq /\ r.size = size
        /\ r.at = Cardinality(l.resizes) + 1 /\ Cardinality(l.resizes) \in Nat
    <3>1. Cardinality(l.resizes) \in Nat
      BY <1>1, FS_CardinalityType DEF Recorded
    <3>2. s.lastSeq \in Nat /\ size \in AllSizes
      BY <1>1 DEF HistoryState, AllSizes
    <3> QED BY <3>1, <3>2 DEF NewResize, ResizeSet
  <2>4. s2 = [s EXCEPT !.size = size,
                       !.resizes = IF s.chunks = {} THEN @ ELSE @ \cup {r}]
    BY <1>3 DEF Resized
  <2> HIDE DEF r, s, s2
  <2>5. /\ l2 \in Logs /\ l2.outputs = l.outputs /\ l2.refused = l.refused
        /\ l2.resizes = l.resizes \cup {r}
    BY <1>1, <2>3 DEF Logs
  <2> HIDE DEF l2
  <2>6. /\ s2 \in HistoryState /\ SameChunks(s, s2) /\ s2.registered = s.registered
        /\ s2.session = s.session /\ s2.lastSeq = s.lastSeq /\ s2.truncated = s.truncated
        /\ s2.resizes = IF s.chunks = {} THEN s.resizes ELSE s.resizes \cup {r}
        /\ s2.size = size
    <3>1. size \in AllSizes /\ s.lastSeq \in Nat
      BY <1>1 DEF AllSizes, HistoryState
    <3>2. (IF s.chunks = {} THEN s.resizes ELSE s.resizes \cup {r}) \in SUBSET ResizeSet
      BY <1>1, <2>3 DEF HistoryState
    <3>3. s2 \in HistoryState
      BY <1>1, <2>4, <3>1, <3>2 DEF HistoryState
    <3>4. /\ s2.chunks = s.chunks /\ s2.bytes = s.bytes /\ s2.lineBreaks = s.lineBreaks
          /\ s2.textChunks = s.textChunks /\ s2.endsWithNewline = s.endsWithNewline
          /\ s2.registered = s.registered /\ s2.session = s.session
          /\ s2.lastSeq = s.lastSeq /\ s2.truncated = s.truncated
          /\ s2.resizes = IF s.chunks = {} THEN s.resizes ELSE s.resizes \cup {r}
          /\ s2.size = size
      BY <1>1, <2>4 DEF HistoryState
    <3> QED BY <3>1, <3>3, <3>4 DEF SameChunks
  <2>7. SoundState(s2) /\ s2.chunks = s.chunks
    BY <1>1, <2>6, SameChunksAreSound DEF SameChunks
  <2>8. Mirrors(s2, l2)
    <3>1. EndOf(s, l) /\ Complete(s, l) /\ ResizesSince(s, l) /\ Sized(s, l)
      BY <1>1 DEF Mirrors
    <3>2. EndOf(s2, l2)
      BY <2>5, <2>7, <3>1 DEF EndOf
    <3>3. Heard(l2) = Heard(l)
      BY <2>5 DEF Heard
    <3>4. Complete(s2, l2)
      BY <2>5, <2>6, <2>7, <3>1, <3>3 DEF Complete
    <3>5. s.chunks # {} => \E c \in s.chunks : c.seq <= r.afterSeq
      BY <1>1, <2>3 DEF SoundState, InOrder, HistoryState
    <3>6. ResizesSince(s2, l2)
      BY <2>5, <2>6, <2>7, <3>1, <3>5 DEF ResizesSince
    <3>7. Sized(s2, l2)
      <4>1. /\ Numbered(l) /\ l.resizes \in SUBSET ResizeSet
            /\ \A c \in s.chunks : c.seq \in 1 .. s.lastSeq
        BY <1>1 DEF Recorded, Logs, SoundState, InOrder
      <4>2. s.lastSeq \in Nat
        BY <1>1 DEF HistoryState
      <4> QED BY <1>3, <2>3, <2>5, <2>6, <2>7, <3>1, <4>1, <4>2, ResizeIsSized
    <3> QED BY <3>2, <3>4, <3>6, <3>7 DEF Mirrors
  <2>9. Recorded(s2, l2)
    <3>1. Heard(l2) = Heard(l)
      BY <2>5 DEF Heard
    <3>2. IsFiniteSet(l2.resizes)
      BY <1>1, <2>5, FS_AddElement DEF Recorded
    <3>3. \A x \in l2.resizes : x.afterSeq <= s2.lastSeq
      BY <1>1, <2>3, <2>5, <2>6 DEF Recorded, HistoryState
    <3>4. s.registered
      BY DEF s
    <3>5. Numbered(l2)
      <4>1. /\ Numbered(l) /\ IsFiniteSet(l.resizes) /\ l.resizes \in SUBSET ResizeSet
            /\ \A q \in l.resizes : q.afterSeq <= s.lastSeq
            /\ s.lastSeq \in Heard(l) \cup {0}
        BY <1>1 DEF Recorded, Logs
      <4> QED BY <2>3, <2>5, <3>1, <4>1, ResizeIsNumbered
    <3> QED BY <1>1, <2>6, <3>1, <3>2, <3>3, <3>4, <3>5 DEF Recorded
  <2>10. Holds([buffer EXCEPT !.states[t] = s2], [log EXCEPT ![t] = l2], lineLimit, events)
    <3>1. s2.registered /\ s2.chunks = buffer.states[t].chunks
      BY <2>6, <2>7 DEF s
    <3> QED BY <1>1, <2>5, <2>7, <2>8, <2>9, <3>1, QuietHolds
  <2>11. buffer' = [buffer EXCEPT !.states[t] = s2]
    BY DEF s2
  <2> QED BY <2>2, <2>10, <2>11
<1> QED BY <1>2, <1>3

\* Another session takes the terminal, or it is new.
LEMMA NewTerminalHolds ==
    ASSUME HistoryInv, NEW t \in Terminals, NEW owner \in Sessions, NEW size \in Sizes,
           buffer' = [(IF buffer.states[t].registered THEN Without(buffer, t) ELSE buffer)
                        EXCEPT !.states[t] = NewState(owner, size)],
           log' = [log EXCEPT ![t] = NoLog]
    PROVE  Holds(buffer', log', lineLimit, events)
<1> DEFINE b == IF buffer.states[t].registered THEN Without(buffer, t) ELSE buffer
           s2 == NewState(owner, size)
           l == [log EXCEPT ![t] = NoLog]
<1>1. Holds(buffer, log, lineLimit, events) /\ log \in [Terminals -> Logs]
  BY DEF HistoryInv, Holds
<1>2. Holds(b, l, lineLimit, events) /\ b.states[t].chunks = {}
  <2>1. CASE buffer.states[t].registered
    <3>1. Holds(Without(buffer, t), l, lineLimit, events)
      BY <1>1, RemovalHolds
    <3>2. Without(buffer, t).states = [buffer.states EXCEPT ![t] = Absent]
          /\ buffer.states \in [Terminals -> HistoryState]
      BY <1>1, RemovalIsSound DEF Holds, Good, SoundBuffer
    <3> QED BY <2>1, <3>1, <3>2, AbsentIsSound
  <2>2. CASE ~buffer.states[t].registered
    <3>1. log[t] = NoLog /\ buffer.states[t] = Absent
      BY <1>1, <2>2 DEF Holds, Recorded, Good, SoundBuffer
    <3>2. l = log
      BY <1>1, <3>1
    <3> QED BY <1>1, <2>2, <3>1, <3>2, AbsentIsSound
  <2> QED BY <2>1, <2>2
<1>3. /\ SoundState(s2) /\ Mirrors(s2, NoLog)
  BY NewStateIsSound DEF AllSizes
<1>4. s2.registered /\ s2.chunks = {} /\ s2.lastSeq = 0 /\ s2.session = owner
  BY DEF NewState
<1> HIDE DEF b, s2, l
<1>5. NoLog \in Logs /\ Recorded(s2, NoLog)
  BY <1>4, NoLogIsRecorded
<1>6. Holds([b EXCEPT !.states[t] = s2], [l EXCEPT ![t] = NoLog], lineLimit, events)
  BY <1>2, <1>3, <1>4, <1>5, QuietHolds
<1>7. buffer' = [b EXCEPT !.states[t] = s2]
  BY DEF b, s2
<1>8. log' = [l EXCEPT ![t] = NoLog]
  BY <1>1 DEF l
<1> QED BY <1>6, <1>7, <1>8

LEMMA HistoryInvInit == HistoryInit => HistoryInv
<1> SUFFICES ASSUME HistoryInit PROVE HistoryInv
  OBVIOUS
<1>1. /\ buffer = EmptyBuffer /\ lineLimit \in LineLimits /\ log = [t \in Terminals |-> NoLog]
      /\ events = 0 /\ calls = 0
  BY DEF HistoryInit
<1>2. Holds(EmptyBuffer, [t \in Terminals |-> NoLog], lineLimit, 0)
  BY <1>1, EmptyHolds
<1> QED BY <1>1, <1>2 DEF HistoryInv

LEMMA HistoryInvStep == HistoryInv /\ [HistoryNext]_historyVars => HistoryInv'
<1> SUFFICES ASSUME HistoryInv, [HistoryNext]_historyVars PROVE HistoryInv'
  OBVIOUS
<1>1. Holds(buffer, log, lineLimit, events) /\ calls \in Nat /\ events \in Nat
  BY DEF HistoryInv, Holds
<1>2. ASSUME Call PROVE calls' \in Nat /\ events' = events
  BY <1>1, <1>2 DEF Call
<1>3. ASSUME Call, UNCHANGED lineLimit, Holds(buffer', log', lineLimit, events) PROVE HistoryInv'
  BY <1>2, <1>3 DEF HistoryInv
<1>4. ASSUME NEW t \in Terminals, NEW owner \in Sessions, NEW size \in Sizes,
             Register(t, owner, size)
      PROVE  HistoryInv'
  <2>1. Call /\ UNCHANGED lineLimit
    BY <1>4 DEF Register
  <2>2. CASE buffer.states[t].registered /\ buffer.states[t].session = owner
    BY <1>3, <1>4, <2>1, <2>2, ResizedHolds DEF Register
  <2>3. CASE ~(buffer.states[t].registered /\ buffer.states[t].session = owner)
    BY <1>3, <1>4, <2>1, <2>3, NewTerminalHolds DEF Register
  <2> QED BY <2>2, <2>3
<1>5. ASSUME NEW t \in Terminals, NEW size \in Sizes, ResizeTerminal(t, size) PROVE HistoryInv'
  BY <1>3, <1>5, ResizedHolds DEF ResizeTerminal, Registered
<1>6. ASSUME NEW next \in LineLimits, SetLineLimit(next) PROVE HistoryInv'
  <2>1. /\ log \in [Terminals -> Logs] /\ Good(buffer, log)
        /\ \A t \in Terminals : Recorded(buffer.states[t], log[t])
        /\ \A x \in buffer.order : x <= events
    BY <1>1 DEF Holds
  <2>2. Registered \in SUBSET Terminals
    BY DEF Registered
  <2>3. ASSUME NEW t \in Terminals \ Registered PROVE ~OverOwn(buffer.states[t], next)
    <3>1. buffer.states[t] = Absent
      BY <2>1 DEF Registered, Good, SoundBuffer
    <3> QED BY <3>1, AbsentIsSound DEF OverOwn
  <2>4. Holds(Enforce(buffer, Registered, next), log, next, events)
    <3> HIDE DEF Registered
    <3> QED BY <1>1, <2>1, <2>2, <2>3, EnforceHolds
  <2>5. /\ Call /\ lineLimit' = next /\ log' = log
        /\ buffer' = Enforce(buffer, Registered, next)
    BY <1>6 DEF SetLineLimit
  <2> QED BY <1>2, <2>4, <2>5 DEF HistoryInv
<1>7. ASSUME NEW t \in Terminals, NEW owner \in Sessions, NEW gap \in 0 .. 1, NEW out \in Outputs,
             AppendOutput(t, owner, gap, out)
      PROVE  HistoryInv'
  <2>1. gap \in Nat
    OBVIOUS
  <2>2. calls' = calls + gap
    BY <1>7 DEF AppendOutput
  <2>3. calls' \in Nat
    BY <1>1, <2>1, <2>2
  <2> QED BY <1>7, <2>1, <2>3, AppendKeeps
<1>8. ASSUME NEW t \in Terminals, RemoveTerminal(t) PROVE HistoryInv'
  <2>1. Holds(Without(buffer, t), [log EXCEPT ![t] = NoLog], lineLimit, events)
    BY <1>1, RemovalHolds
  <2> QED BY <1>3, <1>8, <2>1 DEF RemoveTerminal
<1>9. ASSUME ClearHistory PROVE HistoryInv'
  <2>1. Holds(EmptyBuffer, [t \in Terminals |-> NoLog], lineLimit, events)
    BY <1>1, EmptyHolds DEF Holds
  <2> QED BY <1>3, <1>9, <2>1 DEF ClearHistory
<1>10. ASSUME UNCHANGED historyVars PROVE HistoryInv'
  BY <1>1, <1>10 DEF historyVars, HistoryInv
<1> QED BY <1>4, <1>5, <1>6, <1>7, <1>8, <1>9, <1>10 DEF HistoryNext


\* Every state of the history has the books in order (each count is that of its chunks and
\* the totals are sums over the terminals), retains the end of what was logged, and is
\* within the limits: what each call needs of the one before (append, resize, setLineLimit,
\* remove, clear).
THEOREM HistoryInvariant == HistorySpec => []HistoryInv
<1> QED BY HistoryInvInit, HistoryInvStep, PTL DEF HistorySpec
-----------------------------------------------------------------------------
(* The theorems. *)

LEMMA ChunksAreCounted ==
    ASSUME NEW b, SoundBuffer(b)
    PROVE  Cardinality(AllChunks(b)) = Cardinality(b.order)
<1> DEFINE f == [c \in AllChunks(b) |-> c.at]
           S == AllChunks(b)
<1>1. /\ b.order = Stamps(S) /\ IsFiniteSet(b.order)
      /\ \A c, d \in S : c.at = d.at => c = d
  BY DEF SoundBuffer
<1>2. f \in Bijection(S, b.order)
  <2> HIDE DEF S
  <2>1. f = [c \in S |-> c.at]
    BY DEF S
  <2>2. f \in [S -> b.order] /\ \A m \in b.order : \E c \in S : f[c] = m
    BY <1>1, <2>1 DEF Stamps
  <2>3. \A c, d \in S : f[c] = f[d] => c = d
    BY <1>1, <2>1
  <2> HIDE DEF f
  <2> QED BY <2>2, <2>3 DEF Bijection, Injection, Surjection, IsInjective
<1>3. ExistsBijection(S, b.order)
  BY <1>2 DEF ExistsBijection
<1>4. ExistsBijection(b.order, S)
  BY <1>3, Fun_ExistsBijSymmetric
<1> HIDE DEF S
<1>5. Cardinality(S) = Cardinality(b.order)
  BY <1>1, <1>4, FS_Bijection
<1> QED BY <1>5 DEF S

LEMMA HistoryIsTyped == HistoryInv => HistoryTypeOK
<1> SUFFICES ASSUME HistoryInv PROVE HistoryTypeOK
  OBVIOUS
<1>1. /\ lineLimit \in LineLimits /\ SoundBuffer(buffer)
      /\ \A t \in Terminals : Recorded(buffer.states[t], log[t])
  BY DEF HistoryInv, Holds, Good
<1>2. buffer.bytes \in Nat /\ buffer.lines \in Nat
  BY <1>1, GoodTypes
<1>3. ASSUME NEW t \in Registered
      PROVE  LET s == buffer.states[t] IN
             /\ s.session \in Sessions /\ s.size \in Sizes \cup {UnitSize}
             /\ {s.bytes, s.lineBreaks, s.textChunks, s.lastSeq, s.pending} \subseteq Nat
             /\ {s.truncated, s.endsWithNewline} \subseteq BOOLEAN
  <2> DEFINE s == buffer.states[t]
  <2>1. t \in Terminals /\ s.registered
    BY DEF Registered
  <2>2. s \in HistoryState /\ s.session \in Sessions
    BY <1>1, <2>1 DEF SoundBuffer, SoundState, Recorded
  <2> HIDE DEF s
  <2>3. /\ s.session \in Sessions /\ s.size \in Sizes \cup {UnitSize}
        /\ {s.bytes, s.lineBreaks, s.textChunks, s.lastSeq, s.pending} \subseteq Nat
    BY <2>2 DEF HistoryState, AllSizes
  <2>4. {s.truncated, s.endsWithNewline} \subseteq BOOLEAN
    <3>1. s.truncated \in BOOLEAN /\ s.endsWithNewline \in BOOLEAN
      BY <2>2 DEF HistoryState
    <3> QED BY <3>1, Zenon
  <2> QED BY <2>3, <2>4 DEF s
<1> QED BY <1>1, <1>2, <1>3 DEF HistoryTypeOK

LEMMA CountsAreRight == HistoryInv => CountsAreSums
<1> SUFFICES ASSUME HistoryInv PROVE CountsAreSums
  OBVIOUS
<1> DEFINE b == buffer
<1>1. SoundBuffer(b)
  BY DEF HistoryInv, Holds, Good
<1>2. \A t \in Terminals :
        /\ Counted(b.states[t]) /\ InOrder(b.states[t])
        /\ b.states[t].bytes = Lengths(b.states[t].chunks)
        /\ StateLines(b.states[t]) = Lines(b.states[t].chunks)
        /\ \A c \in b.states[t].chunks : c.terminal = t
        /\ ~b.states[t].registered => b.states[t] = Absent
  BY <1>1 DEF SoundBuffer, SoundState, Counted
<1>3. \A t \in Registered :
        LET s == buffer.states[t] IN
        /\ s.bytes = Lengths(s.chunks)
        /\ s.lineBreaks = Breaks(s.chunks)
        /\ StateLines(s) = Lines(s.chunks)
        /\ \A c, d \in s.chunks : c.at < d.at <=> c.seq < d.seq
  BY <1>2 DEF Registered, Counted, InOrder
<1>4. b.bytes = Total(Terminals, [t \in Terminals |-> Lengths(b.states[t].chunks)])
  <2> DEFINE v == [t \in Terminals |-> Lengths(b.states[t].chunks)]
  <2>1. \A t \in Terminals : BytesOf(b)[t] = v[t]
    BY <1>2 DEF BytesOf
  <2>2. Points(Terminals, BytesOf(b)) = Points(Terminals, v)
    BY <2>1, PointsSame
  <2>3. b.bytes = Total(Terminals, BytesOf(b))
    BY <1>1 DEF SoundBuffer
  <2> QED BY <2>2, <2>3 DEF Total
<1>5. b.lines = Total(Terminals, [t \in Terminals |-> Lines(b.states[t].chunks)])
  <2> DEFINE v == [t \in Terminals |-> Lines(b.states[t].chunks)]
  <2>1. \A t \in Terminals : LinesOf(b)[t] = v[t]
    BY <1>2 DEF LinesOf
  <2>2. Points(Terminals, LinesOf(b)) = Points(Terminals, v)
    BY <2>1, PointsSame
  <2>3. b.lines = Total(Terminals, LinesOf(b))
    BY <1>1 DEF SoundBuffer
  <2> QED BY <2>2, <2>3 DEF Total
<1>6. /\ b.order = {c.at : c \in AllChunks(b)}
      /\ \A c, d \in AllChunks(b) : c.at = d.at => c = d
  BY <1>1 DEF SoundBuffer, Stamps
<1>7. ASSUME NEW c \in AllChunks(b) PROVE c.terminal \in Registered
  <2>1. PICK t \in Terminals : c \in b.states[t].chunks
    BY ChunksOfBuffer
  <2>2. b.states[t].registered
    BY <1>2, <2>1, AbsentIsSound
  <2> QED BY <1>2, <2>1, <2>2 DEF Registered
<1> QED BY <1>3, <1>4, <1>5, <1>6, <1>7 DEF CountsAreSums

LEMMA LimitsAreKept == HistoryInv => LimitsHold
<1> SUFFICES ASSUME HistoryInv PROVE LimitsHold
  OBVIOUS
<1> DEFINE b == buffer
           all == lineLimit * Multiplier
<1>1. /\ SoundBuffer(b) /\ Stable(b, Terminals, lineLimit) /\ lineLimit \in LineLimits
      /\ CountsAreSums
  BY CountsAreRight DEF HistoryInv, Holds, Good
<1>2. lineLimit \in Nat /\ MaxBytes \in Nat /\ MaxTotalBytes \in Nat /\ all \in Nat
  BY <1>1, HistoryAssumption DEF HistoryAssumption
<1>3. ASSUME NEW t \in Registered
      PROVE  LET chunks == buffer.states[t].chunks IN
             /\ Lines(chunks) <= lineLimit
             /\ Lengths(chunks) <= MaxBytes
             /\ Cardinality(chunks) <= lineLimit
  <2> DEFINE s == b.states[t]
  <2>1. /\ t \in Terminals /\ s.bytes = Lengths(s.chunks) /\ StateLines(s) = Lines(s.chunks)
        /\ ~OverOwn(s, lineLimit)
    BY <1>1 DEF Registered, CountsAreSums, Stable
  <2>2. s.bytes \in Nat /\ StateLines(s) \in Nat /\ Cardinality(s.chunks) \in Nat
    BY <1>1, <2>1, GoodTypes
  <2> HIDE DEF s
  <2>3. CASE s.chunks = {}
    <3>1. Cardinality(s.chunks) = 0 /\ Lengths(s.chunks) = 0 /\ Lines(s.chunks) = 0
      BY <2>3, FS_EmptySet, SumsOfNone
    <3> QED BY <1>2, <3>1 DEF s
  <2>4. CASE s.chunks # {}
    <3>1. Lines(s.chunks) <= lineLimit /\ Lengths(s.chunks) <= MaxBytes
          /\ Cardinality(s.chunks) <= lineLimit
      BY <1>2, <2>1, <2>2, <2>4 DEF OverOwn
    <3> QED BY <3>1 DEF s
  <2> QED BY <2>3, <2>4
<1> HIDE DEF all
<1>4. b.lines <= all /\ b.bytes <= MaxTotalBytes /\ Cardinality(b.order) <= all
  <2>1. /\ b.bytes \in Nat /\ b.lines \in Nat /\ Cardinality(b.order) \in Nat
        /\ ~OverAll(b, lineLimit)
    BY <1>1, GoodTypes DEF Stable
  <2>2. CASE b.order # {}
    BY <1>2, <2>1, <2>2 DEF OverAll, all
  <2>3. CASE b.order = {}
    <3>1. \A t \in Terminals : b.states[t].chunks = {}
      BY <1>1, <2>3, ChunksOfBuffer DEF SoundBuffer, Stamps
    <3>2. \A t \in Terminals : BytesOf(b)[t] = 0 /\ LinesOf(b)[t] = 0
      BY <1>1, <3>1, SumsOfNone DEF SoundBuffer, SoundState, Counted, BytesOf, LinesOf
    <3>3. Total(Terminals, BytesOf(b)) = 0 /\ Total(Terminals, LinesOf(b)) = 0
      BY <3>2, TotalOfNothing
    <3>4. b.bytes = 0 /\ b.lines = 0
      BY <1>1, <3>3 DEF SoundBuffer
    <3>5. Cardinality(b.order) = 0
      BY <2>3, FS_EmptySet
    <3> QED BY <1>2, <3>4, <3>5
  <2> QED BY <2>2, <2>3
<1>5. Cardinality(AllChunks(b)) = Cardinality(b.order)
  BY <1>1, ChunksAreCounted
<1> QED BY <1>1, <1>3, <1>4, <1>5 DEF LimitsHold, CountsAreSums, all

\* After every call the counts of a terminal and the totals are the sums over what is
\* retained, the global order holds exactly the retained chunks, and no limit is exceeded:
\* the invariant relates each count to the chunks and the loops leave no excess
\* (enforceTerminalLimits, enforceGlobalLimits, evictChunk, trimLeadingLines, remove).
THEOREM TheBooksBalance == HistorySpec => []BooksBalance
<1>1. HistoryInv => BooksBalance
  BY HistoryIsTyped, CountsAreRight, LimitsAreKept DEF BooksBalance
<1> QED BY <1>1, HistoryInvariant, PTL

\* The data is a suffix of what l logs, from fromSeq to toSeq.
EndsTheLog(data, fromSeq, toSeq, truncated, l) ==
    /\ \A p \in data : \E e \in l.outputs :
         /\ p.seq = e.seq
         /\ \/ p.text = e.text
            \/ /\ p.seq = fromSeq
               /\ \E cut \in e.text.breaks : p.text = TextFrom(e.text, cut)
    /\ \A p, q \in data : p.seq = q.seq => p = q
    /\ \A e \in l.outputs : e.seq >= fromSeq => \E p \in data : p.seq = e.seq
    /\ \A p \in data : p.seq \in fromSeq .. toSeq
    /\ Heard(l) \subseteq 1 .. toSeq
    /\ toSeq \in Heard(l) \cup {0}
    /\ ~truncated =>
         /\ l.refused = {}
         /\ data = l.outputs
         /\ \A i, j \in Heard(l) : i .. j \subseteq Heard(l)

LEMMA SuffixOfLog ==
    ASSUME HistoryInv, NEW t \in Terminals, buffer.states[t].registered
    PROVE  LET s == buffer.states[t] IN
           EndsTheLog({[seq |-> c.seq, text |-> c.text] : c \in s.chunks},
                    IF s.chunks = {} THEN s.lastSeq + 1 ELSE Oldest(s.chunks).seq,
                    s.lastSeq, s.truncated, log[t])
<1> DEFINE s == buffer.states[t]
           l == log[t]
           data == {[seq |-> c.seq, text |-> c.text] : c \in s.chunks}
           fromSeq == IF s.chunks = {} THEN s.lastSeq + 1 ELSE Oldest(s.chunks).seq
<1>1. /\ SoundState(s) /\ EndOf(s, l) /\ Complete(s, l) /\ Recorded(s, l) /\ l \in Logs
  BY DEF HistoryInv, Holds, Good, Mirrors, SoundBuffer
<1>2. /\ s.lastSeq \in Nat
      /\ \A c \in s.chunks : c.at \in Nat /\ c.seq \in Nat /\ c.seq \in 1 .. s.lastSeq
      /\ \A e \in l.outputs : e.seq \in Nat
      /\ \A c, d \in s.chunks : /\ c.at < d.at <=> c.seq < d.seq
                                /\ c.at = d.at => c = d
  BY <1>1 DEF SoundState, HistoryState, ChunkSet, InOrder, Logs
<1>3. \A p : p \in data <=> \E c \in s.chunks : p = [seq |-> c.seq, text |-> c.text]
  OBVIOUS
<1> HIDE DEF s, l
<1>4. ASSUME s.chunks # {}
      PROVE  fromSeq = Oldest(s.chunks).seq /\ Oldest(s.chunks) \in s.chunks
             /\ \A c \in s.chunks : Oldest(s.chunks).at <= c.at /\ fromSeq <= c.seq
  <2>1. Oldest(s.chunks) \in s.chunks /\ \A c \in s.chunks : Oldest(s.chunks).at <= c.at
    BY <1>2, <1>4, OldestIsFirst
  <2>2. fromSeq = Oldest(s.chunks).seq
    BY <1>4
  <2> QED BY <1>2, <2>1, <2>2
<1> HIDE DEF fromSeq, data
<1>5. ASSUME NEW p \in data
      PROVE  /\ p.seq \in fromSeq .. s.lastSeq
             /\ \E e \in l.outputs :
                  /\ p.seq = e.seq
                  /\ \/ p.text = e.text
                     \/ /\ p.seq = fromSeq
                        /\ \E cut \in e.text.breaks : p.text = TextFrom(e.text, cut)
  <2>1. PICK c \in s.chunks : p = [seq |-> c.seq, text |-> c.text]
    BY <1>3
  <2>2. p.seq = c.seq /\ p.text = c.text
    BY <2>1
  <2>3. PICK e \in l.outputs :
          /\ c.seq = e.seq
          /\ \/ c.text = e.text
             \/ /\ \A d \in s.chunks : c.at <= d.at
                /\ \E cut \in e.text.breaks : c.text = TextFrom(e.text, cut)
    BY <1>1 DEF EndOf
  <2>4. ASSUME \A d \in s.chunks : c.at <= d.at PROVE c.seq = fromSeq
    <3>1. Oldest(s.chunks) \in s.chunks /\ c.at <= Oldest(s.chunks).at /\ Oldest(s.chunks).at <= c.at
      BY <1>4, <2>4
    <3>2. c = Oldest(s.chunks)
      BY <1>2, <3>1
    <3> QED BY <1>4, <3>2
  <2>5. p.seq \in fromSeq .. s.lastSeq
    BY <1>2, <1>4, <2>2
  <2> QED BY <2>2, <2>3, <2>4, <2>5
<1>6. ASSUME NEW p \in data, NEW q \in data, p.seq = q.seq PROVE p = q
  <2>1. PICK c \in s.chunks : p = [seq |-> c.seq, text |-> c.text]
    BY <1>3
  <2>2. PICK d \in s.chunks : q = [seq |-> d.seq, text |-> d.text]
    BY <1>3
  <2>3. c.seq = d.seq
    BY <1>6, <2>1, <2>2
  <2>4. c = d
    BY <1>2, <2>3
  <2> QED BY <2>1, <2>2, <2>4
<1>7. ASSUME NEW e \in l.outputs, e.seq >= fromSeq PROVE \E p \in data : p.seq = e.seq
  <2>1. s.chunks # {}
    <3>1. SUFFICES ASSUME s.chunks = {} PROVE FALSE
      OBVIOUS
    <3>2. fromSeq = s.lastSeq + 1
      BY <3>1 DEF fromSeq
    <3>3. e.seq \in 1 .. s.lastSeq
      BY <1>1 DEF Recorded, Heard
    <3> QED BY <1>2, <1>7, <3>2, <3>3
  <2>2. PICK d \in s.chunks : d.seq = e.seq
    <3>1. Oldest(s.chunks) \in s.chunks /\ Oldest(s.chunks).seq <= e.seq
      BY <1>2, <1>4, <1>7, <2>1
    <3> QED BY <1>1, <3>1 DEF EndOf
  <2>3. [seq |-> d.seq, text |-> d.text] \in data
    BY <1>3
  <2> QED BY <2>2, <2>3
<1>8. Heard(l) \subseteq 1 .. s.lastSeq /\ s.lastSeq \in Heard(l) \cup {0}
  BY <1>1 DEF Recorded
<1>9. ~s.truncated => /\ l.refused = {} /\ data = l.outputs
                      /\ \A i, j \in Heard(l) : i .. j \subseteq Heard(l)
  BY <1>1 DEF Complete, data
<1>10. EndsTheLog(data, fromSeq, s.lastSeq, s.truncated, l)
  BY <1>5, <1>6, <1>7, <1>8, <1>9 DEF EndsTheLog
<1> QED BY <1>10 DEF s, l, data, fromSeq

\* A snapshot is a suffix of what the terminal has written, whole but for the first lines
\* of its first output, and one that does not say that it is truncated lacks nothing: only
\* the oldest chunk is ever cut or evicted, and always with truncated set (append, snapshot).
THEOREM TheSnapshotsAreSuffixes == HistorySpec => []SnapshotsAreSuffixes
<1>1. HistoryInv => SnapshotsAreSuffixes
  <2>1. ASSUME HistoryInv, NEW t \in Registered
        PROVE  EndsTheLog(Snapshot(t).data, Snapshot(t).fromSeq, Snapshot(t).toSeq,
                        Snapshot(t).truncated, log[t])
    <3> DEFINE s == buffer.states[t]
    <3>1. t \in Terminals /\ s.registered
      BY DEF Registered
    <3>2. /\ Snapshot(t).data = {[seq |-> c.seq, text |-> c.text] : c \in s.chunks}
          /\ Snapshot(t).fromSeq = IF s.chunks = {} THEN s.lastSeq + 1 ELSE Oldest(s.chunks).seq
          /\ Snapshot(t).toSeq = s.lastSeq /\ Snapshot(t).truncated = s.truncated
      BY DEF Snapshot
    <3> QED BY <2>1, <3>1, <3>2, SuffixOfLog
  <2> QED BY <2>1 DEF SnapshotsAreSuffixes, EndsTheLog, Heard
<1> QED BY <1>1, HistoryInvariant, PTL

\* The resizes a terminal keeps, from which its replay is made, are exactly those since its
\* first retained output: pruning takes none too many and leaves none too old (resize,
\* pruneResizes).
THEOREM ResizesAreKept ==
    HistorySpec => [](\A t \in Registered : ResizesSince(buffer.states[t], log[t]))
<1>1. HistoryInv => \A t \in Registered : ResizesSince(buffer.states[t], log[t])
  BY DEF HistoryInv, Holds, Good, Mirrors, Registered
<1> QED BY <1>1, HistoryInvariant, PTL
-----------------------------------------------------------------------------
(* The plan of a replay. *)

\* After resizes P, which all come before the others of S, the size first is in force.
LEMMA InForceSince ==
    ASSUME NEW S \in SUBSET ResizeSet, \A r, q \in S : r.at = q.at => r = q,
           NEW P \in SUBSET S, \A p \in P, q \in S \ P : p.at < q.at,
           NEW start, NEW first, InForce(first, P, start), NEW size
    PROVE  InForce(size, S, start) <=> InForce(size, S \ P, first)
<1>1. \A r \in S : r.at \in Nat
  BY DEF ResizeSet
<1>2. CASE S \ P = {}
  <2>1. S = P
    BY <1>2
  <2>2. InForce(size, S, start) => size = first
    <3>1. \A r, q \in P : r.at = q.at => r = q
      OBVIOUS
    <3>2. P \in SUBSET ResizeSet
      OBVIOUS
    <3> QED BY <2>1, <3>1, <3>2, OneInForce
  <2>3. InForce(size, S \ P, first) <=> size = first
    BY <1>2 DEF InForce
  <2> QED BY <2>1, <2>2, <2>3
<1>3. CASE S \ P # {}
  <2>1. InForce(size, S, start) <=> \E r \in S : (\A q \in S : q.at <= r.at) /\ size = r.size
    BY <1>3 DEF InForce
  <2>2. InForce(size, S \ P, first)
          <=> \E r \in S \ P : (\A q \in S \ P : q.at <= r.at) /\ size = r.size
    BY <1>3 DEF InForce
  <2>3. ASSUME NEW r \in S, \A q \in S : q.at <= r.at PROVE r \in S \ P
    BY <1>1, <1>3, <2>3
  <2>4. ASSUME NEW r \in S \ P, \A q \in S \ P : q.at <= r.at PROVE \A q \in S : q.at <= r.at
    BY <1>1, <2>4
  <2> QED BY <2>1, <2>2, <2>3, <2>4
<1> QED BY <1>2, <1>3

\* What a plan is made of: chunks C and resizes R, each after one of the chunks, start in
\* force before them and final after.
Script(C, R, start, final) ==
    /\ C \in SUBSET ChunkSet /\ IsFiniteSet(C) /\ R \in SUBSET ResizeSet /\ IsFiniteSet(R)
    /\ \A c, d \in C : c.at < d.at <=> c.seq < d.seq
    /\ \A c, d \in C : c.at = d.at => c = d
    /\ \A c \in C : c.seq > 0
    /\ \A r, q \in R : r.at = q.at => r = q
    /\ \A r, q \in R : r.at < q.at => r.afterSeq <= q.afterSeq
    /\ \A r \in R : \E c \in C : c.seq = r.afterSeq
    /\ \A c \in C : InForce(c.size, {r \in R : r.afterSeq < c.seq}, start)
    /\ \A r \in R : ~InForce(r.size, {q \in R : q.at < r.at}, start)
    /\ InForce(final, R, start)

LEMMA ScriptOfState ==
    ASSUME NEW s, NEW l \in Logs, SoundState(s), Mirrors(s, l), Recorded(s, l),
           \A n \in l.refused, c \in s.chunks : n < c.seq
    PROVE  Script(s.chunks, s.resizes,
                  IF s.chunks = {} THEN s.size ELSE Oldest(s.chunks).size, s.size)
<1> DEFINE C == s.chunks
           R == s.resizes
           L == l.resizes
<1>1. /\ s \in HistoryState /\ C \in SUBSET ChunkSet /\ IsFiniteSet(C)
      /\ R \in SUBSET ResizeSet /\ s.lastSeq \in Nat
      /\ \A c, d \in C : c.at < d.at <=> c.seq < d.seq
      /\ \A c, d \in C : c.at = d.at => c = d
      /\ \A c \in C : c.seq \in 1 .. s.lastSeq
  BY DEF SoundState, HistoryState, InOrder
<1>2. /\ L \in SUBSET ResizeSet /\ IsFiniteSet(L)
      /\ \A r \in L : r.at \in Nat /\ r.afterSeq \in Nat /\ r.afterSeq \in Heard(l) \cup {0}
      /\ \A r, q \in L : r.at = q.at => r = q
      /\ \A r, q \in L : r.at < q.at => r.afterSeq <= q.afterSeq
  BY DEF Logs, ResizeSet, Recorded, Numbered
<1>3. R = {r \in L : \E c \in C : c.seq <= r.afterSeq}
  BY DEF Mirrors, ResizesSince
<1>4. \A e \in l.outputs, c \in C : c.seq <= e.seq => \E d \in C : d.seq = e.seq
  BY DEF Mirrors, EndOf
<1>5. PICK start \in AllSizes : SizedFrom(s, l, start)
  BY DEF Mirrors, Sized
<1>6. /\ InForce(s.size, L, start)
      /\ \A c \in C : InForce(c.size, {r \in L : r.afterSeq < c.seq}, start)
      /\ \A r \in L : ~InForce(r.size, {q \in L : q.at < r.at}, start)
  BY <1>5 DEF SizedFrom
<1>7. IsFiniteSet(R)
  <2>1. R \in SUBSET L
    BY <1>3
  <2> HIDE DEF R, L
  <2> QED BY <1>2, <2>1, FS_Subset
<1>8. \A c \in C : c.seq \in Nat /\ c.seq > 0 /\ c.at \in Nat
  BY <1>1 DEF ChunkSet
<1>9. ASSUME NEW r \in R PROVE \E c \in C : c.seq = r.afterSeq
  <2>1. PICK c \in C : c.seq <= r.afterSeq
    BY <1>3
  <2>2. r \in L /\ r.afterSeq \in Nat /\ r.afterSeq # 0
    BY <1>2, <1>3, <1>8, <2>1
  <2>3. r.afterSeq \in Heard(l)
    BY <1>2, <2>2
  <2>4. r.afterSeq \notin l.refused
    <3>1. ASSUME r.afterSeq \in l.refused PROVE FALSE
      <4>1. r.afterSeq < c.seq
        BY <3>1
      <4> QED BY <1>8, <2>1, <2>2, <4>1
    <3> QED BY <3>1
  <2>5. PICK e \in l.outputs : e.seq = r.afterSeq
    BY <2>3, <2>4 DEF Heard
  <2> QED BY <1>4, <2>1, <2>5
<1>10. CASE C = {}
  <2>1. R = {}
    BY <1>3, <1>10
  <2>2. InForce(s.size, R, s.size)
    BY <2>1 DEF InForce
  <2> QED BY <1>1, <1>7, <1>10, <2>1, <2>2 DEF Script
<1>11. CASE C # {}
  <2> DEFINE o == Oldest(C)
             P == {r \in L : r.afterSeq < o.seq}
  <2>1. o \in C /\ \A c \in C : o.at <= c.at
    <3> HIDE DEF C
    <3> QED BY <1>8, <1>11, OldestIsFirst
  <2>2. o.seq \in Nat /\ o.at \in Nat /\ \A c \in C : o.seq <= c.seq
    <3>1. ASSUME NEW c \in C PROVE o.seq <= c.seq
      <4>1. ~(c.at < o.at)
        BY <1>8, <2>1
      <4>2. ~(c.seq < o.seq)
        BY <1>1, <2>1, <4>1
      <4> QED BY <1>8, <2>1, <4>2
    <3> QED BY <1>8, <2>1, <3>1
  <2> HIDE DEF o
  <2>3. \A r \in L : r \in R <=> o.seq <= r.afterSeq
    BY <1>2, <1>3, <1>8, <2>1, <2>2
  <2>4. \A r \in L : r \in P <=> r \notin R
    BY <1>2, <2>2, <2>3
  <2>5. \A p \in P, q \in L \ P : p.at < q.at
    <3> SUFFICES ASSUME NEW p \in P, NEW q \in L \ P PROVE p.at < q.at
      OBVIOUS
    <3>1. p \in L /\ q \in L /\ p.afterSeq < q.afterSeq
      BY <1>2, <2>2
    <3>2. p.at # q.at
      BY <1>2, <3>1
    <3>3. ~(q.at < p.at)
      BY <1>2, <3>1
    <3> QED BY <1>2, <3>1, <3>2, <3>3
  <2>6. InForce(o.size, P, start)
    BY <1>6, <2>1
  <2> HIDE DEF P
  <2>7. P \in SUBSET L
    BY DEF P
  <2>8. ASSUME NEW S \in SUBSET L, P \in SUBSET S, NEW size, InForce(size, S, start)
        PROVE  InForce(size, S \ P, o.size)
    BY <1>2, <2>5, <2>6, <2>8, InForceSince
  <2>9. ASSUME NEW S \in SUBSET L, P \in SUBSET S, NEW size, ~InForce(size, S, start)
        PROVE  ~InForce(size, S \ P, o.size)
    BY <1>2, <2>5, <2>6, <2>9, InForceSince
  <2>10. ASSUME NEW c \in C PROVE InForce(c.size, {r \in R : r.afterSeq < c.seq}, o.size)
    <3> DEFINE S == {r \in L : r.afterSeq < c.seq}
    <3>1. P \in SUBSET S
      BY <1>2, <1>8, <2>2 DEF P
    <3>2. S \ P = {r \in R : r.afterSeq < c.seq}
      BY <1>3, <2>4, <2>7
    <3>3. InForce(c.size, S, start)
      BY <1>6
    <3>4. S \in SUBSET L
      OBVIOUS
    <3> HIDE DEF S
    <3> QED BY <2>8, <3>1, <3>2, <3>3, <3>4
  <2>11. ASSUME NEW r \in R PROVE ~InForce(r.size, {q \in R : q.at < r.at}, o.size)
    <3> DEFINE S == {q \in L : q.at < r.at}
    <3>1. r \in L /\ r \notin P
      BY <1>3, <2>4
    <3>2. P \in SUBSET S
      BY <2>5, <2>7, <3>1
    <3>3. S \ P = {q \in R : q.at < r.at}
      BY <1>3, <2>4, <2>7
    <3>4. ~InForce(r.size, S, start)
      BY <1>6, <3>1
    <3>5. S \in SUBSET L
      OBVIOUS
    <3> HIDE DEF S
    <3> QED BY <2>9, <3>2, <3>3, <3>4, <3>5
  <2>12. InForce(s.size, R, o.size)
    <3>1. L \ P = R
      BY <1>3, <2>4
    <3> QED BY <1>6, <2>7, <2>8, <3>1
  <2>13. \A r, q \in R : (r.at = q.at => r = q) /\ (r.at < q.at => r.afterSeq <= q.afterSeq)
    BY <1>2, <1>3
  <2> HIDE DEF C, R
  <2>14. Script(C, R, o.size, s.size)
    BY <1>1, <1>7, <1>8, <1>9, <2>10, <2>11, <2>12, <2>13 DEF Script
  <2> QED BY <1>11, <2>14 DEF C, R, o
<1> QED BY <1>10, <1>11

Before(S, x) == {y \in S : y.at <= x.at}

\* The n-th in the order of the stamps.
LEMMA SortedAt ==
    ASSUME NEW S, IsFiniteSet(S), \A x \in S : x.at \in Nat,
           \A x, y \in S : x.at = y.at => x = y,
           NEW x \in S, NEW n \in 1 .. Cardinality(S), Cardinality(Before(S, x)) = n
    PROVE  Sorted(S)[n] = x
<1>1. ASSUME NEW z \in S, Cardinality(Before(S, z)) = n, NEW y \in S,
             Cardinality(Before(S, y)) = n, z.at < y.at
      PROVE  FALSE
  <2>1. IsFiniteSet(Before(S, y)) /\ Cardinality(Before(S, y)) \in Nat
    <3>1. Before(S, y) \in SUBSET S
      BY DEF Before
    <3> QED BY <3>1, FS_Subset, FS_CardinalityType
  <2>2. y \in Before(S, y) /\ y \notin Before(S, z)
    BY <1>1 DEF Before
  <2>3. Before(S, z) \in SUBSET (Before(S, y) \ {y})
    BY <1>1, <2>2 DEF Before
  <2>4. /\ IsFiniteSet(Before(S, y) \ {y})
        /\ Cardinality(Before(S, y) \ {y}) = Cardinality(Before(S, y)) - 1
    BY <2>1, <2>2, FS_RemoveElement
  <2>5. Cardinality(Before(S, z)) <= Cardinality(Before(S, y) \ {y})
    BY <2>3, <2>4, FS_Subset
  <2> QED BY <1>1, <2>1, <2>4, <2>5
<1>2. ASSUME NEW z \in S, Cardinality(Before(S, z)) = n PROVE z = x
  <2>1. ~(z.at < x.at) /\ ~(x.at < z.at)
    BY <1>1, <1>2
  <2> QED BY <2>1
<1>3. Sorted(S)[n] = CHOOSE z \in S : Cardinality(Before(S, z)) = n
  BY DEF Sorted, Before
<1> QED BY <1>2, <1>3

\* The resize r as an entry of the plan.
Entry(C, r) == [offset |-> Lengths({c \in C : c.seq <= r.afterSeq}), size |-> r.size]
Entries == [offset: Nat, size: AllSizes]
Planned(C, R, n) == [i \in 1 .. n |-> Entry(C, Sorted(R)[i])]

Plans == [size: AllSizes, resizes: Seq(Entries), offset: Nat, seq: Nat,
          chunks: SUBSET ChunkSet, left: SUBSET ResizeSet]

\* Chunks are written and resizes taken in order, and each resize right after its chunk.
Playing(p, C, R, start) ==
    /\ p \in Plans /\ p.chunks \in SUBSET C /\ p.left \in SUBSET R
    /\ \A c \in C \ p.chunks, d \in p.chunks : c.seq < d.seq
    /\ \A r \in R \ p.left, q \in p.left : r.at < q.at
    /\ p.offset = Lengths(C \ p.chunks)
    /\ \A c \in C \ p.chunks : c.seq <= p.seq
    /\ (C \ p.chunks = {} /\ p.seq = 0) \/ \E c \in C \ p.chunks : c.seq = p.seq
    /\ \A r \in R \ p.left : r.afterSeq <= p.seq
    /\ \A r \in p.left : r.afterSeq >= p.seq
    /\ InForce(p.size, R \ p.left, start)
    /\ p.resizes = Planned(C, R, Cardinality(R \ p.left))

Remaining(p) == Cardinality(p.chunks) + Cardinality(p.left)

\* The next resize is due.
Takes(p) == p.left # {} /\ (p.chunks = {} \/ Oldest(p.left).afterSeq <= p.seq)

LEMMA TakingGoesOn ==
    ASSUME NEW C, NEW R, NEW start, NEW final, Script(C, R, start, final),
           NEW p, Playing(p, C, R, start), Takes(p)
    PROVE  LET q == Play(p) IN
           /\ Playing(q, C, R, start)
           /\ q.chunks = p.chunks /\ \E r \in p.left : q.left = p.left \ {r}
<1> DEFINE r == Oldest(p.left)
           W == C \ p.chunks
           T == R \ p.left
           e == [offset |-> p.offset, size |-> r.size]
           q == [p EXCEPT !.size = r.size, !.resizes = Append(p.resizes, e),
                          !.left = p.left \ {r}]
<1>1. /\ p \in Plans /\ p.chunks \in SUBSET C /\ p.left \in SUBSET R
      /\ \A c \in W, d \in p.chunks : c.seq < d.seq
      /\ \A x \in T, y \in p.left : x.at < y.at
      /\ p.offset = Lengths(W)
      /\ \A c \in W : c.seq <= p.seq
      /\ (W = {} /\ p.seq = 0) \/ \E c \in W : c.seq = p.seq
      /\ \A x \in T : x.afterSeq <= p.seq
      /\ \A x \in p.left : x.afterSeq >= p.seq
      /\ InForce(p.size, T, start)
      /\ p.resizes = Planned(C, R, Cardinality(T))
      /\ p.seq \in Nat /\ p.size \in AllSizes /\ p.resizes \in Seq(Entries) /\ p.offset \in Nat
  BY DEF Playing, Plans
<1>2. /\ C \in SUBSET ChunkSet /\ IsFiniteSet(C) /\ R \in SUBSET ResizeSet /\ IsFiniteSet(R)
      /\ \A c \in C : c.seq > 0 /\ c.seq \in Nat
      /\ \A x \in R : x.at \in Nat /\ x.afterSeq \in Nat /\ x.size \in AllSizes
      /\ \A x, y \in R : x.at = y.at => x = y
      /\ \A x \in R : \E c \in C : c.seq = x.afterSeq
      /\ \A x \in R : ~InForce(x.size, {y \in R : y.at < x.at}, start)
  BY DEF Script, ChunkSet, ResizeSet
<1>3. r \in p.left /\ \A y \in p.left : r.at <= y.at
  BY <1>1, <1>2, OldestIsFirst DEF Takes
<1>4. r \in R /\ r \notin T /\ r.size \in AllSizes /\ r.at \in Nat /\ r.afterSeq \in Nat
  BY <1>1, <1>2, <1>3
<1>5. r.afterSeq <= p.seq
  <2>1. CASE p.chunks = {}
    <3>1. PICK c \in C : c.seq = r.afterSeq
      BY <1>2, <1>4
    <3> QED BY <1>1, <2>1, <3>1
  <2> QED BY <2>1 DEF Takes
<1>6. r.afterSeq = p.seq
  BY <1>1, <1>3, <1>4, <1>5
<1> HIDE DEF r
<1>7. T = {y \in R : y.at < r.at}
  BY <1>1, <1>2, <1>3, <1>4
<1>8. r.size # p.size
  BY <1>1, <1>2, <1>4, <1>7
<1>9. Play(p) = q
  <2>1. Push(p, r.size) = [p EXCEPT !.size = r.size, !.resizes = Append(p.resizes, e)]
    BY <1>8 DEF Push
  <2>2. Play(p) = [Push(p, r.size) EXCEPT !.left = p.left \ {r}]
    <3>1. Push(p, r.size).left = p.left
      BY <1>1, <2>1 DEF Plans
    <3> QED BY <3>1 DEF Play, Takes, r
  <2> QED BY <1>1, <2>1, <2>2 DEF Plans
<1>10. e \in Entries
  BY <1>1, <1>4 DEF Entries
<1>11. /\ q \in Plans /\ q.size = r.size /\ q.resizes = Append(p.resizes, e)
       /\ q.left = p.left \ {r} /\ q.chunks = p.chunks /\ q.seq = p.seq /\ q.offset = p.offset
  <2>1. Append(p.resizes, e) \in Seq(Entries)
    BY <1>1, <1>10, AppendFacts
  <2> HIDE DEF e
  <2> QED BY <1>1, <1>4, <2>1 DEF Plans
<1> HIDE DEF q
<1>12. C \ q.chunks = W /\ R \ q.left = T \cup {r}
  BY <1>1, <1>4, <1>11
<1>13. {c \in C : c.seq <= r.afterSeq} = W
  <2>1. ASSUME NEW c \in p.chunks PROVE ~(c.seq <= r.afterSeq)
    <3>1. c.seq \in Nat /\ c.seq > 0
      BY <1>1, <1>2
    <3> QED BY <1>1, <1>6, <3>1
  <2> QED BY <1>1, <1>6, <2>1
<1>14. IsFiniteSet(T) /\ Cardinality(T) \in Nat
  <2>1. T \in SUBSET R
    OBVIOUS
  <2> HIDE DEF T
  <2> QED BY <1>2, <2>1, FS_Subset, FS_CardinalityType
<1>15. Cardinality(T \cup {r}) = Cardinality(T) + 1
  <2> HIDE DEF T
  <2> QED BY <1>4, <1>14, FS_AddElement
<1>16. Cardinality(T \cup {r}) <= Cardinality(R)
  <2>1. (T \cup {r}) \in SUBSET R
    BY <1>4
  <2> HIDE DEF T
  <2> QED BY <1>2, <2>1, FS_Subset
<1>17. Sorted(R)[Cardinality(T) + 1] = r
  <2>1. Before(R, r) = T \cup {r}
    BY <1>2, <1>4, <1>7 DEF Before
  <2>2. Cardinality(R) \in Nat
    BY <1>2, FS_CardinalityType
  <2>3. Cardinality(T) + 1 \in 1 .. Cardinality(R)
    BY <1>14, <1>15, <1>16, <2>2
  <2> HIDE DEF T
  <2> QED BY <1>2, <1>4, <1>15, <2>1, <2>3, SortedAt
<1>18. q.resizes = Planned(C, R, Cardinality(T \cup {r}))
  <2> DEFINE n == Cardinality(T)
  <2>1. e = Entry(C, r)
    BY <1>1, <1>13 DEF Entry
  <2> HIDE DEF e, T
  <2>2. n \in Nat
    BY <1>14
  <2>3. /\ p.resizes = Planned(C, R, n) /\ p.resizes \in Seq(Entries)
        /\ Sorted(R)[n + 1] = r
    BY <1>1, <1>17
  <2> HIDE DEF n
  <2>4. Len(p.resizes) = n /\ \A i \in 1 .. n : p.resizes[i] = Entry(C, Sorted(R)[i])
    BY <2>2, <2>3 DEF Planned
  <2>5. /\ Len(q.resizes) = n + 1 /\ q.resizes \in Seq(Entries)
        /\ \A i \in 1 .. n : q.resizes[i] = p.resizes[i] /\ q.resizes[n + 1] = e
    BY <1>10, <1>11, <2>2, <2>3, <2>4, AppendProperties
  <2>6. q.resizes[n + 1] = e
    BY <1>10, <1>11, <2>2, <2>3, <2>4, AppendProperties
  <2>7. \A i \in 1 .. (n + 1) : q.resizes[i] = Entry(C, Sorted(R)[i])
    BY <2>1, <2>2, <2>3, <2>4, <2>5, <2>6
  <2>8. q.resizes = [i \in 1 .. (n + 1) |-> q.resizes[i]]
    BY <2>2, <2>5, LenProperties
  <2>9. q.resizes = Planned(C, R, n + 1)
    BY <2>7, <2>8 DEF Planned
  <2> QED BY <1>15, <2>9 DEF n
<1>19. InForce(q.size, T \cup {r}, start)
  BY <1>2, <1>4, <1>7, <1>11 DEF InForce
<1>20. \A x \in T \cup {r}, y \in p.left \ {r} : x.at < y.at
  BY <1>1, <1>2, <1>3, <1>4
<1>21. \A x \in T \cup {r} : x.afterSeq <= p.seq
  BY <1>1, <1>5
<1>22. Playing(q, C, R, start)
  BY <1>1, <1>11, <1>12, <1>18, <1>19, <1>20, <1>21 DEF Playing
<1> QED BY <1>3, <1>9, <1>11, <1>22

\* Nothing is resized before a chunk is written, the sizes being in force by then.
LEMMA WritingGoesOn ==
    ASSUME NEW C, NEW R, NEW start, NEW final, Script(C, R, start, final),
           NEW p, Playing(p, C, R, start), ~Takes(p), p.chunks # {}
    PROVE  LET q == Play(p) IN
           /\ Playing(q, C, R, start)
           /\ q.left = p.left /\ \E c \in p.chunks : q.chunks = p.chunks \ {c}
<1> DEFINE c == Oldest(p.chunks)
           W == C \ p.chunks
           T == R \ p.left
           q == [p EXCEPT !.chunks = p.chunks \ {c}, !.seq = c.seq,
                          !.offset = p.offset + c.text.length]
<1>1. /\ p \in Plans /\ p.chunks \in SUBSET C /\ p.left \in SUBSET R
      /\ \A d \in W, e \in p.chunks : d.seq < e.seq
      /\ \A x \in T, y \in p.left : x.at < y.at
      /\ p.offset = Lengths(W)
      /\ \A d \in W : d.seq <= p.seq
      /\ (W = {} /\ p.seq = 0) \/ \E d \in W : d.seq = p.seq
      /\ \A x \in T : x.afterSeq <= p.seq
      /\ InForce(p.size, T, start)
      /\ p.resizes = Planned(C, R, Cardinality(T))
      /\ p.seq \in Nat
  BY DEF Playing, Plans
<1>2. /\ C \in SUBSET ChunkSet /\ IsFiniteSet(C) /\ R \in SUBSET ResizeSet
      /\ \A d \in C : d.seq > 0 /\ d.seq \in Nat /\ d.at \in Nat
      /\ \A d, e \in C : d.at < e.at <=> d.seq < e.seq
      /\ \A d, e \in C : d.at = e.at => d = e
      /\ \A x \in R : x.at \in Nat /\ x.afterSeq \in Nat
      /\ \A x, y \in R : x.at = y.at => x = y
      /\ \A x, y \in R : x.at < y.at => x.afterSeq <= y.afterSeq
      /\ \A x \in R : \E d \in C : d.seq = x.afterSeq
      /\ \A d \in C : InForce(d.size, {x \in R : x.afterSeq < d.seq}, start)
  BY DEF Script, ChunkSet, ResizeSet
<1>3. c \in p.chunks /\ \A d \in p.chunks : c.at <= d.at
  BY <1>1, <1>2, OldestIsFirst
<1>4. c \in C /\ c \notin W /\ c \in ChunkSet /\ c.seq \in Nat /\ c.at \in Nat /\ c.seq > p.seq
  <2>1. c \in C /\ c \notin W /\ c \in ChunkSet /\ c.seq \in Nat /\ c.at \in Nat /\ c.seq > 0
    BY <1>1, <1>2, <1>3
  <2>2. \A d \in W : d.seq < c.seq
    BY <1>1, <1>3
  <2> QED BY <1>1, <2>1, <2>2
<1> HIDE DEF c
<1>5. ASSUME NEW d \in p.chunks, d # c PROVE c.seq < d.seq
  <2>1. d \in C /\ d.at \in Nat /\ d.at # c.at /\ c.at <= d.at
    BY <1>1, <1>2, <1>3, <1>4, <1>5
  <2> QED BY <1>2, <1>4, <2>1
<1>6. ASSUME NEW x \in p.left PROVE x.afterSeq >= c.seq
  <2>1. /\ Oldest(p.left) \in p.left /\ \A y \in p.left : Oldest(p.left).at <= y.at
    BY <1>1, <1>2, OldestIsFirst
  <2>2. Oldest(p.left).afterSeq > p.seq
    BY <1>1, <1>2, <2>1 DEF Takes
  <2>3. x \in R /\ Oldest(p.left) \in R /\ Oldest(p.left).at <= x.at
    BY <1>1, <2>1
  <2>4. Oldest(p.left).afterSeq <= x.afterSeq
    <3>1. CASE Oldest(p.left).at = x.at
      BY <1>2, <2>3, <3>1
    <3>2. CASE Oldest(p.left).at < x.at
      BY <1>2, <2>3, <3>2
    <3> QED BY <1>2, <2>3, <3>1, <3>2
  <2>5. x.afterSeq > p.seq
    BY <1>1, <1>2, <2>2, <2>3, <2>4
  <2>6. PICK d \in C : d.seq = x.afterSeq
    BY <1>2, <2>3
  <2>7. d \in p.chunks
    <3>1. ASSUME d \in W PROVE FALSE
      BY <1>1, <1>2, <2>5, <2>6, <3>1
    <3> QED BY <3>1
  <2> QED BY <1>2, <1>4, <1>5, <2>6, <2>7
<1>7. c.size = p.size
  <2>1. T = {x \in R : x.afterSeq < c.seq}
    <3>1. ASSUME NEW x \in T PROVE x.afterSeq < c.seq
      BY <1>1, <1>2, <1>4
    <3>2. ASSUME NEW x \in p.left PROVE ~(x.afterSeq < c.seq)
      BY <1>1, <1>2, <1>4, <1>6
    <3> QED BY <3>1, <3>2
  <2>2. InForce(c.size, T, start) /\ InForce(p.size, T, start)
    BY <1>1, <1>2, <1>4, <2>1
  <2>3. T \in SUBSET ResizeSet /\ \A x, y \in T : x.at = y.at => x = y
    BY <1>2
  <2> HIDE DEF T
  <2> QED BY <2>2, <2>3, OneInForce
<1>8. Play(p) = q
  <2>1. Push(p, c.size) = p
    BY <1>7 DEF Push
  <2>2. Play(p) = [Push(p, c.size) EXCEPT !.chunks = Push(p, c.size).chunks \ {c},
                     !.seq = c.seq, !.offset = Push(p, c.size).offset + c.text.length]
    BY DEF Play, Takes, c
  <2> QED BY <2>1, <2>2
<1>9. Lengths(W \cup {c}) = Lengths(W) + c.text.length /\ Lengths(W \cup {c}) \in Nat
  <2>1. W \cup {c} \in SUBSET ChunkSet /\ W \cup {c} \in SUBSET C /\ (W \cup {c}) \ {c} = W
    BY <1>2, <1>4
  <2> HIDE DEF W
  <2>2. IsFiniteSet(W \cup {c})
    BY <1>2, <2>1, FS_Subset
  <2> QED BY <2>1, <2>2, SumsWithout
<1>10. /\ q \in Plans /\ q.size = p.size /\ q.resizes = p.resizes /\ q.left = p.left
       /\ q.chunks = p.chunks \ {c} /\ q.seq = c.seq
       /\ q.offset = Lengths(W \cup {c})
  <2>1. p.offset + c.text.length \in Nat /\ p.offset + c.text.length = Lengths(W \cup {c})
    BY <1>1, <1>9
  <2> HIDE DEF W
  <2> QED BY <1>1, <1>4, <2>1 DEF Plans
<1> HIDE DEF q
<1>11. C \ q.chunks = W \cup {c} /\ R \ q.left = T
  BY <1>4, <1>10
<1>12. \A d \in W \cup {c}, e \in p.chunks \ {c} : d.seq < e.seq
  BY <1>1, <1>5
<1>13. \A d \in W \cup {c} : d.seq <= c.seq
  BY <1>1, <1>2, <1>3, <1>4
<1>14. \A x \in T : x.afterSeq <= c.seq
  BY <1>1, <1>2, <1>4
<1>15. Playing(q, C, R, start)
  BY <1>1, <1>6, <1>10, <1>11, <1>12, <1>13, <1>14 DEF Playing
<1> QED BY <1>3, <1>8, <1>10, <1>15

\* The plan of a script is played to its end.
FirstPlan(C, R, start) ==
    [size |-> start, resizes |-> <<>>, offset |-> 0, seq |-> 0, chunks |-> C, left |-> R]

LEMMA FirstIsPlaying ==
    ASSUME NEW C, NEW R, NEW start \in AllSizes, NEW final, Script(C, R, start, final)
    PROVE  Playing(FirstPlan(C, R, start), C, R, start)
<1> DEFINE p == FirstPlan(C, R, start)
<1>1. C \in SUBSET ChunkSet /\ R \in SUBSET ResizeSet /\ \A r \in R : r.afterSeq \in Nat
  BY DEF Script, ResizeSet
<1>2. /\ p.size = start /\ p.resizes = <<>> /\ p.offset = 0 /\ p.seq = 0
      /\ p.chunks = C /\ p.left = R
  BY DEF FirstPlan
<1>3. p \in Plans
  <2>1. <<>> \in Seq(Entries)
    OBVIOUS
  <2> QED BY <1>1, <2>1 DEF FirstPlan, Plans
<1> HIDE DEF p
<1>4. C \ p.chunks = {} /\ R \ p.left = {}
  BY <1>2
<1>5. p.resizes = Planned(C, R, Cardinality({}))
  <2>1. Cardinality({}) = 0 /\ 1 .. 0 = {}
    BY FS_EmptySet
  <2>2. Planned(C, R, 0) = [i \in {} |-> Entry(C, Sorted(R)[i])]
    BY <2>1 DEF Planned
  <2>3. <<>> = [i \in {} |-> Entry(C, Sorted(R)[i])]
    OBVIOUS
  <2> QED BY <1>2, <2>1, <2>2, <2>3
<1>6. InForce(p.size, {}, start)
  BY <1>2 DEF InForce
<1>7. p.offset = Lengths({})
  BY <1>2, SumsOfNone
<1>8. /\ \A r \in p.left : r.afterSeq >= p.seq
      /\ \A c \in {} : c.seq <= p.seq
      /\ \A r \in {} : r.afterSeq <= p.seq
  BY <1>1, <1>2
<1>9. /\ \A c \in {}, d \in p.chunks : c.seq < d.seq
      /\ \A r \in {}, q \in p.left : r.at < q.at
      /\ p.chunks \in SUBSET C /\ p.left \in SUBSET R
  BY <1>2
<1>10. Playing(p, C, R, start)
  BY <1>2, <1>3, <1>4, <1>5, <1>6, <1>7, <1>8, <1>9 DEF Playing
<1> QED BY <1>10 DEF p

LEMMA PlayGoesOn ==
    ASSUME NEW C, NEW R, NEW start, NEW final, Script(C, R, start, final),
           NEW p, Playing(p, C, R, start)
    PROVE  /\ Remaining(p) \in Nat
           /\ Remaining(p) = 0 => p.chunks = {} /\ p.left = {}
           /\ Remaining(p) # 0 => /\ Playing(Play(p), C, R, start)
                                  /\ Remaining(Play(p)) = Remaining(p) - 1
<1> DEFINE q == Play(p)
<1>1. IsFiniteSet(p.chunks) /\ IsFiniteSet(p.left)
  <2>1. /\ p.chunks \in SUBSET C /\ p.left \in SUBSET R /\ IsFiniteSet(C) /\ IsFiniteSet(R)
    BY DEF Playing, Script
  <2> QED BY <2>1, FS_Subset
<1>2. /\ Cardinality(p.chunks) \in Nat /\ Cardinality(p.left) \in Nat
      /\ (Cardinality(p.chunks) = 0 <=> p.chunks = {})
      /\ (Cardinality(p.left) = 0 <=> p.left = {})
  BY <1>1, FS_CardinalityType, FS_EmptySet
<1>3. /\ Remaining(p) \in Nat
      /\ Remaining(p) = 0 <=> (p.chunks = {} /\ p.left = {})
  <2>1. \A m, n \in Nat : m + n \in Nat /\ (m + n = 0 <=> (m = 0 /\ n = 0))
    OBVIOUS
  <2> QED BY <1>2, <2>1 DEF Remaining
<1>4. CASE Takes(p)
  <2>1. PICK r \in p.left : Playing(q, C, R, start) /\ q.chunks = p.chunks /\ q.left = p.left \ {r}
    BY <1>4, TakingGoesOn
  <2> HIDE DEF q
  <2>2. Cardinality(q.left) = Cardinality(p.left) - 1
    BY <1>1, <2>1, FS_RemoveElement
  <2>3. Remaining(q) = Remaining(p) - 1
    BY <1>2, <2>1, <2>2 DEF Remaining
  <2> QED BY <1>3, <2>1, <2>3 DEF q
<1>5. CASE ~Takes(p) /\ p.chunks # {}
  <2>1. PICK c \in p.chunks : Playing(q, C, R, start) /\ q.left = p.left /\ q.chunks = p.chunks \ {c}
    BY <1>5, WritingGoesOn
  <2> HIDE DEF q
  <2>2. Cardinality(q.chunks) = Cardinality(p.chunks) - 1
    BY <1>1, <2>1, FS_RemoveElement
  <2>3. Remaining(q) = Remaining(p) - 1
    BY <1>2, <2>1, <2>2 DEF Remaining
  <2> QED BY <1>3, <2>1, <2>3 DEF q
<1>6. CASE ~Takes(p) /\ p.chunks = {}
  BY <1>3, <1>6 DEF Takes
<1> QED BY <1>4, <1>5, <1>6

LEMMA PlayEnds ==
    ASSUME NEW C, NEW R, NEW start, NEW final, Script(C, R, start, final),
           NEW p, Playing(p, C, R, start), Remaining(p) = 0
    PROVE  Push(p, final).resizes = Planned(C, R, Cardinality(R))
<1>1. p.chunks = {} /\ p.left = {}
  BY PlayGoesOn
<1>2. InForce(p.size, R, start) /\ p.resizes = Planned(C, R, Cardinality(R))
  <2>1. R \ p.left = R
    BY <1>1
  <2> QED BY <2>1 DEF Playing
<1>3. R \in SUBSET ResizeSet /\ (\A r, q \in R : r.at = q.at => r = q) /\ InForce(final, R, start)
  BY DEF Script
<1>4. final = p.size
  BY <1>2, <1>3, OneInForce
<1> QED BY <1>2, <1>4 DEF Push

LEMMA ReplayIsPlanned ==
    ASSUME NEW s, NEW start \in AllSizes,
           start = IF s.chunks = {} THEN s.size ELSE Oldest(s.chunks).size,
           Script(s.chunks, s.resizes, start, s.size)
    PROVE  Replay(s).resizes = Planned(s.chunks, s.resizes, Cardinality(s.resizes))
<1> DEFINE C == s.chunks
           R == s.resizes
           N == Cardinality(C) + Cardinality(R)
           plan == FirstPlan(C, R, start)
           job == [replays |-> TRUE]
<1>1. PICK after : IsAfter(after, plan, job) /\ Replay(s).resizes = Push(after[N], s.size).resizes
  <2> DEFINE f == CHOOSE f : f = [n \in Nat |-> IF n = 0 THEN plan ELSE Play(f[n - 1])]
  <2>1. Replay(s).resizes = Push(f[N], s.size).resizes
    BY DEF Replay, FirstPlan
  <2>2. \A x : Turn(job, x) = Play(x)
    BY DEF Turn
  <2> HIDE DEF job, plan
  <2>3. PICK g : IsAfter(g, plan, job)
    BY AfterExists
  <2>4. g = [n \in Nat |-> IF n = 0 THEN plan ELSE Play(g[n - 1])]
    BY <2>2, <2>3 DEF IsAfter
  <2>5. f = [n \in Nat |-> IF n = 0 THEN plan ELSE Play(f[n - 1])]
    BY <2>4
  <2> HIDE DEF f
  <2>6. IsAfter(f, plan, job)
    BY <2>2, <2>5 DEF IsAfter
  <2> QED BY <2>1, <2>6
<1>2. after[0] = plan /\ \A n \in Nat : after[n + 1] = Play(after[n])
  <2>1. after[0] = plan /\ \A n \in Nat : after[n + 1] = Turn(job, after[n])
    BY <1>1, AfterRounds
  <2> QED BY <2>1 DEF Turn
<1>3. Playing(plan, C, R, start) /\ Remaining(plan) = N
  BY FirstIsPlaying DEF Remaining, FirstPlan
<1>4. N \in Nat
  BY <1>3, PlayGoesOn
<1> HIDE DEF plan, N, C, R
<1> DEFINE T == {n \in Nat : n <= N => /\ Playing(after[n], C, R, start)
                                       /\ Remaining(after[n]) + n = N}
<1>5. 0 \in T
  BY <1>2, <1>3, <1>4
<1>6. ASSUME NEW n \in T PROVE n + 1 \in T
  <2>1. ASSUME n + 1 <= N
        PROVE  Playing(after[n + 1], C, R, start) /\ Remaining(after[n + 1]) + (n + 1) = N
    <3>1. n \in Nat /\ n <= N /\ Playing(after[n], C, R, start) /\ Remaining(after[n]) + n = N
      BY <1>4, <2>1
    <3> HIDE DEF T
    <3>2. Remaining(after[n]) \in Nat /\ Remaining(after[n]) # 0
      BY <1>4, <2>1, <3>1, PlayGoesOn DEF C, R
    <3>3. /\ Playing(Play(after[n]), C, R, start)
          /\ Remaining(Play(after[n])) = Remaining(after[n]) - 1
      BY <3>1, <3>2, PlayGoesOn DEF C, R
    <3> QED BY <1>2, <3>1, <3>2, <3>3
  <2> QED BY <2>1
<1>7. T = Nat
  <2>1. T \in SUBSET Nat
    OBVIOUS
  <2> HIDE DEF T
  <2> QED BY <1>5, <1>6, <2>1, AllNumbers
<1>8. Playing(after[N], C, R, start) /\ Remaining(after[N]) + N = N
  BY <1>4, <1>7
<1>9. Remaining(after[N]) = 0
  BY <1>4, <1>8, PlayGoesOn DEF C, R
<1>10. Push(after[N], s.size).resizes = Planned(C, R, Cardinality(R))
  BY <1>8, <1>9, PlayEnds DEF C, R
<1> QED BY <1>1, <1>10 DEF C, R

\* A replay resizes the screen where the terminal was resized: the plan of a snapshot holds
\* exactly the resizes since the first retained output, each at its offset and in order,
\* unless an output since then was refused (resize, pruneResizes, replayPlan).
THEOREM TheReplaysFollowResizes == HistorySpec => []ReplayFollowsResizes
<1>1. ASSUME HistoryInv PROVE ReplayFollowsResizes
  <2>1. ASSUME NEW t \in Registered,
               \A n \in log[t].refused, c \in buffer.states[t].chunks : n < c.seq
        PROVE  LET chunks == buffer.states[t].chunks
                   made == Sorted({r \in log[t].resizes : \E c \in chunks : c.seq <= r.afterSeq})
               IN  Snapshot(t).replay.resizes =
                     [i \in DOMAIN made |->
                        [offset |-> Lengths({c \in chunks : c.seq <= made[i].afterSeq}),
                         size |-> made[i].size]]
    <3> DEFINE s == buffer.states[t]
               l == log[t]
               R == {r \in l.resizes : \E c \in s.chunks : c.seq <= r.afterSeq}
               made == Sorted(R)
               start == IF s.chunks = {} THEN s.size ELSE Oldest(s.chunks).size
    <3>1. t \in Terminals
      BY DEF Registered
    <3>2. l \in Logs /\ SoundState(s) /\ Mirrors(s, l) /\ Recorded(s, l)
      BY <1>1, <3>1 DEF HistoryInv, Holds, Good, SoundBuffer
    <3>3. Snapshot(t).replay = Replay(s)
      BY DEF Snapshot
    <3>4. \A n \in l.refused, c \in s.chunks : n < c.seq
      BY <2>1
    <3> HIDE DEF s, l
    <3>5. s.resizes = R
      BY <3>2 DEF Mirrors, ResizesSince
    <3>6. Script(s.chunks, s.resizes, start, s.size)
      BY <3>2, <3>4, ScriptOfState
    <3>7. start \in AllSizes
      <4>1. s.size \in AllSizes /\ \A c \in s.chunks : c.at \in Nat /\ c.size \in AllSizes
        BY <3>2 DEF SoundState, HistoryState, ChunkSet
      <4> QED BY <4>1, OldestIsFirst
    <3> HIDE DEF R, start
    <3>8. Replay(s).resizes = Planned(s.chunks, R, Cardinality(R))
      BY <3>5, <3>6, <3>7, ReplayIsPlanned DEF start
    <3>9. DOMAIN made = 1 .. Cardinality(R)
      BY DEF Sorted
    <3> HIDE DEF made
    <3>10. Planned(s.chunks, R, Cardinality(R)) =
             [i \in DOMAIN made |->
                [offset |-> Lengths({c \in s.chunks : c.seq <= made[i].afterSeq}),
                 size |-> made[i].size]]
      BY <3>9 DEF Planned, Entry, made
    <3> QED BY <3>3, <3>8, <3>10 DEF s, l, R, made
  <2> QED BY <2>1 DEF ReplayFollowsResizes
<1> QED BY <1>1, HistoryInvariant, PTL
=============================================================================
