--------------------- MODULE TerminalControlClientProofs ---------------------
(***************************************************************************)
(* Machine-checked proofs about TerminalControlClient: what clients that   *)
(* have settled know, and that control is only taken over by a user.       *)
(*                                                                         *)
(* Neither property is inductive: what a client knows passes through a     *)
(* channel, and a takeover through a call, its answer and a refresh.       *)
(* ClientInv says of the ordered channels that each ends with the lease in *)
(* force and that its answers repeat what was known before them            *)
(* (ChannelsInOrder), of any channel that what is under way was granted    *)
(* (CallsAreSound, MessagesAreSound), and that one message at most belongs *)
(* to the takeover a user waits for (TakeoversAreAlone), next to the calls *)
(* that have failed for the client and may reach the server all the same.  *)
(***************************************************************************)
EXTENDS TerminalControlClient, TerminalInputLeaseProofs, FiniteSetTheorems

-----------------------------------------------------------------------------
(* Sequences. *)

\* Where s has an element of X.
At(s, X) == {i \in 1..Len(s) : s[i] \in X}
AtMostOne(s, X) == \A i, j \in At(s, X) : i = j

LEMMA RemoveAtFacts ==
    ASSUME NEW S, NEW s \in Seq(S), NEW n \in 1..Len(s)
    PROVE  /\ RemoveAt(s, n) \in Seq(S)
           /\ Len(RemoveAt(s, n)) = Len(s) - 1
           /\ \A i \in 1..(Len(s) - 1) :
                 RemoveAt(s, n)[i] = IF i < n THEN s[i] ELSE s[i + 1]
<1>1. /\ SubSeq(s, 1, n - 1) \in Seq(S) /\ Len(SubSeq(s, 1, n - 1)) = n - 1
      /\ \A i \in 1..(n - 1) : SubSeq(s, 1, n - 1)[i] = s[i]
  OBVIOUS
<1>2. /\ SubSeq(s, n + 1, Len(s)) \in Seq(S)
      /\ Len(SubSeq(s, n + 1, Len(s))) = Len(s) - n
      /\ \A i \in 1..(Len(s) - n) : SubSeq(s, n + 1, Len(s))[i] = s[n + i]
  OBVIOUS
<1> DEFINE a == SubSeq(s, 1, n - 1)
           b == SubSeq(s, n + 1, Len(s))
<1> HIDE DEF a, b
<1>3. /\ a \in Seq(S) /\ Len(a) = n - 1 /\ \A i \in 1..(n - 1) : a[i] = s[i]
      /\ b \in Seq(S) /\ Len(b) = Len(s) - n
      /\ \A i \in 1..(Len(s) - n) : b[i] = s[n + i]
  BY <1>1, <1>2 DEF a, b
<1>4. RemoveAt(s, n) = a \o b
  BY DEF RemoveAt, a, b
<1>5. a \o b \in Seq(S) /\ Len(a \o b) = Len(s) - 1
  <2>1. a \in Seq(S) /\ b \in Seq(S) /\ Len(a) = n - 1 /\ Len(b) = Len(s) - n
    BY <1>3
  <2>2. Len(s) \in Nat /\ n \in Nat
    OBVIOUS
  <2>3. a \o b \in Seq(S) /\ Len(a \o b) = Len(a) + Len(b)
    BY <2>1
  <2> QED BY <2>1, <2>2, <2>3
<1>6. ASSUME NEW i \in 1..(Len(s) - 1)
      PROVE  (a \o b)[i] = IF i < n THEN s[i] ELSE s[i + 1]
  <2>1. CASE i < n
    <3>1. i \in 1..Len(a) /\ a[i] = s[i]
      BY <1>3, <2>1
    <3> QED BY <1>3, <2>1, <3>1
  <2>2. CASE i >= n
    <3>1. (a \o b)[i] = b[i - (n - 1)]
      BY <1>3, <2>2
    <3>2. i - (n - 1) \in 1..(Len(s) - n) /\ n + (i - (n - 1)) = i + 1
      BY <2>2
    <3> QED BY <1>3, <2>2, <3>1, <3>2
  <2>3. i < n \/ i >= n
    OBVIOUS
  <2> QED BY <2>1, <2>2, <2>3
<1> QED BY <1>4, <1>5, <1>6

LEMMA RemoveAtSet ==
    ASSUME NEW S, NEW s \in Seq(S), NEW n \in 1..Len(s)
    PROVE  ToSet(RemoveAt(s, n)) \subseteq ToSet(s) /\ s[n] \in ToSet(s)
<1>1. /\ DOMAIN s = 1..Len(s) /\ DOMAIN RemoveAt(s, n) = 1..(Len(s) - 1)
      /\ \A i \in 1..(Len(s) - 1) : i \in DOMAIN s /\ i + 1 \in DOMAIN s
  BY RemoveAtFacts
<1> QED BY <1>1, RemoveAtFacts DEF ToSet

LEMMA AppendSet ==
    ASSUME NEW S, NEW s \in Seq(S), NEW x
    PROVE  ToSet(Append(s, x)) = ToSet(s) \cup {x}
<1>1. /\ Len(s) \in Nat /\ DOMAIN s = 1..Len(s) /\ DOMAIN Append(s, x) = 1..(Len(s) + 1)
      /\ \A i \in 1..Len(s) : Append(s, x)[i] = s[i]
      /\ Append(s, x)[Len(s) + 1] = x
  OBVIOUS
<1>2. 1..(Len(s) + 1) = 1..Len(s) \cup {Len(s) + 1}
  BY <1>1
<1> QED BY <1>1, <1>2 DEF ToSet

LEMMA AppendAt ==
    ASSUME NEW S, NEW s \in Seq(S), NEW x \in S, NEW X
    PROVE  At(Append(s, x), X) =
              IF x \in X THEN At(s, X) \cup {Len(s) + 1} ELSE At(s, X)
BY DEF At

LEMMA RemoveAtAt ==
    ASSUME NEW S, NEW s \in Seq(S), NEW n \in 1..Len(s), NEW X, AtMostOne(s, X)
    PROVE  /\ AtMostOne(RemoveAt(s, n), X)
           /\ At(RemoveAt(s, n), X) # {} => At(s, X) # {} /\ s[n] \notin X
<1> DEFINE r == RemoveAt(s, n)
           back(i) == IF i < n THEN i ELSE i + 1
<1>1. ASSUME NEW i \in At(r, X)
      PROVE  i \in Nat /\ back(i) \in At(s, X) /\ back(i) # n
  <2>1. /\ i \in 1..(Len(s) - 1) /\ r[i] \in X
        /\ r[i] = IF i < n THEN s[i] ELSE s[i + 1]
    BY RemoveAtFacts DEF At
  <2>2. back(i) \in 1..Len(s) /\ back(i) # n /\ i \in Nat
    BY <2>1
  <2>3. s[back(i)] = r[i]
    BY <2>1
  <2> QED BY <2>1, <2>2, <2>3 DEF At
<1>2. AtMostOne(r, X)
  BY <1>1 DEF AtMostOne
<1>3. ASSUME At(r, X) # {}
      PROVE  At(s, X) # {} /\ s[n] \notin X
  <2>1. PICK i \in At(r, X) : TRUE
    BY <1>3
  <2>2. back(i) \in At(s, X) /\ back(i) # n
    BY <1>1
  <2>3. s[n] \in X => n \in At(s, X)
    BY DEF At
  <2> HIDE DEF back
  <2> QED BY <2>2, <2>3 DEF AtMostOne
<1> QED BY <1>2, <1>3
-----------------------------------------------------------------------------
(* What a channel says of the lease of a terminal. *)

EventsOf(t) == {m \in Messages : m.kind = "event" /\ m.terminal = t}

\* The answers that say whose lease it is.
TellingsOf(t) ==
    {m \in Messages : /\ m.kind = "answer" /\ m.ok
                      /\ m.call.method \in {"acquire", "current"}
                      /\ m.call.terminal = t}

\* Who has observed o and handles what is before place n of s knows lease l of t:
\* the last event says it, or none does and it is known.
Sees(s, o, t, n, l) ==
    /\ (\A i \in 1..(n - 1) : s[i] \notin EventsOf(t)) => o = l
    /\ \A i \in 1..(n - 1) :
          s[i] \in EventsOf(t) /\ (\A j \in (i + 1)..(n - 1) : s[j] \notin EventsOf(t))
          => s[i].lease = l

\* The generation of a lease that is there.
Carries(l, g) == l # None => l.generation = g
Within(l, g) == l # None => l.generation <= g

\* A channel in order: it ends with lease l, published under generation g; its
\* answers repeat what was known before them, and its events go through the
\* generations from that of o, the observed lease, up to g.
InOrder(s, o, t, l, g) ==
    /\ Sees(s, o, t, Len(s) + 1, l)
    /\ \A i \in 1..Len(s) : s[i] \in TellingsOf(t) => Sees(s, o, t, i, s[i].lease)
    /\ Within(o, g)
    /\ \A i \in At(s, EventsOf(t)) :
          /\ s[i].generation <= g
          /\ Carries(s[i].lease, s[i].generation)
          /\ Within(o, s[i].generation)
    /\ \A i, j \in At(s, EventsOf(t)) : i < j => s[i].generation <= s[j].generation

LEMMA AppendFacts ==
    ASSUME NEW s \in Seq(Messages), NEW m \in Messages
    PROVE  /\ Append(s, m) \in Seq(Messages)
           /\ Len(s) \in Nat /\ Len(Append(s, m)) = Len(s) + 1
           /\ Append(s, m)[Len(s) + 1] = m
           /\ \A i \in 1..Len(s) : Append(s, m)[i] = s[i]
OBVIOUS

\* What is appended changes nothing of what is known before.
LEMMA SeesBefore ==
    ASSUME NEW s \in Seq(Messages), NEW m \in Messages, NEW o, NEW t, NEW l,
           NEW n \in 1..(Len(s) + 1)
    PROVE  Sees(Append(s, m), o, t, n, l) <=> Sees(s, o, t, n, l)
<1> DEFINE r == Append(s, m)
<1>1. \A i \in 1..(n - 1) : r[i] = s[i]
  BY AppendFacts
<1>2. \A i \in 1..(n - 1) : \A j \in (i + 1)..(n - 1) : r[j] = s[j]
  BY AppendFacts
<1> HIDE DEF r
<1>3. Sees(r, o, t, n, l) <=> Sees(s, o, t, n, l)
  BY <1>1, <1>2 DEF Sees
<1> QED BY <1>3 DEF r

LEMMA EventAppended ==
    ASSUME NEW s \in Seq(Messages), NEW o \in LeaseOrNone, NEW t, NEW l, NEW g \in Nat,
           NEW e \in EventsOf(t), InOrder(s, o, t, l, g),
           e.generation >= g, Carries(e.lease, e.generation)
    PROVE  InOrder(Append(s, e), o, t, e.lease, e.generation)
<1> DEFINE r == Append(s, e)
           X == EventsOf(t)
           n == Len(s)
<1>1. e \in Messages /\ e.generation \in Nat /\ e \notin TellingsOf(t)
  BY DEF EventsOf, Messages, TellingsOf
<1>2. /\ n \in Nat /\ Len(r) = n + 1 /\ r[n + 1] = e
      /\ \A i \in 1..n : r[i] = s[i]
  BY <1>1, AppendFacts
<1>3. At(r, X) = At(s, X) \cup {n + 1}
  BY <1>1, AppendAt
<1>4. \A q : \A k \in 1..(n + 1) : Sees(r, o, t, k, q) <=> Sees(s, o, t, k, q)
  BY <1>1, SeesBefore
<1>5. \A i \in At(s, X) : i \in 1..n /\ r[i] = s[i] /\ s[i].generation \in Nat
  BY <1>2 DEF At, EventsOf, Messages
<1> HIDE DEF r, n
<1>6. Sees(r, o, t, Len(r) + 1, e.lease)
  <2>1. Len(r) + 1 - 1 = n + 1
    BY <1>2
  <2>2. ~(\A i \in 1..(n + 1) : r[i] \notin EventsOf(t))
    BY <1>2
  <2>3. ASSUME NEW i \in 1..(n + 1), \A j \in (i + 1)..(n + 1) : r[j] \notin EventsOf(t)
        PROVE  r[i].lease = e.lease
    <3>1. i = n + 1
      BY <1>2, <2>3
    <3> QED BY <1>2, <3>1
  <2> QED BY <2>1, <2>2, <2>3 DEF Sees
<1>7. ASSUME NEW i \in 1..Len(r), r[i] \in TellingsOf(t)
      PROVE  Sees(r, o, t, i, r[i].lease)
  <2>1. i \in 1..n
    BY <1>1, <1>2, <1>7
  <2> QED BY <1>2, <1>4, <1>7, <2>1 DEF InOrder, n
<1>8. o # None => o.generation \in Nat
  BY DEF LeaseOrNone, Lease
<1>9. Within(o, e.generation)
  BY <1>1, <1>8 DEF InOrder, Within
<1>10. ASSUME NEW i \in At(r, X)
       PROVE  /\ r[i].generation <= e.generation
              /\ Carries(r[i].lease, r[i].generation)
              /\ Within(o, r[i].generation)
  <2>1. CASE i = n + 1
    BY <1>1, <1>2, <1>9, <2>1
  <2>2. CASE i \in At(s, X)
    BY <1>1, <1>5, <2>2 DEF InOrder
  <2> QED BY <1>3, <2>1, <2>2
<1>11. ASSUME NEW i \in At(r, X), NEW j \in At(r, X), i < j
       PROVE  r[i].generation <= r[j].generation
  <2>1. CASE j = n + 1
    BY <1>2, <1>10, <2>1
  <2>2. CASE j \in At(s, X)
    <3>1. i \in At(s, X)
      BY <1>2, <1>3, <1>5, <1>11, <2>2
    <3> QED BY <1>5, <1>11, <2>2, <3>1 DEF InOrder
  <2> QED BY <1>3, <2>1, <2>2
<1>12. InOrder(r, o, t, e.lease, e.generation)
  BY <1>6, <1>7, <1>9, <1>10, <1>11 DEF InOrder
<1> QED BY <1>12 DEF r

LEMMA AnswerAppended ==
    ASSUME NEW s \in Seq(Messages), NEW o \in LeaseOrNone, NEW t, NEW l, NEW g \in Nat,
           NEW m \in Messages, m \notin EventsOf(t), InOrder(s, o, t, l, g),
           m \in TellingsOf(t) => m.lease = l
    PROVE  InOrder(Append(s, m), o, t, l, g)
<1> DEFINE r == Append(s, m)
           X == EventsOf(t)
           n == Len(s)
<1>2. /\ n \in Nat /\ Len(r) = n + 1 /\ r[n + 1] = m
      /\ \A i \in 1..n : r[i] = s[i]
  BY AppendFacts
<1>3. At(r, X) = At(s, X)
  BY AppendAt
<1>4. \A q : \A k \in 1..(n + 1) : Sees(r, o, t, k, q) <=> Sees(s, o, t, k, q)
  BY SeesBefore
<1>5. \A i \in At(s, X) : i \in 1..n /\ r[i] = s[i]
  BY <1>2 DEF At
<1> HIDE DEF r, n
<1>6. Sees(r, o, t, n + 1, l)
  BY <1>2, <1>4 DEF InOrder, n
<1>7. Sees(r, o, t, Len(r) + 1, l)
  <2>1. Len(r) + 1 - 1 = n + 1 /\ n + 1 - 1 = n /\ r[n + 1] \notin X
    BY <1>2
  <2>2. \A i \in 1..n : i \in 1..(n + 1)
    BY <1>2
  <2>3. \A i \in 1..(n + 1) : i \in 1..n \/ i = n + 1
    BY <1>2
  <2>4. \A i \in 1..n : \A j \in (i + 1)..n : j \in (i + 1)..(n + 1)
    BY <1>2
  <2> QED BY <1>6, <2>1, <2>2, <2>3, <2>4 DEF Sees
<1>8. ASSUME NEW i \in 1..Len(r), r[i] \in TellingsOf(t)
      PROVE  Sees(r, o, t, i, r[i].lease)
  <2>1. CASE i = n + 1
    BY <1>2, <1>6, <1>8, <2>1
  <2>2. CASE i \in 1..n
    BY <1>2, <1>4, <1>8, <2>2 DEF InOrder, n
  <2> QED BY <1>2, <2>1, <2>2
<1>9. InOrder(r, o, t, l, g)
  BY <1>3, <1>5, <1>7, <1>8 DEF InOrder
<1> QED BY <1>9 DEF r
LEMMA TailFacts ==
    ASSUME NEW s \in Seq(Messages), s # <<>>
    PROVE  /\ Tail(s) \in Seq(Messages) /\ Len(s) \in Nat /\ Len(s) >= 1
           /\ Len(Tail(s)) = Len(s) - 1 /\ s[1] \in Messages
           /\ \A i \in 1..(Len(s) - 1) : Tail(s)[i] = s[i + 1]
OBVIOUS

\* The first message is handled: what is known after the later ones is the same.
LEMMA SeesAfter ==
    ASSUME NEW s \in Seq(Messages), s # <<>>, NEW o, NEW t, NEW l,
           NEW n \in 1..Len(s), Sees(s, o, t, n + 1, l),
           NEW o2, o2 = IF s[1] \in EventsOf(t) THEN s[1].lease ELSE o
    PROVE  Sees(Tail(s), o2, t, n, l)
<1> DEFINE r == Tail(s)
           X == EventsOf(t)
<1>1. \A i \in 1..(n - 1) : r[i] = s[i + 1] /\ i + 1 \in 1..n
  BY TailFacts
<1>2. \A i \in 1..n : i = 1 \/ (i - 1 \in 1..(n - 1) /\ r[i - 1] = s[i])
  BY TailFacts
<1>3. 1 \in 1..n /\ n + 1 - 1 = n /\ n \in Nat
  OBVIOUS
<1> HIDE DEF r, X
<1>4. /\ (\A i \in 1..n : s[i] \notin X) => o = l
      /\ \A i \in 1..n :
            s[i] \in X /\ (\A j \in (i + 1)..n : s[j] \notin X) => s[i].lease = l
  BY <1>3 DEF Sees, X
<1>5. ASSUME \A i \in 1..(n - 1) : r[i] \notin X
      PROVE  o2 = l
  <2>1. \A i \in 2..n : s[i] \notin X
    BY <1>2, <1>5
  <2>2. CASE s[1] \in X
    BY <1>3, <1>4, <2>1, <2>2 DEF X
  <2>3. CASE s[1] \notin X
    <3>1. \A i \in 1..n : s[i] \notin X
      BY <1>2, <1>5, <2>3
    <3> QED BY <1>4, <2>3, <3>1 DEF X
  <2> QED BY <2>2, <2>3
<1>6. ASSUME NEW i \in 1..(n - 1), r[i] \in X,
             \A j \in (i + 1)..(n - 1) : r[j] \notin X
      PROVE  r[i].lease = l
  <2>1. \A j \in (i + 2)..n : s[j] \notin X
    <3> SUFFICES ASSUME NEW j \in (i + 2)..n PROVE s[j] \notin X
      OBVIOUS
    <3>1. j \in 1..n /\ j # 1 /\ j - 1 \in (i + 1)..(n - 1)
      OBVIOUS
    <3> QED BY <1>2, <1>6, <3>1
  <2>2. i + 1 \in 1..n /\ (i + 1) + 1 = i + 2
    OBVIOUS
  <2> QED BY <1>1, <1>4, <1>6, <2>1, <2>2
<1> QED BY <1>5, <1>6 DEF Sees, r, X

\* A client that handles the first message as apply, claim and refresh do stays
\* in order: an event is not older than what it has observed, and an answer says
\* what it has observed.
LEMMA FirstHandled ==
    ASSUME NEW s \in Seq(Messages), s # <<>>, NEW o \in LeaseOrNone, NEW t, NEW l,
           NEW g \in Nat, InOrder(s, o, t, l, g)
    PROVE  /\ s[1] \in EventsOf(t) =>
                /\ Within(o, s[1].generation)
                /\ InOrder(Tail(s), s[1].lease, t, l, g)
           /\ s[1] \notin EventsOf(t) => InOrder(Tail(s), o, t, l, g)
           /\ s[1] \in TellingsOf(t) => s[1].lease = o
<1> DEFINE r == Tail(s)
           X == EventsOf(t)
           o2 == IF s[1] \in EventsOf(t) THEN s[1].lease ELSE o
<1>1. /\ Len(s) \in Nat /\ Len(s) >= 1 /\ Len(r) = Len(s) - 1 /\ s[1] \in Messages
      /\ \A i \in 1..(Len(s) - 1) : r[i] = s[i + 1]
  BY TailFacts
<1>2. \A q : \A n \in 1..Len(s) : Sees(s, o, t, n + 1, q) => Sees(r, o2, t, n, q)
  BY SeesAfter
<1> HIDE DEF r
<1>3. s[1] \in TellingsOf(t) => s[1].lease = o
  <2> SUFFICES ASSUME s[1] \in TellingsOf(t) PROVE s[1].lease = o
    OBVIOUS
  <2>1. Sees(s, o, t, 1, s[1].lease)
    BY <1>1 DEF InOrder
  <2> QED BY <2>1 DEF Sees
<1>4. \A i \in At(r, X) : /\ i + 1 \in At(s, X) /\ r[i] = s[i + 1] /\ i \in Nat
                          /\ s[i + 1] \in Messages /\ s[i + 1].generation \in Nat
  <2> SUFFICES ASSUME NEW i \in At(r, X)
               PROVE  /\ i + 1 \in At(s, X) /\ r[i] = s[i + 1] /\ i \in Nat
                      /\ s[i + 1] \in Messages /\ s[i + 1].generation \in Nat
    OBVIOUS
  <2>1. i \in 1..(Len(s) - 1) /\ r[i] \in X /\ r[i] = s[i + 1]
    BY <1>1 DEF At
  <2>2. i + 1 \in 1..Len(s) /\ i \in Nat
    BY <1>1, <2>1
  <2> QED BY <2>1, <2>2 DEF At, EventsOf, Messages
<1>5. s[1] \in X => 1 \in At(s, X)
  BY <1>1 DEF At
<1>6. /\ Within(o2, g)
      /\ \A i \in At(r, X) : Within(o2, r[i].generation)
  <2>1. CASE s[1] \in X
    <3>1. /\ s[1].generation <= g /\ Carries(s[1].lease, s[1].generation)
          /\ \A i \in At(r, X) : s[1].generation <= s[i + 1].generation
      <4>1. \A i \in At(r, X) : 1 < i + 1
        BY <1>1, <1>4 DEF At
      <4> QED BY <1>4, <1>5, <2>1, <4>1 DEF InOrder
    <3> QED BY <1>4, <2>1, <3>1 DEF Within, Carries
  <2>2. CASE s[1] \notin X
    BY <1>4, <2>2 DEF InOrder
  <2> QED BY <2>1, <2>2
<1>7. Sees(r, o2, t, Len(r) + 1, l)
  <2>1. Len(s) \in 1..Len(s) /\ Len(r) + 1 = Len(s)
    BY <1>1
  <2> QED BY <1>2, <2>1 DEF InOrder
<1>8. ASSUME NEW i \in 1..Len(r), r[i] \in TellingsOf(t)
      PROVE  Sees(r, o2, t, i, r[i].lease)
  <2>1. i \in 1..Len(s) /\ i + 1 \in 1..Len(s) /\ r[i] = s[i + 1]
    BY <1>1
  <2> QED BY <1>2, <1>8, <2>1 DEF InOrder
<1>9. \A i \in At(r, X) : /\ r[i].generation <= g
                          /\ Carries(r[i].lease, r[i].generation)
  BY <1>4 DEF InOrder
<1>10. ASSUME NEW i \in At(r, X), NEW j \in At(r, X), i < j
       PROVE  r[i].generation <= r[j].generation
  <2>1. i + 1 < j + 1
    BY <1>4, <1>10
  <2> QED BY <1>4, <2>1 DEF InOrder
<1> HIDE DEF o2
<1>11. InOrder(r, o2, t, l, g)
  BY <1>6, <1>7, <1>8, <1>9, <1>10 DEF InOrder
<1>12. s[1] \in X => Within(o, s[1].generation)
  BY <1>5 DEF InOrder
<1> QED BY <1>3, <1>11, <1>12 DEF o2, r

LEMMA NothingLeft ==
    ASSUME NEW o, NEW t, NEW l, NEW g, InOrder(<<>>, o, t, l, g)
    PROVE  o = l
BY DEF InOrder, Sees
-----------------------------------------------------------------------------
(* The one request of a takeover. *)

\* The calls of a takeover that the client awaits, and the answers to one.
TakeoverCalls(t) == {k \in Calls : k.takeover /\ k.terminal = t /\ ~k.failed}
TakeoverAnswers(t) ==
    {m \in Messages : m.kind = "answer" /\ m.call.takeover /\ m.call.terminal = t}

\* With calls o and answers i on their way and T the takeovers a client waits
\* for: at most one message belongs to a takeover of t, and none without T.
Alone(o, i, T, t) ==
    /\ AtMostOne(o, TakeoverCalls(t)) /\ AtMostOne(i, TakeoverAnswers(t))
    /\ At(o, TakeoverCalls(t)) = {} \/ At(i, TakeoverAnswers(t)) = {}
    /\ At(o, TakeoverCalls(t)) # {} \/ At(i, TakeoverAnswers(t)) # {} => t \in T

LEMMA OtherSent ==
    ASSUME NEW o \in Seq(Calls), NEW i, NEW T, NEW t, Alone(o, i, T, t),
           NEW k \in Calls, k \notin TakeoverCalls(t)
    PROVE  Alone(Append(o, k), i, T, t)
<1>1. At(Append(o, k), TakeoverCalls(t)) = At(o, TakeoverCalls(t))
  BY AppendAt
<1> QED BY <1>1 DEF Alone, AtMostOne

LEMMA TakeoverSent ==
    ASSUME NEW o \in Seq(Calls), NEW i, NEW T, NEW t, Alone(o, i, T, t), t \notin T,
           NEW k \in TakeoverCalls(t)
    PROVE  Alone(Append(o, k), i, T \cup {t}, t)
<1>1. k \in Calls /\ At(o, TakeoverCalls(t)) = {} /\ At(i, TakeoverAnswers(t)) = {}
  BY DEF Alone, TakeoverCalls
<1>2. At(Append(o, k), TakeoverCalls(t)) = {Len(o) + 1}
  BY <1>1, AppendAt
<1> QED BY <1>1, <1>2 DEF Alone, AtMostOne

\* A call is answered.
LEMMA CallAnswered ==
    ASSUME NEW o \in Seq(Calls), NEW i \in Seq(Messages), NEW T, NEW t,
           Alone(o, i, T, t), NEW n \in 1..Len(o), ~o[n].failed,
           NEW m \in Messages, m.kind = "answer", m.call = o[n]
    PROVE  Alone(RemoveAt(o, n), Append(i, m), T, t)
<1> DEFINE C == TakeoverCalls(t)
           A == TakeoverAnswers(t)
<1>1. AtMostOne(o, C)
  BY DEF Alone
<1>2. /\ AtMostOne(RemoveAt(o, n), C)
      /\ At(RemoveAt(o, n), C) # {} => At(o, C) # {} /\ o[n] \notin C
  BY <1>1, RemoveAtAt
<1>3. At(Append(i, m), A) = IF m \in A THEN At(i, A) \cup {Len(i) + 1} ELSE At(i, A)
  BY AppendAt
<1>4. m \in A <=> o[n] \in C
  <2>1. o[n] \in Calls
    OBVIOUS
  <2> QED BY <2>1 DEF TakeoverAnswers, TakeoverCalls
<1>5. o[n] \in C => At(o, C) # {}
  BY DEF At
<1> HIDE DEF C, A
<1> QED BY <1>2, <1>3, <1>4, <1>5 DEF Alone, AtMostOne, C, A

\* A call is gone and nobody awaits it.
LEMMA CallDropped ==
    ASSUME NEW o \in Seq(Calls), NEW i, NEW T, NEW t, Alone(o, i, T, t),
           NEW n \in 1..Len(o)
    PROVE  Alone(RemoveAt(o, n), i, T, t)
<1> DEFINE C == TakeoverCalls(t)
           A == TakeoverAnswers(t)
<1>1. AtMostOne(o, C)
  BY DEF Alone
<1>2. /\ AtMostOne(RemoveAt(o, n), C)
      /\ At(RemoveAt(o, n), C) # {} => At(o, C) # {}
  BY <1>1, RemoveAtAt
<1> HIDE DEF C, A
<1> QED BY <1>2 DEF Alone, C, A

\* A call fails for its client and stays on its way.
LEMMA CallGivenUp ==
    ASSUME NEW o \in Seq(Calls), NEW i \in Seq(Messages), NEW T, NEW t,
           Alone(o, i, T, t), NEW n \in 1..Len(o), ~o[n].failed,
           NEW m \in Messages, m.kind = "answer", m.call = o[n],
           NEW r \in Seq(Calls), Len(r) = Len(o),
           \A a \in 1..Len(o) : r[a] = IF a = n THEN [o[n] EXCEPT !.failed = TRUE] ELSE o[a]
    PROVE  Alone(r, Append(i, m), T, t)
<1> DEFINE C == TakeoverCalls(t)
           A == TakeoverAnswers(t)
<1>1. At(Append(i, m), A) = IF m \in A THEN At(i, A) \cup {Len(i) + 1} ELSE At(i, A)
  BY AppendAt
<1>2. o[n] \in Calls /\ n \in 1..Len(r) /\ r[n] = [o[n] EXCEPT !.failed = TRUE]
  <2>1. o[n] \in Calls /\ n \in 1..Len(r)
    OBVIOUS
  <2> DEFINE k == [o[n] EXCEPT !.failed = TRUE]
  <2>2. \A a \in 1..Len(o) : r[a] = IF a = n THEN k ELSE o[a]
    OBVIOUS
  <2> HIDE DEF k
  <2>3. r[n] = k
    BY <2>2
  <2> QED BY <2>1, <2>3 DEF k
<1>3. (m \in A <=> o[n] \in C) /\ r[n] \notin C
  <2>1. r[n].failed
    BY <1>2 DEF Calls
  <2> QED BY <1>2, <2>1 DEF TakeoverAnswers, TakeoverCalls
<1>4. At(r, C) = At(o, C) \ {n}
  BY <1>2, <1>3 DEF At
<1>5. o[n] \in C => n \in At(o, C)
  BY DEF At
<1> HIDE DEF C, A
<1> QED BY <1>1, <1>3, <1>4, <1>5 DEF Alone, AtMostOne, C, A

\* An answer is handled, and what is sent because of it belongs to the takeover
\* that the answer belongs to.
LEMMA AnswerPassedOn ==
    ASSUME NEW o \in Seq(Calls), NEW i \in Seq(Messages), NEW T, NEW t,
           Alone(o, i, T, t), NEW n \in 1..Len(i),
           NEW k \in Calls, k \in TakeoverCalls(t) => i[n] \in TakeoverAnswers(t)
    PROVE  Alone(Append(o, k), RemoveAt(i, n), T, t)
<1> DEFINE C == TakeoverCalls(t)
           A == TakeoverAnswers(t)
<1>1. AtMostOne(i, A)
  BY DEF Alone
<1>2. /\ AtMostOne(RemoveAt(i, n), A)
      /\ At(RemoveAt(i, n), A) # {} => At(i, A) # {} /\ i[n] \notin A
  BY <1>1, RemoveAtAt
<1>3. At(Append(o, k), C) = IF k \in C THEN At(o, C) \cup {Len(o) + 1} ELSE At(o, C)
  BY AppendAt
<1>4. i[n] \in A => At(i, A) # {}
  BY DEF At
<1> HIDE DEF C, A
<1> QED BY <1>2, <1>3, <1>4 DEF Alone, AtMostOne, C, A

\* A message is handled; if it belongs to a takeover, the takeover may be over.
LEMMA AnswerTaken ==
    ASSUME NEW o \in Seq(Calls), NEW i \in Seq(Messages), NEW T, NEW t,
           Alone(o, i, T, t), NEW n \in 1..Len(i),
           NEW T2, (t \in T => t \in T2) \/ i[n] \in TakeoverAnswers(t)
    PROVE  Alone(o, RemoveAt(i, n), T2, t)
<1> DEFINE C == TakeoverCalls(t)
           A == TakeoverAnswers(t)
<1>1. AtMostOne(i, A)
  BY DEF Alone
<1>2. /\ AtMostOne(RemoveAt(i, n), A)
      /\ At(RemoveAt(i, n), A) # {} => At(i, A) # {} /\ i[n] \notin A
  BY <1>1, RemoveAtAt
<1>3. i[n] \in A => At(i, A) # {}
  BY DEF At
<1> HIDE DEF C, A
<1> QED BY <1>2, <1>3 DEF Alone, AtMostOne, C, A

\* The answers that remain were there, each in one place.
LEMMA AnswersKept ==
    ASSUME NEW o, NEW i \in Seq(Messages), NEW T, NEW t, Alone(o, i, T, t),
           NEW r \in Seq(Messages), NEW f \in [1..Len(r) -> 1..Len(i)],
           \A a, b \in 1..Len(r) : f[a] = f[b] => a = b,
           \A a \in 1..Len(r) :
              r[a] \in TakeoverAnswers(t) => i[f[a]] \in TakeoverAnswers(t)
    PROVE  Alone(o, r, T, t)
<1>1. \A a \in At(r, TakeoverAnswers(t)) : f[a] \in At(i, TakeoverAnswers(t))
  BY DEF At
<1>2. \A a, b \in At(r, TakeoverAnswers(t)) : a = b
  BY <1>1 DEF Alone, AtMostOne, At
<1> QED BY <1>1, <1>2 DEF Alone, AtMostOne

-----------------------------------------------------------------------------
(* The invariant. *)

Proven(l, t, G) == l # None => ProofOf(l) \in G[t]
ProvenFor(c, l, t, G) == l \in Lease /\ l.controller = DeviceOf[c] /\ ProofOf(l) \in G[t]

\* A client's own leases were granted to its Device.
OwnedAreGranted ==
    \A c \in Clients, t \in Terminals :
        owned[c][t] # None => ProvenFor(c, owned[c][t], t, granted)

\* Calls present proofs that were granted (G stands for granted).
CallIsSound(k, G) ==
    /\ k.method \in {"park", "input", "resize"} => k.proof \in G[k.terminal]
    /\ k.method = "resize" => k.size \in Sizes

\* What is told about a lease was granted, and a claim is answered with a lease
\* of the Device that claims.
MessageIsSound(c, m, G) ==
    /\ m.kind = "event" => Proven(m.lease, m.terminal, G)
    /\ m.kind = "answer" /\ m.ok =>
         /\ m.call.method = "current" => Proven(m.lease, m.call.terminal, G)
         /\ m.call.method = "acquire" => ProvenFor(c, m.lease, m.call.terminal, G)

CallsAreSound == \A c \in Clients : \A k \in ToSet(outbox[c]) : CallIsSound(k, granted)
MessagesAreSound ==
    \A c \in Clients : \A m \in ToSet(inbox[c]) : MessageIsSound(c, m, granted)

TakeoversAreAlone ==
    \A c \in Clients, t \in Terminals : Alone(outbox[c], inbox[c], takeovers[c], t)

ChannelsInOrder ==
    transport = "ipc" => \A c \in Clients, t \in Terminals :
        InOrder(inbox[c], observed[c][t], t, leases[t], published[t].generation)

EventsCarry == \A t \in Terminals : Carries(published[t].lease, published[t].generation)

ServerInv == LeaseInv /\ ListenersKnowTheLease /\ EventsAreGranted /\ EventsCarry

ClientInv ==
    /\ TypeOK /\ ServerInv
    /\ OwnedAreGranted /\ CallsAreSound /\ MessagesAreSound
    /\ TakeoversAreAlone
    /\ ChannelsInOrder

-----------------------------------------------------------------------------
(* The server's part: every step of the system is one of the lease manager. *)

LEMMA ServerInvStep ==
    ASSUME ServerInv, [LeaseNext]_leaseVars
    PROVE  /\ ServerInv'
           /\ \A t \in Terminals :
                 /\ granted[t] \subseteq granted'[t]
                 /\ published'[t].generation >= published[t].generation
                 /\ published'[t] = published[t] => leases'[t] = leases[t]
                 /\ published'[t].lease = leases'[t]
                 /\ Carries(leases'[t], published'[t].generation)
<1>1. LeaseInv' /\ ListenersKnowTheLease' /\ EventsAreGranted'
  BY LeaseStepInv, EventStep DEF ServerInv
<1>2. \A t \in Terminals : published'[t].generation >= published[t].generation
  BY EventStep DEF ServerInv
<1>3. \A t \in Terminals : /\ published'[t] = published[t] => leases'[t] = leases[t]
                           /\ published'[t].lease = leases'[t]
  BY <1>1 DEF ServerInv, ListenersKnowTheLease
<1>4. ASSUME NEW t \in Terminals
      PROVE  Carries(published'[t].lease, published'[t].generation)
  <2>1. leases'[t] # None => leases'[t].generation = generations'[t]
    BY <1>1 DEF LeaseInv, LeaseIsNewest
  <2> QED BY <1>3, <2>1, UntouchedOrAnnounced
          DEF ServerInv, EventsCarry, Carries, Untouched, Begun, Continued
<1>5. ASSUME NEW t \in Terminals
      PROVE  granted[t] \subseteq granted'[t]
  <2> USE DEF ServerInv, LeaseInv, LeaseTypeOK
  <2>1. ASSUME NEW u \in Terminals, NEW d \in Devices, NEW o \in Owners,
               NEW takeover \in BOOLEAN, NEW size \in Sizes,
               Acquire(u, d, o, takeover, size)
        PROVE  granted[t] \subseteq granted'[t]
    BY <2>1 DEF Acquire, Grant, leaseVars
  <2>2. ASSUME NEW u \in Terminals, NEW p \in granted[u],
               Write(u, p) \/ Release(u, p) \/ Park(u, p) \/ ClearTerminal(u)
        PROVE  granted' = granted
    BY <2>2 DEF Write, Release, Park, ClearTerminal, leaseVars
  <2>3. ASSUME NEW u \in Terminals, NEW p \in granted[u], NEW size \in Sizes,
               Resize(u, p, size)
        PROVE  granted' = granted
    BY <2>3 DEF Resize, SetSize, leaseVars
  <2>4. CASE (\E u \in Terminals : ClearTerminal(u)) \/ Clear \/ UNCHANGED leaseVars
    BY <2>4 DEF ClearTerminal, Clear, leaseVars
  <2> QED BY <2>1, <2>2, <2>3, <2>4 DEF LeaseNext
<1> QED BY <1>1, <1>2, <1>3, <1>4, <1>5 DEF ServerInv, EventsCarry
-----------------------------------------------------------------------------
(* What the users do. *)

\* A client sends a call that is its own takeover's or of none.
LEMMA CallSent ==
    ASSUME ClientInv, UNCHANGED <<leaseVars, inbox>>,
           NEW c \in Clients, NEW k \in Calls, CallIsSound(k, granted), Send(c, k),
           \/ ~k.takeover /\ takeovers' = takeovers
           \/ /\ k.takeover /\ k.terminal \notin takeovers[c]
              /\ takeovers' = [takeovers EXCEPT ![c] = @ \cup {k.terminal}]
    PROVE  /\ outbox' \in [Clients -> Seq(Calls)]
           /\ takeovers' \in [Clients -> SUBSET Terminals]
           /\ CallsAreSound' /\ TakeoversAreAlone'
<1> USE DEF ClientInv, TypeOK
<1>1. /\ outbox' = [outbox EXCEPT ![c] = Append(@, k)]
      /\ outbox[c] \in Seq(Calls) /\ Append(outbox[c], k) \in Seq(Calls)
      /\ k.terminal \in Terminals
  <2>1. outbox[c] \in Seq(Calls)
    OBVIOUS
  <2>2. Append(outbox[c], k) \in Seq(Calls)
    BY <2>1
  <2>3. k.terminal \in Terminals
    BY DEF Calls
  <2> QED BY <2>1, <2>2, <2>3 DEF Send
<1>2. outbox' \in [Clients -> Seq(Calls)] /\ takeovers' \in [Clients -> SUBSET Terminals]
  <2>1. outbox' \in [Clients -> Seq(Calls)]
    BY <1>1
  <2>2. takeovers' \in [Clients -> SUBSET Terminals]
    <3>1. CASE takeovers' = [takeovers EXCEPT ![c] = @ \cup {k.terminal}]
      BY <1>1, <3>1
    <3> QED BY <3>1
  <2> QED BY <2>1, <2>2
<1>3. ASSUME NEW x \in Clients, NEW q \in ToSet(outbox'[x])
      PROVE  CallIsSound(q, granted')
  <2>1. granted' = granted
    BY DEF leaseVars
  <2>2. q \in ToSet(outbox[x]) \/ q = k
    BY <1>1, <1>3, AppendSet
  <2>3. CallIsSound(q, granted)
    BY <2>2 DEF CallsAreSound
  <2> QED BY <2>1, <2>3 DEF CallIsSound
<1>4. ASSUME NEW x \in Clients, NEW t \in Terminals
      PROVE  Alone(outbox'[x], inbox'[x], takeovers'[x], t)
  <2>1. Alone(outbox[x], inbox[x], takeovers[x], t)
    BY DEF TakeoversAreAlone
  <2>2. CASE x # c
    BY <1>1, <2>1, <2>2
  <2>3. CASE x = c /\ k \notin TakeoverCalls(t)
    <3>1. Alone(Append(outbox[x], k), inbox[x], takeovers[x], t)
      BY <2>1, <2>3, OtherSent
    <3>2. t \in takeovers[x] => t \in takeovers'[x]
      BY <2>3
    <3> QED BY <1>1, <2>3, <3>1, <3>2 DEF Alone
  <2>4. CASE x = c /\ k \in TakeoverCalls(t)
    <3>1. t \notin takeovers[c] /\ takeovers'[c] = takeovers[c] \cup {t}
      BY <2>4 DEF TakeoverCalls
    <3>2. Alone(Append(outbox[c], k), inbox[c], takeovers[c] \cup {t}, t)
      BY <2>1, <2>4, <3>1, TakeoverSent
    <3> QED BY <1>1, <2>4, <3>1, <3>2
  <2> QED BY <2>2, <2>3, <2>4
<1> QED BY <1>2, <1>3, <1>4 DEF CallsAreSound, TakeoversAreAlone

\* Nothing comes back, and the client learns nothing: it may let go of a lease.
LEMMA NothingLearnt ==
    ASSUME ClientInv, UNCHANGED <<leaseVars, inbox, transport, observed>>, TypeOK',
           \A c \in Clients, t \in Terminals : owned'[c][t] \in {owned[c][t], None},
           CallsAreSound', TakeoversAreAlone'
    PROVE  ClientInv'
<1> USE DEF ClientInv, leaseVars
<1>1. ServerInv'
  BY DEF ServerInv, LeaseInv, LeaseTypeOK, LeaseIsNewest, GrantsAreNumbered,
         InputsAreGranted, ListenersKnowTheLease, EventsAreGranted, EventsCarry
<1>2. OwnedAreGranted'
  BY DEF OwnedAreGranted, ProvenFor
<1>3. MessagesAreSound'
  BY DEF MessagesAreSound, MessageIsSound, Proven, ProvenFor
<1>4. ChannelsInOrder'
  BY DEF ChannelsInOrder
<1> QED BY <1>1, <1>2, <1>3, <1>4

\* The calls of a client.
LEMMA CallsAreCalls ==
    /\ \A t \in Terminals, takeover \in BOOLEAN, e \in Nat :
          Claim(t, takeover, e) \in Calls /\ CallIsSound(Claim(t, takeover, e), granted)
    /\ \A t \in Terminals, takeover \in BOOLEAN :
          Current(t, takeover) \in Calls /\ CallIsSound(Current(t, takeover), granted)
    /\ \A t \in Terminals, l \in Lease :
          ProofOf(l) \in granted[t]
             => ParkCall(t, l) \in Calls /\ CallIsSound(ParkCall(t, l), granted)
<1>1. \A l \in Lease : ProofOf(l) \in Proof
  BY DEF Lease, Proof, ProofOf
<1> QED BY <1>1 DEF Claim, Current, ParkCall, Call, NoProof, Calls, Methods, CallIsSound

LEMMA SelectStep ==
    ASSUME ClientInv, NEW c \in Clients, NEW t \in Terminals \cup {None}, Select(c, t)
    PROVE  ClientInv'
<1> USE DEF ClientInv
<1>1. /\ UNCHANGED <<leaseVars, transport, alive, leaseSize, faults, observed, owned,
                     visible, takeovers, inbox, held, released>>
      /\ moves' = moves + 1
      /\ epoch' = [epoch EXCEPT ![c] = @ + 1]
      /\ selected' = [selected EXCEPT ![c] = t]
      /\ outbox' = outbox \/ (t # None /\ Send(c, Claim(t, FALSE, epoch[c] + 1)))
  BY DEF Select, UserMoves, ghosts
<1>2. /\ outbox' \in [Clients -> Seq(Calls)]
      /\ CallsAreSound' /\ TakeoversAreAlone'
  <2>1. CASE outbox' = outbox
    BY <1>1, <2>1 DEF TypeOK, CallsAreSound, CallIsSound, TakeoversAreAlone, leaseVars
  <2>2. CASE t # None /\ Send(c, Claim(t, FALSE, epoch[c] + 1))
    <3>1. t \in Terminals /\ epoch[c] + 1 \in Nat
      BY <2>2 DEF TypeOK
    <3>2. ~Claim(t, FALSE, epoch[c] + 1).takeover
      BY DEF Claim, Call
    <3> QED BY <1>1, <2>2, <3>1, <3>2, CallSent, CallsAreCalls
  <2> QED BY <1>1, <2>1, <2>2
<1>3. TypeOK'
  <2>1. epoch' \in [Clients -> Nat] /\ moves' \in Nat
    BY <1>1 DEF TypeOK
  <2>2. selected' \in [Clients -> Terminals \cup {None}]
    BY <1>1 DEF TypeOK
  <2> QED BY <1>1, <1>2, <2>1, <2>2 DEF TypeOK, LeaseTypeOK, leaseVars
<1> QED BY <1>1, <1>2, <1>3, NothingLearnt

LEMMA SetPageVisibleStep ==
    ASSUME ClientInv, NEW c \in Clients, SetPageVisible(c)
    PROVE  ClientInv'
<1> USE DEF ClientInv
<1> DEFINE t == selected[c]
<1>1. /\ UNCHANGED <<leaseVars, transport, alive, leaseSize, faults, observed, owned,
                     selected, takeovers, inbox, held, released>>
      /\ moves' = moves + 1
      /\ epoch' = [epoch EXCEPT ![c] = @ + 1]
      /\ visible' = [visible EXCEPT ![c] = ~@]
      /\ outbox' = outbox \/ (t # None /\ Send(c, Claim(t, FALSE, epoch[c] + 1)))
  BY DEF SetPageVisible, UserMoves, ghosts
<1>2. /\ outbox' \in [Clients -> Seq(Calls)]
      /\ CallsAreSound' /\ TakeoversAreAlone'
  <2>1. CASE outbox' = outbox
    BY <1>1, <2>1 DEF TypeOK, CallsAreSound, CallIsSound, TakeoversAreAlone, leaseVars
  <2>2. CASE t # None /\ Send(c, Claim(t, FALSE, epoch[c] + 1))
    <3>1. t \in Terminals /\ epoch[c] + 1 \in Nat
      BY <2>2 DEF TypeOK
    <3>2. ~Claim(t, FALSE, epoch[c] + 1).takeover
      BY DEF Claim, Call
    <3> QED BY <1>1, <2>2, <3>1, <3>2, CallSent, CallsAreCalls
  <2> QED BY <1>1, <2>1, <2>2
<1>3. TypeOK'
  <2>1. epoch' \in [Clients -> Nat] /\ moves' \in Nat
    BY <1>1 DEF TypeOK
  <2>2. visible' \in [Clients -> BOOLEAN]
    BY <1>1 DEF TypeOK
  <2> QED BY <1>1, <1>2, <2>1, <2>2 DEF TypeOK, LeaseTypeOK, leaseVars
<1> QED BY <1>1, <1>2, <1>3, NothingLearnt

LEMMA TakeoverStep ==
    ASSUME ClientInv, NEW c \in Clients, NEW t \in Terminals, Takeover(c, t)
    PROVE  ClientInv'
<1> USE DEF ClientInv
<1>1. /\ UNCHANGED <<leaseVars, transport, alive, leaseSize, faults, observed, owned,
                     selected, visible, epoch, inbox, held, released>>
      /\ moves' = moves + 1
      /\ t \notin takeovers[c]
      /\ takeovers' = [takeovers EXCEPT ![c] = @ \cup {t}]
      /\ Send(c, Claim(t, TRUE, epoch[c]))
  BY DEF Takeover, UserMoves, ghosts
<1>2. /\ outbox' \in [Clients -> Seq(Calls)]
      /\ takeovers' \in [Clients -> SUBSET Terminals]
      /\ CallsAreSound' /\ TakeoversAreAlone'
  <2>1. epoch[c] \in Nat
    BY DEF TypeOK
  <2>2. Claim(t, TRUE, epoch[c]).takeover /\ Claim(t, TRUE, epoch[c]).terminal = t
    BY DEF Claim, Call
  <2> QED BY <1>1, <2>1, <2>2, CallSent, CallsAreCalls
<1>3. TypeOK'
  BY <1>1, <1>2 DEF TypeOK, LeaseTypeOK, leaseVars
<1> QED BY <1>1, <1>2, <1>3, NothingLearnt

LEMMA ReleaseStep ==
    ASSUME ClientInv, NEW c \in Clients, NEW t \in Terminals, ReleaseControl(c, t)
    PROVE  ClientInv'
<1> USE DEF ClientInv
<1> DEFINE l == owned[c][t]
<1>1. /\ UNCHANGED <<leaseVars, transport, alive, leaseSize, faults, observed,
                     selected, visible, epoch, takeovers, inbox, held>>
      /\ moves' = moves + 1
      /\ owned[c][t] # None
      /\ owned' = [owned EXCEPT ![c][t] = None]
      /\ Send(c, ParkCall(t, l))
      /\ released' = [released EXCEPT ![t] = @ \cup {l.generation}]
  BY DEF ReleaseControl, UserMoves, ghosts
<1>2. l \in Lease /\ ProofOf(l) \in granted[t] /\ l.generation \in Nat
  BY <1>1 DEF OwnedAreGranted, ProvenFor, Lease
<1>3. /\ outbox' \in [Clients -> Seq(Calls)]
      /\ CallsAreSound' /\ TakeoversAreAlone'
  <2>1. ~ParkCall(t, l).takeover
    BY DEF ParkCall, Call
  <2> QED BY <1>1, <1>2, <2>1, CallSent, CallsAreCalls
<1>4. /\ owned' \in [Clients -> [Terminals -> LeaseOrNone]]
      /\ \A x \in Clients, u \in Terminals : owned'[x][u] \in {owned[x][u], None}
  BY <1>1 DEF TypeOK, LeaseOrNone
<1>5. released' \in [Terminals -> SUBSET Nat]
  BY <1>1, <1>2 DEF TypeOK
<1>6. TypeOK'
  BY <1>1, <1>3, <1>4, <1>5 DEF TypeOK, LeaseTypeOK, leaseVars
<1> QED BY <1>1, <1>3, <1>4, <1>6, NothingLearnt

\* Type and Fit send the proof of the lease that the client owns.
LEMMA InputStep ==
    ASSUME ClientInv, NEW c \in Clients, NEW t \in Terminals,
           Type(c, t) \/ \E size \in Sizes : Fit(c, t, size)
    PROVE  ClientInv'
<1> USE DEF ClientInv
<1> DEFINE p == ProofOf(owned[c][t])
<1>1. PICK k : /\ Send(c, k)
               /\ \/ k = Call("input", t, FALSE, 0, p, None)
                  \/ \E size \in Sizes : k = Call("resize", t, FALSE, 0, p, size)
  BY DEF Type, Fit
<1>2. /\ UNCHANGED <<leaseVars, transport, alive, leaseSize, faults, clientVars, inbox,
                     ghosts>>
      /\ moves' = moves + 1 /\ owned[c][t] # None
  BY DEF Type, Fit, UserMoves, Owns, Same
<1>3. p \in granted[t] /\ p \in Proof
  <2>1. owned[c][t] \in Lease /\ p \in granted[t]
    BY <1>2 DEF OwnedAreGranted, ProvenFor
  <2> QED BY <2>1 DEF ProofOf, Lease, Proof
<1> HIDE DEF p
<1>4. k \in Calls /\ CallIsSound(k, granted) /\ ~k.takeover
  <2>1. CASE k = Call("input", t, FALSE, 0, p, None)
    BY <1>3, <2>1 DEF Call, Calls, Methods, CallIsSound
  <2>2. CASE \E size \in Sizes : k = Call("resize", t, FALSE, 0, p, size)
    BY <1>3, <2>2 DEF Call, Calls, Methods, CallIsSound
  <2> QED BY <1>1, <2>1, <2>2
<1>5. /\ outbox' \in [Clients -> Seq(Calls)]
      /\ CallsAreSound' /\ TakeoversAreAlone'
  BY <1>1, <1>2, <1>4, CallSent DEF clientVars
<1>6. TypeOK'
  BY <1>2, <1>5 DEF TypeOK, LeaseTypeOK, leaseVars, clientVars, ghosts
<1> QED BY <1>2, <1>5, <1>6, NothingLearnt DEF clientVars
-----------------------------------------------------------------------------
(* The server's steps. *)

\* What was granted stays granted.
LEMMA SoundnessStays ==
    ASSUME TypeOK, \A t \in Terminals : granted[t] \subseteq granted'[t]
    PROVE  /\ \A k \in Calls : CallIsSound(k, granted) => CallIsSound(k, granted')
           /\ \A c \in Clients, m \in Messages :
                 MessageIsSound(c, m, granted) => MessageIsSound(c, m, granted')
           /\ OwnedAreGranted /\ owned' = owned => OwnedAreGranted'
<1>1. ASSUME NEW k \in Calls, CallIsSound(k, granted) PROVE CallIsSound(k, granted')
  BY <1>1 DEF CallIsSound, Calls
<1>2. ASSUME NEW c \in Clients, NEW m \in Messages, MessageIsSound(c, m, granted)
      PROVE  MessageIsSound(c, m, granted')
  <2>1. m.kind = "event" => m.terminal \in Terminals
    BY DEF Messages
  <2>2. m.kind = "answer" => m.call.terminal \in Terminals
    BY DEF Messages, Calls
  <2> QED BY <1>2, <2>1, <2>2 DEF MessageIsSound, Proven, ProvenFor
<1>3. ASSUME OwnedAreGranted, owned' = owned PROVE OwnedAreGranted'
  BY <1>3 DEF OwnedAreGranted, ProvenFor
<1> QED BY <1>1, <1>2, <1>3

\* An event or an answer.
LEMMA MessageKinds ==
    /\ \A t, u : \A e \in EventsOf(t) :
          /\ e \notin TellingsOf(u) /\ e \notin TakeoverAnswers(u)
          /\ e \in EventsOf(u) => u = t
    /\ \A t : \A m \in Messages : m.kind = "answer" => m \notin EventsOf(t)
BY DEF EventsOf, TellingsOf, TakeoverAnswers

\* The channel of a client with the event, if any, that a step causes.
LEMMA EventTold ==
    ASSUME ClientInv, [LeaseNext]_leaseVars, NEW t \in Terminals, NEW c \in Clients,
           \A u \in Terminals \ {t} : published'[u] = published[u]
    PROVE  LET s == inbox[c] \o News(t)
           IN  /\ s \in Seq(Messages)
               /\ \A m \in ToSet(s) : MessageIsSound(c, m, granted')
               /\ \A u : At(s, TakeoverAnswers(u)) = At(inbox[c], TakeoverAnswers(u))
               /\ transport = "ipc" => \A u \in Terminals :
                     InOrder(s, observed[c][u], u, leases'[u], published'[u].generation)
<1> USE DEF ClientInv
<1> DEFINE e == EventOf(t, published'[t])
           i == inbox[c]
<1>1. /\ ServerInv'
      /\ \A u \in Terminals :
            /\ granted[u] \subseteq granted'[u]
            /\ published'[u].generation >= published[u].generation
            /\ published'[u] = published[u] => leases'[u] = leases[u]
            /\ published'[u].lease = leases'[u]
            /\ Carries(leases'[u], published'[u].generation)
  BY ServerInvStep
<1>2. \A u \in Terminals : /\ published'[u] \in Event /\ published[u] \in Event
                           /\ published'[u].generation \in Nat
                           /\ published[u].generation \in Nat
  BY <1>1 DEF ServerInv, LeaseInv, LeaseTypeOK, Event
<1>3. /\ e \in Messages /\ e \in EventsOf(t) /\ e.kind = "event" /\ e.terminal = t
      /\ e.lease = leases'[t] /\ e.generation = published'[t].generation
  <2>1. published'[t] \in Event
    BY <1>2
  <2> QED BY <1>1, <2>1 DEF EventOf, Messages, EventsOf, Event, LeaseOrNone
<1>4. MessageIsSound(c, e, granted')
  <2>1. leases'[t] # None => ProofOf(leases'[t]) \in granted'[t]
    BY <1>1 DEF ServerInv, LeaseInv, LeaseIsNewest
  <2>2. e.kind # "answer"
    BY <1>3
  <2> HIDE DEF e
  <2> QED BY <1>3, <2>1, <2>2 DEF MessageIsSound, Proven
<1>5. /\ i \in Seq(Messages)
      /\ \A m \in ToSet(i) : m \in Messages /\ MessageIsSound(c, m, granted')
  <2>1. i \in Seq(Messages)
    BY DEF TypeOK
  <2>2. \A m \in ToSet(i) : m \in Messages
    BY <2>1 DEF ToSet
  <2> QED BY <1>1, <2>1, <2>2, SoundnessStays DEF MessagesAreSound
<1>6. transport = "ipc" => \A u \in Terminals :
         /\ observed[c][u] \in LeaseOrNone
         /\ InOrder(i, observed[c][u], u, leases[u], published[u].generation)
  BY DEF ChannelsInOrder, TypeOK
<1> HIDE DEF e, i
<1>7. CASE published'[t] = published[t]
  <2>1. \A u \in Terminals : leases'[u] = leases[u] /\ published'[u] = published[u]
    BY <1>1, <1>7
  <2>2. inbox[c] \o News(t) = i
    BY <1>5, <1>7 DEF News, i
  <2> QED BY <1>5, <1>6, <2>1, <2>2 DEF i
<1>8. CASE published'[t] # published[t]
  <2>1. inbox[c] \o News(t) = Append(i, e)
    BY <1>3, <1>5, <1>8 DEF News, i, e
  <2>2. Append(i, e) \in Seq(Messages)
    BY <1>3, <1>5
  <2>3. \A m \in ToSet(Append(i, e)) : MessageIsSound(c, m, granted')
    BY <1>4, <1>5, AppendSet
  <2>4. \A u : At(Append(i, e), TakeoverAnswers(u)) = At(i, TakeoverAnswers(u))
    BY <1>3, <1>5, AppendAt, MessageKinds
  <2>5. ASSUME transport = "ipc", NEW u \in Terminals
        PROVE  InOrder(Append(i, e), observed[c][u], u, leases'[u],
                       published'[u].generation)
    <3>1. CASE u = t
      BY <1>1, <1>2, <1>3, <1>5, <1>6, <2>5, <3>1, EventAppended
    <3>2. CASE u # t
      <4>1. e \notin EventsOf(u) /\ e \notin TellingsOf(u)
        BY <1>3, <3>2, MessageKinds
      <4>2. leases'[u] = leases[u] /\ published'[u] = published[u]
        BY <1>1, <3>2
      <4> QED BY <1>2, <1>3, <1>5, <1>6, <2>5, <4>1, <4>2, AnswerAppended
    <3> QED BY <3>1, <3>2
  <2> QED BY <2>1, <2>2, <2>3, <2>4, <2>5 DEF i
<1> QED BY <1>7, <1>8

LEMMA ExitStep ==
    ASSUME ClientInv, NEW t \in Terminals, Exit(t)
    PROVE  ClientInv'
<1> USE DEF ClientInv
<1>1. /\ ClearTerminal(t) /\ alive' = alive \ {t}
      /\ inbox' = [c \in Clients |-> inbox[c] \o News(t)]
      /\ UNCHANGED <<observed, owned, selected, visible, epoch, takeovers, outbox, held,
                     released, transport, leaseSize, moves, faults>>
  BY DEF Exit, clientVars, ghosts
<1>2. [LeaseNext]_leaseVars
  BY <1>1 DEF LeaseNext
<1>3. \A u \in Terminals \ {t} : published'[u] = published[u]
  BY <1>1 DEF ClearTerminal, EndLease, Publish, leaseVars, TypeOK, LeaseTypeOK
<1>4. /\ ServerInv' /\ \A u \in Terminals : granted[u] \subseteq granted'[u]
  BY <1>2, ServerInvStep
<1>5. \A c \in Clients :
         /\ inbox'[c] \in Seq(Messages)
         /\ \A m \in ToSet(inbox'[c]) : MessageIsSound(c, m, granted')
         /\ \A u : At(inbox'[c], TakeoverAnswers(u)) = At(inbox[c], TakeoverAnswers(u))
         /\ transport = "ipc" => \A u \in Terminals :
               InOrder(inbox'[c], observed[c][u], u, leases'[u], published'[u].generation)
  BY <1>1, <1>2, <1>3, EventTold
<1>6. TypeOK'
  <2>1. inbox' \in [Clients -> Seq(Messages)] /\ alive' \subseteq Terminals
    BY <1>1, <1>5 DEF TypeOK
  <2> QED BY <1>1, <1>4, <2>1 DEF TypeOK, ServerInv, LeaseInv
<1>7. OwnedAreGranted' /\ CallsAreSound'
  <2>1. \A c \in Clients : \A k \in ToSet(outbox[c]) : k \in Calls
    BY DEF TypeOK, ToSet
  <2> QED BY <1>1, <1>4, <2>1, SoundnessStays DEF CallsAreSound
<1>8. MessagesAreSound' /\ ChannelsInOrder'
  BY <1>1, <1>5 DEF MessagesAreSound, ChannelsInOrder
<1>9. TakeoversAreAlone'
  <2> SUFFICES ASSUME NEW c \in Clients, NEW u \in Terminals
               PROVE  Alone(outbox[c], inbox'[c], takeovers[c], u)
    BY <1>1 DEF TakeoversAreAlone
  <2>1. Alone(outbox[c], inbox[c], takeovers[c], u)
    BY DEF TakeoversAreAlone
  <2>2. At(inbox'[c], TakeoverAnswers(u)) = At(inbox[c], TakeoverAnswers(u))
    BY <1>5
  <2> QED BY <2>1, <2>2 DEF Alone, AtMostOne
<1> QED BY <1>4, <1>6, <1>7, <1>8, <1>9
\* A call has been served: its client gets the answer behind the event.
LEMMA CallServed ==
    ASSUME ClientInv, [LeaseNext]_leaseVars, NEW c \in Clients,
           NEW n \in 1..Len(outbox[c]), NEW k, k = outbox[c][n],
           outbox' = [outbox EXCEPT ![c] = RemoveAt(@, n)],
           \A u \in Terminals \ {k.terminal} : published'[u] = published[u],
           NEW ok \in BOOLEAN, NEW l \in LeaseOrNone, Reply(c, k, ok, l),
           ok /\ k.method = "acquire" =>
              l = leases'[k.terminal] /\ ProvenFor(c, l, k.terminal, granted'),
           ok /\ k.method = "current" => l = leases'[k.terminal],
           leaseSize' \in [Terminals -> Sizes],
           UNCHANGED <<clientVars, ghosts, transport, alive, moves, faults>>
    PROVE  ClientInv'
<1> USE DEF ClientInv
<1> DEFINE t == k.terminal
           m == Answer(k, ok, l)
           told(x) == inbox[x] \o News(t)
<1>1. k \in Calls /\ t \in Terminals /\ outbox[c] \in Seq(Calls)
  <2>1. outbox[c] \in Seq(Calls)
    BY DEF TypeOK
  <2>2. k \in Calls
    BY <2>1
  <2> QED BY <2>1, <2>2 DEF Calls
<1>2. /\ m \in Messages /\ m.kind = "answer" /\ m.call = k
      /\ m.ok = ok /\ m.lease = l
  BY <1>1 DEF Answer, Messages
<1> HIDE DEF m
<1>3. /\ ServerInv' /\ \A u \in Terminals : granted[u] \subseteq granted'[u]
      /\ leases'[t] # None => ProofOf(leases'[t]) \in granted'[t]
  BY <1>1, ServerInvStep DEF ServerInv, LeaseInv, LeaseIsNewest
<1>4. MessageIsSound(c, m, granted')
  BY <1>2, <1>3 DEF MessageIsSound, Proven
<1>5. \A x \in Clients :
         /\ told(x) \in Seq(Messages)
         /\ \A q \in ToSet(told(x)) : MessageIsSound(x, q, granted')
         /\ \A u : At(told(x), TakeoverAnswers(u)) = At(inbox[x], TakeoverAnswers(u))
         /\ transport = "ipc" => \A u \in Terminals :
               InOrder(told(x), observed[x][u], u, leases'[u], published'[u].generation)
  BY <1>1, EventTold
<1>6. \A x \in Clients :
         inbox'[x] = IF x = c /\ ~k.failed THEN Append(told(x), m) ELSE told(x)
  <2>1. \A x \in Clients :
           inbox'[x] = told(x) \o (IF x = c /\ ~k.failed THEN <<m>> ELSE <<>>)
    BY DEF Reply, m
  <2>2. \A s \in Seq(Messages) : s \o <<>> = s /\ s \o <<m>> = Append(s, m)
    BY <1>2
  <2>3. \A x \in Clients : told(x) \in Seq(Messages)
    BY <1>5
  <2> HIDE DEF told
  <2> QED BY <2>1, <2>2, <2>3
<1> HIDE DEF told
<1>7. inbox' \in [Clients -> Seq(Messages)]
  <2>1. \A s \in Seq(Messages) : Append(s, m) \in Seq(Messages)
    BY <1>2
  <2>2. \A x \in Clients : told(x) \in Seq(Messages)
    BY <1>5
  <2>3. \A x \in Clients : inbox'[x] \in Seq(Messages)
    BY <1>6, <2>1, <2>2
  <2> QED BY <2>3 DEF Reply
<1>8. /\ RemoveAt(outbox[c], n) \in Seq(Calls)
      /\ ToSet(RemoveAt(outbox[c], n)) \subseteq ToSet(outbox[c])
  BY <1>1, RemoveAtFacts, RemoveAtSet
<1>9. outbox' \in [Clients -> Seq(Calls)]
  BY <1>8 DEF TypeOK
<1>10. TypeOK'
  BY <1>3, <1>7, <1>9 DEF TypeOK, ServerInv, LeaseInv, clientVars, ghosts
<1>11. OwnedAreGranted' /\ CallsAreSound'
  <2>1. \A x \in Clients : ToSet(outbox'[x]) \subseteq ToSet(outbox[x])
    BY <1>8 DEF TypeOK
  <2>2. \A x \in Clients : \A q \in ToSet(outbox[x]) : q \in Calls
    BY DEF TypeOK, ToSet
  <2> QED BY <1>3, <2>1, <2>2, SoundnessStays DEF CallsAreSound, clientVars
<1>12. MessagesAreSound'
  <2> SUFFICES ASSUME NEW x \in Clients, NEW q \in ToSet(inbox'[x])
               PROVE  MessageIsSound(x, q, granted')
    BY DEF MessagesAreSound
  <2> QED BY <1>2, <1>4, <1>5, <1>6, AppendSet
<1>13. ChannelsInOrder'
  <2> SUFFICES ASSUME transport = "ipc", NEW x \in Clients, NEW u \in Terminals
               PROVE  InOrder(inbox'[x], observed[x][u], u, leases'[u],
                              published'[u].generation)
    BY DEF ChannelsInOrder, clientVars
  <2>1. InOrder(told(x), observed[x][u], u, leases'[u], published'[u].generation)
    BY <1>5
  <2>2. CASE x = c /\ ~k.failed
    <3>1. m \notin EventsOf(u) /\ (m \in TellingsOf(u) => m.lease = leases'[u])
      BY <1>2, MessageKinds DEF TellingsOf
    <3>2. observed[x][u] \in LeaseOrNone /\ published'[u].generation \in Nat
      BY <1>3 DEF TypeOK, ServerInv, LeaseInv, LeaseTypeOK, Event
    <3> QED BY <1>2, <1>5, <1>6, <2>1, <2>2, <3>1, <3>2, AnswerAppended
  <2> QED BY <1>6, <2>1, <2>2
<1>14. TakeoversAreAlone'
  <2> SUFFICES ASSUME NEW x \in Clients, NEW u \in Terminals
               PROVE  Alone(outbox'[x], inbox'[x], takeovers[x], u)
    BY DEF TakeoversAreAlone, clientVars
  <2>1. Alone(outbox[x], told(x), takeovers[x], u)
    <3>1. Alone(outbox[x], inbox[x], takeovers[x], u)
      BY DEF TakeoversAreAlone
    <3>2. At(told(x), TakeoverAnswers(u)) = At(inbox[x], TakeoverAnswers(u))
      BY <1>5
    <3> QED BY <3>1, <3>2 DEF Alone, AtMostOne
  <2>2. CASE x = c
    <3>1. outbox'[x] = RemoveAt(outbox[x], n) /\ k = outbox[x][n]
      BY <2>2 DEF TypeOK
    <3>2. CASE k.failed
      BY <1>1, <1>6, <2>1, <2>2, <3>1, <3>2, CallDropped
    <3>3. CASE ~k.failed
      BY <1>1, <1>2, <1>5, <1>6, <2>1, <2>2, <3>1, <3>3, CallAnswered
    <3> QED BY <3>2, <3>3
  <2>3. CASE x # c
    BY <1>6, <2>1, <2>3 DEF TypeOK
  <2> QED BY <2>2, <2>3
<1> QED BY <1>3, <1>10, <1>11, <1>12, <1>13, <1>14

\* Each operation of the lease manager publishes events of its terminal only.
LEMMA PublishesHere ==
    ASSUME LeaseTypeOK, NEW t \in Terminals, NEW u \in Terminals \ {t}
    PROVE  /\ \A d \in Devices, o \in Owners, takeover \in BOOLEAN, size \in Sizes :
                 Acquire(t, d, o, takeover, size) => published'[u] = published[u]
           /\ \A p \in granted[t] : Park(t, p) \/ Write(t, p) => published'[u] = published[u]
           /\ \A p \in granted[t], size \in Sizes :
                 Resize(t, p, size) => published'[u] = published[u]
<1> USE DEF LeaseTypeOK
<1>1. ASSUME NEW type, NEW l, NEW g, Publish(t, type, l, g)
      PROVE  published'[u] = published[u]
  BY <1>1 DEF Publish
<1>2. ASSUME NEW d \in Devices, NEW o \in Owners, NEW takeover \in BOOLEAN,
             NEW size \in Sizes, Acquire(t, d, o, takeover, size)
      PROVE  published'[u] = published[u]
  BY <1>1, <1>2 DEF Acquire, Grant, leaseVars
<1>3. ASSUME NEW p \in granted[t], Park(t, p) \/ Write(t, p)
      PROVE  published'[u] = published[u]
  BY <1>1, <1>3 DEF Park, Write, EndLease, leaseVars
<1>4. ASSUME NEW p \in granted[t], NEW size \in Sizes, Resize(t, p, size)
      PROVE  published'[u] = published[u]
  BY <1>1, <1>4 DEF Resize, SetSize, leaseVars
<1> QED BY <1>2, <1>3, <1>4
LEMMA ServeStep ==
    ASSUME ClientInv, NEW c \in Clients, Serve(c)
    PROVE  ClientInv'
<1> USE DEF ClientInv
<1>1. PICK n \in 1..Len(outbox[c]) :
         /\ outbox' = [outbox EXCEPT ![c] = RemoveAt(@, n)]
         /\ LET k == outbox[c][n]
            IN  \/ ServeAcquire(c, k) \/ ServeCurrent(c, k) \/ ServePark(c, k)
                \/ ServeInput(c, k) \/ ServeResize(c, k) \/ ServeGone(c, k)
  BY DEF Serve
<1> DEFINE k == outbox[c][n]
           t == k.terminal
<1>2. UNCHANGED <<clientVars, ghosts, transport, alive, moves, faults>>
  BY DEF Serve
<1>3. /\ k \in Calls /\ t \in Terminals /\ k.takeover \in BOOLEAN
      /\ CallIsSound(k, granted)
  <2>1. outbox[c] \in Seq(Calls)
    BY DEF TypeOK
  <2>2. k \in Calls
    BY <2>1
  <2>3. k \in ToSet(outbox[c])
    BY <2>1 DEF ToSet
  <2> QED BY <2>2, <2>3 DEF Calls, CallsAreSound
<1> HIDE DEF k
<1>4. /\ LeaseTypeOK /\ LeaseInv /\ leaseSize \in [Terminals -> Sizes]
      /\ DeviceOf[c] \in Devices /\ Host \in Owners
      /\ leases[t] \in LeaseOrNone
  BY <1>3, ClientAssumption DEF TypeOK, ServerInv, LeaseTypeOK, LeaseOrNone
<1>5. None \in LeaseOrNone
  BY DEF LeaseOrNone
<1>6. ASSUME UNCHANGED leaseVars
      PROVE  /\ [LeaseNext]_leaseVars
             /\ \A u \in Terminals : published'[u] = published[u]
             /\ leases'[t] = leases[t]
  BY <1>6 DEF leaseVars
<1>7. CASE ServeAcquire(c, k)
  <2> DEFINE d == DeviceOf[c]
             answered == HoldsAlready(t, d, Host) \/ MayAcquire(t, k.takeover)
             l == IF answered THEN leases'[t] ELSE None
  <2>1. /\ k.method = "acquire" /\ leaseSize' = leaseSize
        /\ Acquire(t, d, Host, k.takeover, leaseSize[t])
        /\ answered => Reply(c, k, TRUE, leases'[t])
        /\ ~answered => Reply(c, k, FALSE, None)
    BY <1>7 DEF ServeAcquire
  <2>2. leaseSize[t] \in Sizes
    BY <1>3, <1>4
  <2>3. [LeaseNext]_leaseVars
    BY <1>3, <1>4, <2>1, <2>2 DEF LeaseNext
  <2>4. \A u \in Terminals \ {t} : published'[u] = published[u]
    BY <1>3, <1>4, <2>1, <2>2, PublishesHere
  <2>5. /\ LeaseInv' /\ leases'[t] \in LeaseOrNone
        /\ leases'[t] # None => ProofOf(leases'[t]) \in granted'[t]
    BY <1>3, <2>3, ServerInvStep
    DEF ServerInv, LeaseInv, LeaseTypeOK, LeaseOrNone, LeaseIsNewest
  <2>6. ASSUME answered
        PROVE  ProvenFor(c, leases'[t], t, granted')
    <3>1. CASE HoldsAlready(t, d, Host)
      <4>1. leases'[t] = leases[t] /\ leases[t] # None /\ leases[t].controller = d
        BY <2>1, <3>1 DEF HoldsAlready, Acquire, leaseVars
      <4> QED BY <2>5, <4>1 DEF ProvenFor, LeaseOrNone
    <3>2. CASE ~HoldsAlready(t, d, Host) /\ MayAcquire(t, k.takeover)
      <4>1. Grant(t, d, Host, leaseSize[t])
        BY <2>1, <3>2 DEF Acquire
      <4>2. leases'[t].controller = d /\ leases'[t] \in Lease
        <5> DEFINE g == [leaseId |-> issued + 1, owner |-> Host, controller |-> d,
                         generation |-> generations[t] + 1, size |-> leaseSize[t]]
        <5>1. g \in Lease /\ g.controller = d
          BY <1>3, <1>4, <2>2 DEF Lease, LeaseTypeOK
        <5>2. leases' = [leases EXCEPT ![t] = g]
          BY <4>1 DEF Grant
        <5> HIDE DEF g
        <5>3. leases'[t] = g
          BY <1>3, <1>4, <5>2 DEF LeaseTypeOK
        <5> QED BY <5>1, <5>3
      <4> QED BY <2>5, <4>2, NoneAssumption DEF ProvenFor
    <3> QED BY <2>6, <3>1, <3>2
  <2> HIDE DEF answered, d
  <2>7. CASE answered
    BY <1>1, <1>2, <1>4, <2>1, <2>3, <2>4, <2>5, <2>6, <2>7, CallServed DEF k
  <2>8. CASE ~answered
    BY <1>1, <1>2, <1>4, <1>5, <2>1, <2>3, <2>4, <2>8, CallServed DEF k
  <2> QED BY <2>7, <2>8
<1>8. CASE ServeCurrent(c, k)
  <2>1. /\ k.method = "current" /\ UNCHANGED <<leaseVars, leaseSize>>
        /\ Reply(c, k, TRUE, leases[t])
    BY <1>8 DEF ServeCurrent
  <2> QED BY <1>1, <1>2, <1>4, <1>6, <2>1, CallServed DEF k
<1>9. CASE ServePark(c, k)
  <2>1. /\ k.method = "park" /\ k.proof \in granted[t] /\ Park(t, k.proof)
        /\ Reply(c, k, TRUE, None) /\ leaseSize' = leaseSize
    BY <1>3, <1>9 DEF ServePark, CallIsSound
  <2>2. [LeaseNext]_leaseVars
    BY <1>3, <2>1 DEF LeaseNext
  <2>3. \A u \in Terminals \ {t} : published'[u] = published[u]
    BY <1>3, <1>4, <2>1, PublishesHere
  <2> QED BY <1>1, <1>2, <1>4, <1>5, <2>1, <2>2, <2>3, CallServed DEF k
<1>10. CASE ServeInput(c, k)
  <2>1. /\ k.method = "input" /\ k.proof \in granted[t] /\ Write(t, k.proof)
        /\ Reply(c, k, Authorized(t, k.proof), None) /\ leaseSize' = leaseSize
    BY <1>3, <1>10 DEF ServeInput, CallIsSound
  <2>2. [LeaseNext]_leaseVars
    BY <1>3, <2>1 DEF LeaseNext
  <2>3. \A u \in Terminals \ {t} : published'[u] = published[u]
    BY <1>3, <1>4, <2>1, PublishesHere
  <2>4. Authorized(t, k.proof) \in BOOLEAN
    BY DEF Authorized
  <2> QED BY <1>1, <1>2, <1>4, <1>5, <2>1, <2>2, <2>3, <2>4, CallServed DEF k
<1>11. CASE ServeResize(c, k)
  <2>1. /\ k.method = "resize" /\ k.proof \in granted[t] /\ k.size \in Sizes
        /\ Resize(t, k.proof, k.size)
        /\ Reply(c, k, Authorized(t, k.proof), None)
        /\ leaseSize' \in {leaseSize, [leaseSize EXCEPT ![t] = k.size]}
    BY <1>3, <1>11 DEF ServeResize, CallIsSound
  <2>2. [LeaseNext]_leaseVars
    BY <1>3, <2>1 DEF LeaseNext
  <2>3. \A u \in Terminals \ {t} : published'[u] = published[u]
    BY <1>3, <1>4, <2>1, PublishesHere
  <2>4. Authorized(t, k.proof) \in BOOLEAN
    BY DEF Authorized
  <2>5. leaseSize' \in [Terminals -> Sizes]
    BY <1>3, <1>4, <2>1
  <2>6. k.method # "acquire" /\ k.method # "current"
    BY <2>1
  <2>7. Reply(c, k, Authorized(t, k.proof), None)
    BY <2>1
  <2> QED BY <1>1, <1>2, <1>5, <2>2, <2>3, <2>4, <2>5, <2>6, <2>7, CallServed DEF k
<1>12. CASE ServeGone(c, k)
  <2>1. UNCHANGED <<leaseVars, leaseSize>> /\ Reply(c, k, FALSE, None)
    BY <1>12 DEF ServeGone, Refuse
  <2> QED BY <1>1, <1>2, <1>4, <1>5, <1>6, <2>1, CallServed DEF k
<1> QED BY <1>1, <1>7, <1>8, <1>9, <1>10, <1>11, <1>12 DEF k
-----------------------------------------------------------------------------
(* What arrives at a client. *)

\* The message that arrives, and what it leaves.
LEMMA ArrivalFacts ==
    ASSUME ClientInv, NEW c \in Clients, NEW n \in 1..Len(inbox[c])
    PROVE  /\ inbox[c] \in Seq(Messages)
           /\ inbox[c][n] \in Messages
           /\ MessageIsSound(c, inbox[c][n], granted)
           /\ RemoveAt(inbox[c], n) \in Seq(Messages)
           /\ ToSet(RemoveAt(inbox[c], n)) \subseteq ToSet(inbox[c])
           /\ inbox[c] # <<>>
           /\ n = 1 => RemoveAt(inbox[c], n) = Tail(inbox[c])
<1> USE DEF ClientInv
<1>1. inbox[c] \in Seq(Messages)
  BY DEF TypeOK
<1>2. inbox[c][n] \in Messages /\ inbox[c] # <<>>
  BY <1>1
<1>3. MessageIsSound(c, inbox[c][n], granted)
  BY <1>1, RemoveAtSet DEF MessagesAreSound
<1>4. /\ RemoveAt(inbox[c], n) \in Seq(Messages)
      /\ ToSet(RemoveAt(inbox[c], n)) \subseteq ToSet(inbox[c])
  BY <1>1, RemoveAtFacts, RemoveAtSet
<1>5. n = 1 => RemoveAt(inbox[c], n) = Tail(inbox[c])
  <2> SUFFICES ASSUME n = 1 PROVE RemoveAt(inbox[c], 1) = Tail(inbox[c])
    OBVIOUS
  <2> DEFINE r == RemoveAt(inbox[c], 1)
             s == Tail(inbox[c])
  <2>1. /\ r \in Seq(Messages) /\ Len(r) = Len(inbox[c]) - 1
        /\ \A i \in 1..(Len(inbox[c]) - 1) : r[i] = inbox[c][i + 1]
    BY <1>1, RemoveAtFacts
  <2>2. /\ s \in Seq(Messages) /\ Len(s) = Len(inbox[c]) - 1
        /\ \A i \in 1..(Len(inbox[c]) - 1) : s[i] = inbox[c][i + 1]
    BY <1>1, <1>2, TailFacts
  <2> HIDE DEF r, s
  <2>3. Len(r) = Len(s) /\ \A i \in 1..Len(r) : r[i] = s[i]
    BY <2>1, <2>2
  <2>4. r = s
    BY <2>1, <2>2, <2>3
  <2> QED BY <2>4 DEF r, s
<1> QED BY <1>1, <1>2, <1>3, <1>4, <1>5

\* A client has handled message n: over IPC, where that is the first one, it has
\* observed what an event says and nothing else.
LEMMA MessageHandled ==
    ASSUME ClientInv, NEW c \in Clients, NEW n \in 1..Len(inbox[c]), MayArrive(inbox[c], n),
           inbox' = [inbox EXCEPT ![c] = RemoveAt(@, n)],
           UNCHANGED <<leaseVars, transport, alive, leaseSize, moves, faults, released,
                       selected, visible, epoch>>,
           observed' \in [Clients -> [Terminals -> LeaseOrNone]],
           owned' \in [Clients -> [Terminals -> LeaseOrNone]],
           held' \in [Terminals -> SUBSET Nat],
           outbox' \in [Clients -> Seq(Calls)],
           takeovers' \in [Clients -> SUBSET Terminals],
           OwnedAreGranted', CallsAreSound', TakeoversAreAlone',
           \A x \in Clients \ {c} : observed'[x] = observed[x],
           transport = "ipc" => \A t \in Terminals :
              observed'[c][t] = IF inbox[c][n] \in EventsOf(t) THEN inbox[c][n].lease
                                ELSE observed[c][t]
    PROVE  ClientInv'
<1> USE DEF ClientInv
<1>1. inbox' \in [Clients -> Seq(Messages)]
  BY ArrivalFacts DEF TypeOK
<1>2. TypeOK'
  BY <1>1 DEF TypeOK, LeaseTypeOK, leaseVars
<1>3. ServerInv'
  BY DEF ServerInv, LeaseInv, LeaseTypeOK, LeaseIsNewest, GrantsAreNumbered, leaseVars,
         InputsAreGranted, ListenersKnowTheLease, EventsAreGranted, EventsCarry
<1>4. MessagesAreSound'
  <2>1. \A x \in Clients : ToSet(inbox'[x]) \subseteq ToSet(inbox[x])
    BY ArrivalFacts DEF TypeOK
  <2>2. granted' = granted
    BY DEF leaseVars
  <2> QED BY <2>1, <2>2 DEF MessagesAreSound
<1>5. ChannelsInOrder'
  <2> SUFFICES ASSUME transport = "ipc", NEW x \in Clients, NEW t \in Terminals
               PROVE  InOrder(inbox'[x], observed'[x][t], t, leases[t],
                              published[t].generation)
    BY DEF ChannelsInOrder, leaseVars
  <2>1. InOrder(inbox[x], observed[x][t], t, leases[t], published[t].generation)
    BY DEF ChannelsInOrder
  <2>2. CASE x = c
    <3>1. n = 1 /\ inbox'[x] = Tail(inbox[x]) /\ inbox[x] # <<>>
      BY <2>2, ArrivalFacts DEF MayArrive, TypeOK
    <3>2. published[t].generation \in Nat /\ observed[x][t] \in LeaseOrNone
      BY DEF TypeOK, LeaseTypeOK, Event
    <3>3. observed'[x][t] = IF inbox[x][1] \in EventsOf(t) THEN inbox[x][1].lease
                            ELSE observed[x][t]
      BY <2>2, <3>1
    <3>4. inbox[x] \in Seq(Messages)
      BY DEF TypeOK
    <3>5. /\ inbox[x][1] \in EventsOf(t) =>
               InOrder(Tail(inbox[x]), inbox[x][1].lease, t, leases[t],
                       published[t].generation)
          /\ inbox[x][1] \notin EventsOf(t) =>
               InOrder(Tail(inbox[x]), observed[x][t], t, leases[t],
                       published[t].generation)
      BY <2>1, <3>1, <3>2, <3>4, FirstHandled
    <3> QED BY <3>1, <3>3, <3>5
  <2>3. CASE x # c
    BY <2>1, <2>3 DEF TypeOK
  <2> QED BY <2>2, <2>3
<1> QED BY <1>2, <1>3, <1>4, <1>5

\* Over IPC an event is not older than what the client has observed, and an
\* answer about the lease says what it has observed.
LEMMA FirstMessage ==
    ASSUME ClientInv, transport = "ipc", NEW c \in Clients, NEW n \in 1..Len(inbox[c]),
           MayArrive(inbox[c], n), NEW t \in Terminals
    PROVE  /\ inbox[c][n] \in EventsOf(t) =>
                Within(observed[c][t], inbox[c][n].generation)
           /\ inbox[c][n] \in TellingsOf(t) => inbox[c][n].lease = observed[c][t]
<1> USE DEF ClientInv
<1>1. n = 1
  BY DEF MayArrive
<1>2. InOrder(inbox[c], observed[c][t], t, leases[t], published[t].generation)
  BY DEF ChannelsInOrder
<1>3. published[t].generation \in Nat /\ observed[c][t] \in LeaseOrNone
  BY DEF TypeOK, LeaseTypeOK, Event
<1> QED BY <1>1, <1>2, <1>3, FirstHandled, ArrivalFacts

\* refresh and apply: what the client then owns was granted to its Device.
LEMMA ObserveEffect ==
    ASSUME ClientInv, NEW c \in Clients, NEW t \in Terminals, NEW l \in LeaseOrNone,
           Proven(l, t, granted), Observe(c, t, l), granted' = granted
    PROVE  /\ observed' \in [Clients -> [Terminals -> LeaseOrNone]]
           /\ owned' \in [Clients -> [Terminals -> LeaseOrNone]]
           /\ OwnedAreGranted'
           /\ \A x \in Clients \ {c} : observed'[x] = observed[x]
           /\ \A u \in Terminals : observed'[c][u] = IF u = t THEN l ELSE observed[c][u]
<1> USE DEF ClientInv, TypeOK
<1> DEFINE r == Reconciled(c, t, l)
<1>1. /\ r \in LeaseOrNone
      /\ r # None => ProvenFor(c, r, t, granted)
  BY DEF Reconciled, LeaseOrNone, OwnedAreGranted, Proven, ProvenFor
<1>2. /\ observed' = [observed EXCEPT ![c][t] = l]
      /\ owned' = [owned EXCEPT ![c][t] = r]
  BY DEF Observe
<1> HIDE DEF r
<1>3. owned' \in [Clients -> [Terminals -> LeaseOrNone]]
  BY <1>1, <1>2
<1>4. OwnedAreGranted'
  BY <1>1, <1>2 DEF OwnedAreGranted
<1> QED BY <1>2, <1>3, <1>4

\* The takeovers when message n of c has been handled and nothing or a call that
\* belongs to no takeover was sent.
LEMMA TakeoversHandled ==
    ASSUME ClientInv, NEW c \in Clients, NEW n \in 1..Len(inbox[c]),
           inbox' = [inbox EXCEPT ![c] = RemoveAt(@, n)],
           \/ takeovers' = takeovers
           \/ inbox[c][n].kind = "answer" /\ Done(c, inbox[c][n].call),
           \/ outbox' = outbox
           \/ \E k \in Calls : ~k.takeover /\ Send(c, k)
    PROVE  /\ takeovers' \in [Clients -> SUBSET Terminals]
           /\ TakeoversAreAlone'
<1> USE DEF ClientInv
<1> DEFINE m == inbox[c][n]
<1>1. m \in Messages
  BY ArrivalFacts
<1>2. takeovers' \in [Clients -> SUBSET Terminals]
  <2> DEFINE T == IF m.call.takeover THEN takeovers[c] \ {m.call.terminal}
                  ELSE takeovers[c]
  <2>1. takeovers \in [Clients -> SUBSET Terminals] /\ T \subseteq Terminals
    BY DEF TypeOK
  <2>2. takeovers' = takeovers \/ takeovers' = [takeovers EXCEPT ![c] = T]
    BY DEF Done
  <2> HIDE DEF T
  <2> QED BY <2>1, <2>2
<1>3. ASSUME NEW x \in Clients, NEW t \in Terminals
      PROVE  Alone(outbox'[x], inbox'[x], takeovers'[x], t)
  <2>1. /\ Alone(outbox[x], inbox[x], takeovers[x], t)
        /\ outbox[x] \in Seq(Calls) /\ inbox[x] \in Seq(Messages)
    BY DEF TakeoversAreAlone, TypeOK
  <2>2. CASE x # c
    <3>1. outbox'[x] = outbox[x] /\ inbox'[x] = inbox[x] /\ takeovers'[x] = takeovers[x]
      BY <2>2 DEF Send, Done, TypeOK
    <3> QED BY <2>1, <3>1
  <2>3. CASE x = c
    <3>1. (t \in takeovers[x] => t \in takeovers'[x]) \/ m \in TakeoverAnswers(t)
      <4>1. CASE takeovers' = takeovers
        BY <4>1
      <4>2. CASE m.kind = "answer" /\ Done(c, m.call)
        <5>1. m.call \in Calls
          BY <1>1, <4>2 DEF Messages
        <5>2. takeovers'[c] = IF m.call.takeover THEN takeovers[c] \ {m.call.terminal}
                              ELSE takeovers[c]
          BY <4>2 DEF Done, TypeOK
        <5> QED BY <1>1, <2>3, <4>2, <5>1, <5>2 DEF TakeoverAnswers, TakeoverCalls
      <4> QED BY <4>1, <4>2
    <3>2. Alone(outbox[x], RemoveAt(inbox[x], n), takeovers'[x], t)
      BY <2>1, <2>3, <3>1, AnswerTaken
    <3>3. inbox'[x] = RemoveAt(inbox[x], n)
      BY <2>3 DEF TypeOK
    <3>4. CASE outbox' = outbox
      BY <3>2, <3>3, <3>4
    <3>5. CASE \E k \in Calls : ~k.takeover /\ Send(c, k)
      <4>1. PICK k \in Calls : ~k.takeover /\ Send(c, k)
        BY <3>5
      <4>2. outbox'[x] = Append(outbox[x], k) /\ k \notin TakeoverCalls(t)
        BY <2>3, <4>1 DEF Send, TypeOK, TakeoverCalls
      <4> QED BY <2>1, <3>2, <3>3, <4>2, OtherSent
    <3> QED BY <3>4, <3>5
  <2> QED BY <2>2, <2>3
<1> QED BY <1>2, <1>3 DEF TakeoversAreAlone
\* The calls when a message has been handled and nothing or a good call was sent.
LEMMA CallsHandled ==
    ASSUME ClientInv, NEW c \in Clients, granted' = granted,
           \/ outbox' = outbox
           \/ \E k \in Calls : CallIsSound(k, granted) /\ Send(c, k)
    PROVE  outbox' \in [Clients -> Seq(Calls)] /\ CallsAreSound'
<1> USE DEF ClientInv
<1>1. CASE outbox' = outbox
  BY <1>1 DEF TypeOK, CallsAreSound
<1>2. CASE \E k \in Calls : CallIsSound(k, granted) /\ Send(c, k)
  <2>1. PICK k \in Calls : CallIsSound(k, granted) /\ Send(c, k)
    BY <1>2
  <2>2. outbox[c] \in Seq(Calls) /\ Append(outbox[c], k) \in Seq(Calls)
    BY DEF TypeOK
  <2>3. outbox' = [outbox EXCEPT ![c] = Append(outbox[c], k)]
    BY <2>1 DEF Send
  <2>4. outbox' \in [Clients -> Seq(Calls)]
    BY <2>2, <2>3 DEF TypeOK
  <2>5. ASSUME NEW x \in Clients, NEW q \in ToSet(outbox'[x])
        PROVE  CallIsSound(q, granted)
    <3>1. q \in ToSet(outbox[x]) \/ q = k
      BY <2>2, <2>3, <2>5, AppendSet DEF TypeOK
    <3> QED BY <2>1, <3>1 DEF CallsAreSound
  <2> QED BY <2>4, <2>5 DEF CallsAreSound
<1> QED BY <1>1, <1>2

LEMMA ApplyStep ==
    ASSUME ClientInv, NEW c \in Clients, NEW n \in 1..Len(inbox[c]), MayArrive(inbox[c], n),
           inbox' = [inbox EXCEPT ![c] = RemoveAt(@, n)], Apply(c, inbox[c][n]),
           UNCHANGED <<leaseVars, transport, alive, leaseSize, moves, faults, released>>
    PROVE  ClientInv'
<1> USE DEF ClientInv
<1> DEFINE e == inbox[c][n]
           t == e.terminal
           old == observed[c][t] # None /\ observed[c][t].generation > e.generation
<1>1. /\ e \in Messages /\ e.kind = "event" /\ t \in Terminals /\ e.lease \in LeaseOrNone
      /\ e.generation \in Nat /\ e \in EventsOf(t) /\ Proven(e.lease, t, granted)
      /\ \A u \in Terminals : e \in EventsOf(u) => u = t
  BY ArrivalFacts DEF Apply, Messages, MessageIsSound, EventsOf
<1>2. /\ UNCHANGED <<selected, visible, epoch, takeovers, outbox, held>>
      /\ \/ old /\ UNCHANGED <<observed, owned>>
         \/ ~old /\ Observe(c, t, e.lease)
  BY DEF Apply
<1>3. takeovers' \in [Clients -> SUBSET Terminals] /\ TakeoversAreAlone'
  BY <1>2, TakeoversHandled
<1>4. outbox' \in [Clients -> Seq(Calls)] /\ CallsAreSound'
  BY <1>2, CallsHandled DEF leaseVars
<1>5. transport = "ipc" => ~old
  <2> SUFFICES ASSUME transport = "ipc", observed[c][t] # None
               PROVE  ~(observed[c][t].generation > e.generation)
    OBVIOUS
  <2>1. observed[c][t].generation \in Nat /\ observed[c][t].generation <= e.generation
    BY <1>1, FirstMessage DEF Within, TypeOK, LeaseOrNone, Lease
  <2> QED BY <1>1, <2>1
<1> HIDE DEF e, old
<1>6. /\ observed' \in [Clients -> [Terminals -> LeaseOrNone]]
      /\ owned' \in [Clients -> [Terminals -> LeaseOrNone]]
      /\ OwnedAreGranted'
      /\ \A x \in Clients \ {c} : observed'[x] = observed[x]
      /\ transport = "ipc" => \A u \in Terminals :
            observed'[c][u] = IF u = t THEN e.lease ELSE observed[c][u]
  <2>1. granted' = granted
    BY DEF leaseVars
  <2>2. CASE UNCHANGED <<observed, owned>> /\ old
    BY <1>5, <2>1, <2>2 DEF TypeOK, OwnedAreGranted
  <2>3. CASE Observe(c, t, e.lease)
    BY <1>1, <2>1, <2>3, ObserveEffect
  <2> QED BY <1>2, <2>2, <2>3
<1>7. transport = "ipc" => \A u \in Terminals :
         observed'[c][u] = IF e \in EventsOf(u) THEN e.lease ELSE observed[c][u]
  BY <1>1, <1>6
<1>8. held' \in [Terminals -> SUBSET Nat]
  BY <1>2 DEF TypeOK
<1> QED BY <1>2, <1>3, <1>4, <1>6, <1>7, <1>8, MessageHandled DEF e

LEMMA ClaimedStep ==
    ASSUME ClientInv, NEW c \in Clients, NEW n \in 1..Len(inbox[c]), MayArrive(inbox[c], n),
           inbox' = [inbox EXCEPT ![c] = RemoveAt(@, n)],
           inbox[c][n].kind = "answer", Claimed(c, inbox[c][n]),
           UNCHANGED <<leaseVars, transport, alive, leaseSize, moves, faults, released>>
    PROVE  ClientInv'
<1> USE DEF ClientInv
<1> DEFINE m == inbox[c][n]
           k == m.call
           t == k.terminal
<1>1. /\ m \in Messages /\ k \in Calls /\ t \in Terminals /\ m.ok
      /\ k.method = "acquire" /\ Done(c, k)
      /\ ProvenFor(c, m.lease, t, granted) /\ m \in TellingsOf(t)
      /\ \A u \in Terminals : m \notin EventsOf(u)
  <2>1. m \in Messages /\ k \in Calls /\ MessageIsSound(c, m, granted)
    BY ArrivalFacts DEF Messages
  <2> QED BY <2>1 DEF Claimed, Calls, MessageIsSound, TellingsOf, EventsOf
<1>2. /\ UNCHANGED <<selected, visible, epoch>>
      /\ \/ UNCHANGED <<observed, owned, outbox, held>>
         \/ Send(c, ParkCall(t, m.lease)) /\ UNCHANGED <<observed, owned, held>>
         \/ /\ observed' = [observed EXCEPT ![c][t] = m.lease]
            /\ owned' = [owned EXCEPT ![c][t] = m.lease]
            /\ held' = [held EXCEPT ![t] = @ \cup {m.lease.generation}]
            /\ UNCHANGED outbox
  BY DEF Claimed
<1>3. m.lease \in Lease /\ m.lease \in LeaseOrNone /\ m.lease.generation \in Nat
  BY <1>1 DEF ProvenFor, Lease, LeaseOrNone
<1>4. /\ ParkCall(t, m.lease) \in Calls /\ CallIsSound(ParkCall(t, m.lease), granted)
      /\ ~ParkCall(t, m.lease).takeover
  <2>1. ~ParkCall(t, m.lease).takeover
    BY DEF ParkCall, Call
  <2> QED BY <1>1, <1>3, <2>1, CallsAreCalls DEF ProvenFor
<1>5. outbox' = outbox \/ Send(c, ParkCall(t, m.lease))
  BY <1>2
<1>6. takeovers' \in [Clients -> SUBSET Terminals] /\ TakeoversAreAlone'
  BY <1>1, <1>4, <1>5, TakeoversHandled
<1>7. outbox' \in [Clients -> Seq(Calls)] /\ CallsAreSound'
  BY <1>4, <1>5, CallsHandled DEF leaseVars
<1>8. transport = "ipc" => m.lease = observed[c][t]
  BY <1>1, FirstMessage
<1> HIDE DEF m
<1>9. /\ observed' \in [Clients -> [Terminals -> LeaseOrNone]]
      /\ owned' \in [Clients -> [Terminals -> LeaseOrNone]]
      /\ OwnedAreGranted'
      /\ \A x \in Clients \ {c} : observed'[x] = observed[x]
      /\ transport = "ipc" => \A u \in Terminals : observed'[c][u] = observed[c][u]
  <2>1. granted' = granted
    BY DEF leaseVars
  <2>2. CASE UNCHANGED <<observed, owned>>
    BY <2>1, <2>2 DEF TypeOK, OwnedAreGranted
  <2>3. CASE /\ observed' = [observed EXCEPT ![c][t] = m.lease]
             /\ owned' = [owned EXCEPT ![c][t] = m.lease]
    <3>1. /\ observed' \in [Clients -> [Terminals -> LeaseOrNone]]
          /\ owned' \in [Clients -> [Terminals -> LeaseOrNone]]
      BY <1>1, <1>3, <2>3 DEF TypeOK
    <3>2. OwnedAreGranted'
      BY <1>1, <2>1, <2>3 DEF TypeOK, OwnedAreGranted
    <3> QED BY <1>1, <1>8, <2>3, <3>1, <3>2 DEF TypeOK
  <2> QED BY <1>2, <2>2, <2>3
<1>10. held' \in [Terminals -> SUBSET Nat]
  <2>1. held \in [Terminals -> SUBSET Nat]
    BY DEF TypeOK
  <2>2. CASE held' = [held EXCEPT ![t] = @ \cup {m.lease.generation}]
    BY <1>1, <1>3, <2>1, <2>2
  <2> QED BY <1>2, <2>1, <2>2
<1> QED BY <1>1, <1>2, <1>6, <1>7, <1>9, <1>10, MessageHandled DEF m

LEMMA RefreshedStep ==
    ASSUME ClientInv, NEW c \in Clients, NEW n \in 1..Len(inbox[c]), MayArrive(inbox[c], n),
           inbox' = [inbox EXCEPT ![c] = RemoveAt(@, n)],
           inbox[c][n].kind = "answer", Refreshed(c, inbox[c][n]),
           UNCHANGED <<leaseVars, transport, alive, leaseSize, moves, faults, released>>
    PROVE  ClientInv'
<1> USE DEF ClientInv
<1> DEFINE m == inbox[c][n]
           t == m.call.terminal
<1>1. /\ m \in Messages /\ m.call \in Calls /\ t \in Terminals
      /\ m.lease \in LeaseOrNone /\ Done(c, m.call)
      /\ m.ok => Proven(m.lease, t, granted) /\ m \in TellingsOf(t)
      /\ \A u \in Terminals : m \notin EventsOf(u)
  <2>1. m \in Messages /\ m.call \in Calls /\ MessageIsSound(c, m, granted)
        /\ m.lease \in LeaseOrNone
    BY ArrivalFacts DEF Messages
  <2> QED BY <2>1 DEF Refreshed, Calls, MessageIsSound, TellingsOf, EventsOf
<1>2. /\ UNCHANGED <<selected, visible, epoch, outbox, held>>
      /\ \/ UNCHANGED <<observed, owned>>
         \/ m.ok /\ Observe(c, t, m.lease)
  BY DEF Refreshed
<1>3. takeovers' \in [Clients -> SUBSET Terminals] /\ TakeoversAreAlone'
  BY <1>1, <1>2, TakeoversHandled
<1>4. outbox' \in [Clients -> Seq(Calls)] /\ CallsAreSound'
  BY <1>2, CallsHandled DEF leaseVars
<1>5. transport = "ipc" /\ m.ok => m.lease = observed[c][t]
  BY <1>1, FirstMessage
<1> HIDE DEF m
<1>6. /\ observed' \in [Clients -> [Terminals -> LeaseOrNone]]
      /\ owned' \in [Clients -> [Terminals -> LeaseOrNone]]
      /\ OwnedAreGranted'
      /\ \A x \in Clients \ {c} : observed'[x] = observed[x]
      /\ transport = "ipc" => \A u \in Terminals : observed'[c][u] = observed[c][u]
  <2>1. granted' = granted
    BY DEF leaseVars
  <2>2. CASE UNCHANGED <<observed, owned>>
    BY <2>1, <2>2 DEF TypeOK, OwnedAreGranted
  <2>3. CASE m.ok /\ Observe(c, t, m.lease)
    BY <1>1, <1>5, <2>1, <2>3, ObserveEffect
  <2> QED BY <1>2, <2>2, <2>3
<1>7. held' \in [Terminals -> SUBSET Nat]
  BY <1>2 DEF TypeOK
<1> QED BY <1>1, <1>2, <1>3, <1>4, <1>6, <1>7, MessageHandled DEF m

\* A call that failed asks who is in control, or nothing is left to do.
LEMMA OverStep ==
    ASSUME ClientInv, NEW c \in Clients, NEW n \in 1..Len(inbox[c]), MayArrive(inbox[c], n),
           inbox' = [inbox EXCEPT ![c] = RemoveAt(@, n)],
           inbox[c][n].kind = "answer",
           Failed(c, inbox[c][n]) \/ Settled(c, inbox[c][n]),
           UNCHANGED <<leaseVars, transport, alive, leaseSize, moves, faults, released>>
    PROVE  ClientInv'
<1> USE DEF ClientInv
<1> DEFINE m == inbox[c][n]
           k == Current(m.call.terminal, m.call.takeover)
<1>1. /\ m \in Messages /\ m.call \in Calls
      /\ \A u \in Terminals : /\ m \notin EventsOf(u)
                              /\ m \in TellingsOf(u) => Failed(c, m)
  BY ArrivalFacts DEF Messages, EventsOf, TellingsOf, Settled
<1>2. /\ UNCHANGED <<clientVars, held>>
      /\ outbox' = outbox \/ Send(c, k)
  BY DEF Failed, Settled
<1>3. k \in Calls /\ CallIsSound(k, granted)
  BY <1>1, CallsAreCalls DEF Calls
<1>4. outbox' \in [Clients -> Seq(Calls)] /\ CallsAreSound'
  BY <1>2, <1>3, CallsHandled DEF leaseVars
<1>5. TakeoversAreAlone'
  <2>1. CASE outbox' = outbox
    BY <1>2, <2>1, TakeoversHandled DEF clientVars
  <2>2. CASE Send(c, k)
    <3> SUFFICES ASSUME NEW x \in Clients, NEW t \in Terminals
                 PROVE  Alone(outbox'[x], inbox'[x], takeovers[x], t)
      BY <1>2 DEF TakeoversAreAlone, clientVars
    <3>1. /\ Alone(outbox[x], inbox[x], takeovers[x], t)
          /\ outbox[x] \in Seq(Calls) /\ inbox[x] \in Seq(Messages)
      BY DEF TakeoversAreAlone, TypeOK
    <3>2. k \in TakeoverCalls(t) => m \in TakeoverAnswers(t)
      BY <1>1 DEF TakeoverCalls, TakeoverAnswers, Current, Call
    <3>3. CASE x = c
      <4>1. outbox'[x] = Append(outbox[x], k) /\ inbox'[x] = RemoveAt(inbox[x], n)
        BY <2>2, <3>3 DEF Send, TypeOK
      <4> QED BY <1>3, <3>1, <3>2, <3>3, <4>1, AnswerPassedOn
    <3>4. CASE x # c
      BY <2>2, <3>1, <3>4 DEF Send, TypeOK
    <3> QED BY <3>3, <3>4
  <2> QED BY <1>2, <2>1, <2>2
<1>6. /\ observed' = observed /\ owned' = owned /\ takeovers' = takeovers
      /\ OwnedAreGranted'
  BY <1>2 DEF clientVars, OwnedAreGranted, leaseVars
<1> QED BY <1>1, <1>2, <1>4, <1>5, <1>6, MessageHandled DEF clientVars, TypeOK

LEMMA ArriveStep ==
    ASSUME ClientInv, NEW c \in Clients, Arrive(c)
    PROVE  ClientInv'
<1>1. PICK n \in 1..Len(inbox[c]) :
         /\ MayArrive(inbox[c], n)
         /\ inbox' = [inbox EXCEPT ![c] = RemoveAt(@, n)]
         /\ LET m == inbox[c][n]
            IN  \/ Apply(c, m)
                \/ /\ m.kind = "answer"
                   /\ Claimed(c, m) \/ Refreshed(c, m) \/ Failed(c, m) \/ Settled(c, m)
  BY DEF Arrive
<1>2. UNCHANGED <<leaseVars, transport, alive, leaseSize, moves, faults, released>>
  BY DEF Arrive
<1> QED BY <1>1, <1>2, ApplyStep, ClaimedStep, RefreshedStep, OverStep
-----------------------------------------------------------------------------
(* What the browser's transport loses. *)

LEMMA ChannelsFail ==
    ASSUME ClientInv, Fault, NEW c \in Clients, NEW o \in Seq(Calls), NEW r \in Seq(Messages),
           outbox' = [outbox EXCEPT ![c] = o], inbox' = [inbox EXCEPT ![c] = r],
           \A k \in ToSet(o) : CallIsSound(k, granted),
           \A m \in ToSet(r) : m \in ToSet(inbox[c]) \/ MessageIsSound(c, m, granted),
           \A t \in Terminals : Alone(o, r, takeovers[c], t)
    PROVE  ClientInv'
<1> USE DEF ClientInv
<1>1. /\ transport = "http" /\ transport' = transport /\ UNCHANGED leaseVars
      /\ UNCHANGED <<observed, owned, selected, visible, epoch, takeovers>>
      /\ UNCHANGED <<held, released, alive, leaseSize, moves>>
      /\ faults' = faults + 1
  BY DEF Fault, clientVars, ghosts
<1>2. /\ outbox' \in [Clients -> Seq(Calls)] /\ inbox' \in [Clients -> Seq(Messages)]
      /\ outbox'[c] = o /\ inbox'[c] = r
      /\ \A x \in Clients \ {c} : outbox'[x] = outbox[x] /\ inbox'[x] = inbox[x]
  BY DEF TypeOK
<1>3. TypeOK'
  BY <1>1, <1>2 DEF TypeOK, LeaseTypeOK, leaseVars
<1>4. ServerInv'
  BY <1>1 DEF ServerInv, LeaseInv, LeaseTypeOK, LeaseIsNewest, GrantsAreNumbered, leaseVars,
              InputsAreGranted, ListenersKnowTheLease, EventsAreGranted, EventsCarry
<1>5. granted' = granted
  BY <1>1 DEF leaseVars
<1>6. OwnedAreGranted'
  BY <1>1, <1>5 DEF OwnedAreGranted
<1>7. CallsAreSound'
  <2>1. \A x \in Clients : \A k \in ToSet(outbox'[x]) : CallIsSound(k, granted)
    BY <1>2 DEF CallsAreSound
  <2> QED BY <1>5, <2>1 DEF CallsAreSound
<1>8. MessagesAreSound'
  <2>1. ASSUME NEW x \in Clients, NEW m \in ToSet(inbox'[x])
        PROVE  MessageIsSound(x, m, granted)
    <3>1. m \in ToSet(inbox[x]) \/ MessageIsSound(x, m, granted)
      BY <1>2, <2>1
    <3> QED BY <3>1 DEF MessagesAreSound
  <2> QED BY <1>5, <2>1 DEF MessagesAreSound
<1>9. TakeoversAreAlone'
  <2>1. ASSUME NEW x \in Clients, NEW t \in Terminals
        PROVE  Alone(outbox'[x], inbox'[x], takeovers[x], t)
    BY <1>2 DEF TakeoversAreAlone
  <2> QED BY <1>1, <2>1 DEF TakeoversAreAlone
<1>10. ChannelsInOrder'
  BY <1>1 DEF ChannelsInOrder
<1> QED BY <1>3, <1>4, <1>6, <1>7, <1>8, <1>9, <1>10

LEMMA FailureIsSound ==
    ASSUME NEW c, NEW k \in Calls
    PROVE  Answer(k, FALSE, None) \in Messages /\ MessageIsSound(c, Answer(k, FALSE, None), granted)
BY DEF Answer, Messages, LeaseOrNone, MessageIsSound

LEMMA CallFailsStep ==
    ASSUME ClientInv, NEW c \in Clients, CallFails(c)
    PROVE  ClientInv'
<1> USE DEF ClientInv
<1> DEFINE q == outbox[c]
<1>1. PICK n \in 1..Len(q) :
         /\ ~q[n].failed
         /\ \/ outbox' = [outbox EXCEPT ![c] = RemoveAt(@, n)]
            \/ outbox' = [outbox EXCEPT ![c][n].failed = TRUE]
         /\ inbox' = [inbox EXCEPT ![c] = Append(@, Answer(q[n], FALSE, None))]
  BY DEF CallFails
<1> DEFINE m == Answer(q[n], FALSE, None)
           r == Append(inbox[c], m)
<1>2. q \in Seq(Calls) /\ inbox[c] \in Seq(Messages) /\ q[n] \in Calls
  <2>1. q \in Seq(Calls) /\ inbox[c] \in Seq(Messages)
    BY DEF TypeOK
  <2> QED BY <2>1
<1>3. /\ m \in Messages /\ MessageIsSound(c, m, granted)
      /\ m.kind = "answer" /\ m.call = q[n]
  BY <1>2, FailureIsSound DEF Answer
<1>4. Fault /\ inbox' = [inbox EXCEPT ![c] = r]
  BY <1>1 DEF CallFails
<1> HIDE DEF m
<1>5. r \in Seq(Messages) /\ ToSet(r) = ToSet(inbox[c]) \cup {m}
  BY <1>2, <1>3, AppendSet
<1>6. \A x \in ToSet(r) : x \in ToSet(inbox[c]) \/ MessageIsSound(c, x, granted)
  BY <1>3, <1>5
<1>7. \A k \in ToSet(q) : CallIsSound(k, granted)
  BY DEF CallsAreSound
<1>8. \A t \in Terminals : Alone(q, inbox[c], takeovers[c], t)
  BY DEF TakeoversAreAlone
<1>9. CASE outbox' = [outbox EXCEPT ![c] = RemoveAt(@, n)]
  <2> DEFINE o == RemoveAt(q, n)
  <2>1. o \in Seq(Calls) /\ ToSet(o) \subseteq ToSet(q)
    BY <1>2, RemoveAtFacts, RemoveAtSet
  <2>2. \A t \in Terminals : Alone(o, r, takeovers[c], t)
    BY <1>1, <1>2, <1>3, <1>8, CallAnswered
  <2>3. outbox' = [outbox EXCEPT ![c] = o]
    BY <1>9
  <2> HIDE DEF o, r
  <2> QED BY <1>4, <1>5, <1>6, <1>7, <2>1, <2>2, <2>3, ChannelsFail
<1>10. CASE outbox' = [outbox EXCEPT ![c][n].failed = TRUE]
  <2> DEFINE k == [q[n] EXCEPT !.failed = TRUE]
             o == [q EXCEPT ![n] = k]
  <2>1. k \in Calls /\ CallIsSound(k, granted)
    <3>1. q[n] \in ToSet(q)
      BY <1>2 DEF ToSet
    <3>2. CallIsSound(q[n], granted)
      BY <1>7, <3>1
    <3>3. /\ k \in Calls /\ k.method = q[n].method /\ k.proof = q[n].proof
          /\ k.terminal = q[n].terminal /\ k.size = q[n].size
      BY <1>2 DEF Calls
    <3> QED BY <3>2, <3>3 DEF CallIsSound
  <2>2. outbox' = [outbox EXCEPT ![c] = o]
    BY <1>10
  <2> HIDE DEF q
  <2>3. /\ o \in Seq(Calls) /\ Len(o) = Len(q)
        /\ \A a \in 1..Len(q) : o[a] = IF a = n THEN k ELSE q[a]
    <3> HIDE DEF k
    <3> QED BY <1>2, <2>1
  <2>4. \A x \in ToSet(o) : CallIsSound(x, granted)
    <3> SUFFICES ASSUME NEW x \in ToSet(o) PROVE CallIsSound(x, granted)
      OBVIOUS
    <3>1. PICK a \in 1..Len(q) : x = o[a]
      BY <2>3 DEF ToSet
    <3>2. a # n => x \in ToSet(q)
      BY <1>2, <2>3, <3>1 DEF ToSet
    <3> QED BY <1>7, <2>1, <2>3, <3>1, <3>2
  <2> HIDE DEF o
  <2>5. \A t \in Terminals : Alone(o, r, takeovers[c], t)
    BY <1>1, <1>2, <1>3, <1>8, <2>3, CallGivenUp
  <2> HIDE DEF r
  <2> QED BY <1>4, <1>5, <1>6, <2>2, <2>3, <2>4, <2>5, ChannelsFail
<1> QED BY <1>1, <1>9, <1>10

LEMMA AnswerFailsStep ==
    ASSUME ClientInv, NEW c \in Clients, AnswerFails(c)
    PROVE  ClientInv'
<1> USE DEF ClientInv
<1>1. PICK n \in 1..Len(inbox[c]) :
         /\ inbox[c][n].kind = "answer" /\ inbox[c][n].ok
         /\ inbox' = [inbox EXCEPT ![c][n] = Answer(inbox[c][n].call, FALSE, None)]
  BY DEF AnswerFails
<1> DEFINE i == inbox[c]
           m == Answer(i[n].call, FALSE, None)
           r == [i EXCEPT ![n] = m]
<1>2. i \in Seq(Messages) /\ i[n] \in Messages /\ outbox[c] \in Seq(Calls)
  <2>1. i \in Seq(Messages) /\ outbox[c] \in Seq(Calls)
    BY DEF TypeOK
  <2> QED BY <2>1
<1>3. i[n].call \in Calls
  BY <1>1, <1>2 DEF Messages
<1>4. /\ m \in Messages /\ MessageIsSound(c, m, granted)
      /\ m.kind = "answer" /\ m.call = i[n].call
  BY <1>3, FailureIsSound DEF Answer
<1>5. inbox' = [inbox EXCEPT ![c] = r]
  BY <1>1 DEF TypeOK
<1>6. i[n].kind = "answer"
  BY <1>1
<1> HIDE DEF m, i
<1>7. /\ r \in Seq(Messages) /\ Len(r) = Len(i)
      /\ \A a \in 1..Len(r) : r[a] = IF a = n THEN m ELSE i[a]
  BY <1>2, <1>4 DEF i
<1>8. ASSUME NEW t \in Terminals
      PROVE  Alone(outbox[c], r, takeovers[c], t)
  <2> DEFINE f == [a \in 1..Len(r) |-> a]
  <2>1. f \in [1..Len(r) -> 1..Len(i)]
    BY <1>7
  <2>2. \A a, b \in 1..Len(r) : f[a] = f[b] => a = b
    OBVIOUS
  <2>3. ASSUME NEW a \in 1..Len(r), r[a] \in TakeoverAnswers(t)
        PROVE  i[f[a]] \in TakeoverAnswers(t)
    <3>1. f[a] = a
      OBVIOUS
    <3>2. m \in TakeoverAnswers(t) => i[n] \in TakeoverAnswers(t)
      BY <1>2, <1>4, <1>6 DEF TakeoverAnswers
    <3> QED BY <1>7, <2>3, <3>1, <3>2
  <2>4. Alone(outbox[c], i, takeovers[c], t)
    BY DEF TakeoversAreAlone, i
  <2> HIDE DEF f, r
  <2> QED BY <1>2, <1>7, <2>1, <2>2, <2>3, <2>4, AnswersKept
<1>9. ASSUME NEW q \in ToSet(r)
      PROVE  q \in ToSet(i) \/ MessageIsSound(c, q, granted)
  <2>1. PICK a \in 1..Len(r) : q = r[a]
    BY <1>7, <1>9 DEF ToSet
  <2>2. CASE a = n
    BY <1>4, <1>7, <2>1, <2>2
  <2>3. CASE a # n
    BY <1>2, <1>7, <2>1, <2>3 DEF ToSet
  <2> QED BY <2>2, <2>3
<1>10. outbox' = [outbox EXCEPT ![c] = outbox[c]] /\ Fault
       /\ \A k \in ToSet(outbox[c]) : CallIsSound(k, granted)
  BY DEF AnswerFails, TypeOK, CallsAreSound
<1> HIDE DEF r
<1> QED BY <1>2, <1>5, <1>7, <1>8, <1>9, <1>10, ChannelsFail DEF i

LEMMA LoseEventsStep ==
    ASSUME ClientInv, NEW c \in Clients, LoseEvents(c)
    PROVE  ClientInv'
<1> USE DEF ClientInv
<1> DEFINE i == inbox[c]
           answers == {a \in 1..Len(i) : i[a].kind = "answer"}
           N == Cardinality(answers)
<1>1. PICK order \in [1..N -> answers] :
         /\ \A a, b \in DOMAIN order : a < b => order[a] < order[b]
         /\ inbox' = [inbox EXCEPT ![c] = [a \in DOMAIN order |-> @[order[a]]]]
  BY DEF LoseEvents
<1> DEFINE r == [a \in 1..N |-> i[order[a]]]
<1>2. i \in Seq(Messages) /\ outbox[c] \in Seq(Calls)
  BY DEF TypeOK
<1>3. N \in Nat
  <2>1. IsFiniteSet(1..Len(i))
    BY <1>2, FS_Interval
  <2>2. IsFiniteSet(answers)
    BY <2>1, FS_Subset
  <2> QED BY <2>2, FS_CardinalityType
<1> HIDE DEF N
<1>4. answers \subseteq 1..Len(i) /\ \A a \in 1..Len(i) : i[a] \in Messages
  BY <1>2
<1>5. inbox' = [inbox EXCEPT ![c] = r]
  BY <1>1 DEF TypeOK
<1> HIDE DEF i, answers
<1>6. /\ \A a \in 1..N : order[a] \in 1..Len(i)
      /\ r \in Seq(Messages) /\ Len(r) = N
      /\ \A a \in 1..N : r[a] = i[order[a]]
  <2>1. \A a \in 1..N : order[a] \in 1..Len(i) /\ i[order[a]] \in Messages
    BY <1>1, <1>4
  <2>2. r \in [1..N -> Messages]
    BY <2>1
  <2>3. r \in Seq(Messages) /\ Len(r) = N
    BY <1>3, <2>2
  <2> QED BY <2>1, <2>3
<1>7. ASSUME NEW a \in 1..N, NEW b \in 1..N, order[a] = order[b]
      PROVE  a = b
  <2>1. order[a] \in Nat /\ order[b] \in Nat /\ a \in Nat /\ b \in Nat
    BY <1>2, <1>6
  <2>2. ~(a < b) /\ ~(b < a)
    BY <1>1, <1>7, <2>1
  <2> QED BY <2>1, <2>2
<1> HIDE DEF r
<1>8. ASSUME NEW t \in Terminals
      PROVE  Alone(outbox[c], r, takeovers[c], t)
  <2>1. order \in [1..Len(r) -> 1..Len(i)]
    BY <1>1, <1>4, <1>6
  <2>2. Alone(outbox[c], i, takeovers[c], t)
    BY DEF TakeoversAreAlone, i
  <2>3. \A a, b \in 1..Len(r) : order[a] = order[b] => a = b
    BY <1>6, <1>7
  <2>4. \A a \in 1..Len(r) :
           r[a] \in TakeoverAnswers(t) => i[order[a]] \in TakeoverAnswers(t)
    BY <1>6
  <2> QED BY <1>2, <1>6, <2>1, <2>2, <2>3, <2>4, AnswersKept
<1>9. ToSet(r) \subseteq ToSet(i)
  BY <1>2, <1>6 DEF ToSet
<1>10. outbox' = [outbox EXCEPT ![c] = outbox[c]] /\ Fault
       /\ \A k \in ToSet(outbox[c]) : CallIsSound(k, granted)
  BY DEF LoseEvents, TypeOK, CallsAreSound
<1> QED BY <1>2, <1>5, <1>6, <1>8, <1>9, <1>10, ChannelsFail DEF i
-----------------------------------------------------------------------------
(* The invariant holds. *)

LEMMA ClientInit == Init => ClientInv
<1> SUFFICES ASSUME Init PROVE ClientInv
  OBVIOUS
<1>1. LeaseInv /\ ListenersKnowTheLease /\ EventsAreGranted /\ LeaseTypeOK
  BY LeaseInitInv, EventInit DEF Init, LeaseInv
<1>2. EventsCarry
  BY DEF Init, LeaseInit, EventsCarry, Carries
<1>3. <<>> \in Seq(Calls) /\ <<>> \in Seq(Messages) /\ Len(<<>>) = 0 /\ ToSet(<<>>) = {}
  BY DEF ToSet
<1>4. TypeOK
  BY <1>1, <1>3 DEF Init, TypeOK, LeaseOrNone
<1>5. \A c \in Clients : outbox[c] = <<>> /\ inbox[c] = <<>>
  BY DEF Init
<1>6. OwnedAreGranted
  BY DEF Init, OwnedAreGranted
<1>7. CallsAreSound /\ MessagesAreSound
  BY <1>3, <1>5 DEF CallsAreSound, MessagesAreSound
<1>8. TakeoversAreAlone
  <2>1. \A X : At(<<>>, X) = {}
    BY DEF At
  <2> QED BY <1>5, <2>1 DEF TakeoversAreAlone, Alone, AtMostOne
<1>9. ChannelsInOrder
  <2>1. ASSUME NEW t \in Terminals
        PROVE  InOrder(<<>>, None, t, None, 0)
    BY <1>3 DEF InOrder, Sees, At, Within
  <2>2. \A c \in Clients, t \in Terminals :
          observed[c][t] = None /\ leases[t] = None /\ published[t].generation = 0
    BY DEF Init, LeaseInit
  <2> QED BY <1>5, <2>1, <2>2 DEF ChannelsInOrder
<1> QED BY <1>1, <1>2, <1>4, <1>6, <1>7, <1>8, <1>9 DEF ClientInv, ServerInv

LEMMA ClientStep == ClientInv /\ [Next]_vars => ClientInv'
<1> SUFFICES ASSUME ClientInv, [Next]_vars PROVE ClientInv'
  OBVIOUS
<1>1. CASE UNCHANGED vars
  <2>1. UNCHANGED <<leaseVars, inbox, outbox, transport, observed, owned, takeovers>>
    BY <1>1 DEF vars, clientVars, wires
  <2>2. TypeOK'
    BY <1>1 DEF ClientInv, TypeOK, LeaseTypeOK, vars, leaseVars, clientVars, wires, ghosts
  <2>3. CallsAreSound' /\ TakeoversAreAlone'
    BY <2>1 DEF ClientInv, CallsAreSound, TakeoversAreAlone, leaseVars
  <2> QED BY <2>1, <2>2, <2>3, NothingLearnt
<1>2. CASE \E c \in Clients, t \in Terminals \cup {None} : Select(c, t)
  BY <1>2, SelectStep
<1>3. CASE \E c \in Clients : SetPageVisible(c)
  BY <1>3, SetPageVisibleStep
<1>4. CASE \E c \in Clients, t \in Terminals : Takeover(c, t)
  BY <1>4, TakeoverStep
<1>5. CASE \E c \in Clients, t \in Terminals : ReleaseControl(c, t)
  BY <1>5, ReleaseStep
<1>6. CASE \E c \in Clients, t \in Terminals : Type(c, t)
  BY <1>6, InputStep
<1>7. CASE \E c \in Clients, t \in Terminals, size \in Sizes : Fit(c, t, size)
  BY <1>7, InputStep
<1>8. CASE \E c \in Clients : Serve(c) \/ Arrive(c)
  BY <1>8, ServeStep, ArriveStep
<1>9. CASE \E t \in Terminals : Exit(t)
  BY <1>9, ExitStep
<1>10. CASE \E c \in Clients : CallFails(c) \/ AnswerFails(c) \/ LoseEvents(c)
  BY <1>10, CallFailsStep, AnswerFailsStep, LoseEventsStep
<1> QED BY <1>1, <1>2, <1>3, <1>4, <1>5, <1>6, <1>7, <1>8, <1>9, <1>10 DEF Next

\* The inductive invariant of clients, channels and server.
THEOREM ClientInvariant == Spec => []ClientInv
BY ClientInit, ClientStep, PTL DEF Spec

\* Type correctness of clients, channels and server.
THEOREM ClientTyping == Spec => []TypeOK
<1>1. ClientInv => TypeOK
  BY DEF ClientInv
<1> QED BY <1>1, ClientInvariant, PTL

-----------------------------------------------------------------------------
(* The properties. *)

\* Over IPC a window that has handled all its messages knows the lease of every
\* terminal, and believes itself in control only if its Device is (apply, claim,
\* refresh and reconcileOwnedLease of the coordinator).
THEOREM SettledClientsKnow == Spec => []SettledClientsKnowTheLease
<1>1. ClientInv => SettledClientsKnowTheLease
  <2> SUFFICES ASSUME ClientInv, transport = "ipc", NEW c \in Clients, NEW t \in Terminals,
                      inbox[c] = <<>>
               PROVE  /\ observed[c][t] = leases[t]
                      /\ Owns(c, t) => leases[t].controller = DeviceOf[c]
    BY DEF SettledClientsKnowTheLease
  <2>1. observed[c][t] = leases[t]
    BY NothingLeft DEF ClientInv, ChannelsInOrder
  <2>2. owned[c][t] # None => owned[c][t].controller = DeviceOf[c]
    BY DEF ClientInv, OwnedAreGranted, ProvenFor
  <2> QED BY <2>1, <2>2 DEF Owns, Same, SameControl
<1> QED BY <1>1, ClientInvariant, PTL

\* A call that is served is a call the client can make: its proof was granted.
LEMMA ServedCall ==
    ASSUME ClientInv, NEW c \in Clients, NEW n \in 1..Len(outbox[c])
    PROVE  /\ outbox[c][n] \in Calls /\ CallIsSound(outbox[c][n], granted)
           /\ outbox[c][n].takeover /\ outbox[c][n].method = "acquire"
                 => WantsTakeover(c, outbox[c][n].terminal)
<1>1. outbox[c] \in Seq(Calls)
  BY DEF ClientInv, TypeOK
<1>2. outbox[c][n] \in Calls /\ outbox[c][n] \in ToSet(outbox[c])
  BY <1>1 DEF ToSet
<1>3. outbox[c][n] \in TakeoverCalls(outbox[c][n].terminal)
        => n \in At(outbox[c], TakeoverCalls(outbox[c][n].terminal))
  BY <1>1 DEF At
<1>4. outbox[c][n].terminal \in Terminals /\ outbox[c][n].failed \in BOOLEAN
  BY <1>2 DEF Calls
<1>5. CallIsSound(outbox[c][n], granted)
  BY <1>2 DEF ClientInv, CallsAreSound
<1>6. ASSUME outbox[c][n].takeover, outbox[c][n].method = "acquire"
      PROVE  WantsTakeover(c, outbox[c][n].terminal)
  <2>1. CASE outbox[c][n].failed
    BY <1>2, <1>6, <2>1 DEF WantsTakeover
  <2>2. CASE ~outbox[c][n].failed
    <3>1. n \in At(outbox[c], TakeoverCalls(outbox[c][n].terminal))
      BY <1>2, <1>3, <1>6, <2>2 DEF TakeoverCalls
    <3> QED BY <1>4, <3>1 DEF ClientInv, TakeoversAreAlone, Alone, WantsTakeover
  <2> QED BY <1>4, <2>1, <2>2
<1> QED BY <1>2, <1>5, <1>6

\* What a call does to the leases: it claims a terminal for the Device of the
\* client, or it is a step of the Device that presents a proof.
LEMMA ServedLease ==
    ASSUME ClientInv, NEW c \in Clients, Serve(c)
    PROVE  \/ \E k \in Calls :
                /\ k.takeover => WantsTakeover(c, k.terminal)
                /\ Acquire(k.terminal, DeviceOf[c], Host, k.takeover, leaseSize[k.terminal])
           \/ \E t \in Terminals : \E p \in granted[t] :
                Write(t, p) \/ Park(t, p) \/ \E size \in Sizes : Resize(t, p, size)
           \/ UNCHANGED leaseVars
<1>1. PICK n \in 1..Len(outbox[c]) :
         LET k == outbox[c][n]
         IN  \/ ServeAcquire(c, k) \/ ServeCurrent(c, k) \/ ServePark(c, k)
             \/ ServeInput(c, k) \/ ServeResize(c, k) \/ ServeGone(c, k)
  BY DEF Serve
<1> DEFINE k == outbox[c][n]
<1>2. /\ k \in Calls /\ CallIsSound(k, granted) /\ k.terminal \in Terminals
      /\ k.takeover /\ k.method = "acquire" => WantsTakeover(c, k.terminal)
  BY ServedCall DEF Calls
<1> HIDE DEF k
<1>3. CASE ServeAcquire(c, k)
  BY <1>2, <1>3 DEF ServeAcquire
<1>4. CASE ServeCurrent(c, k) \/ ServeGone(c, k)
  BY <1>4 DEF ServeCurrent, ServeGone, Refuse
<1>5. CASE ServePark(c, k)
  <2>1. k.proof \in granted[k.terminal] /\ Park(k.terminal, k.proof)
    BY <1>2, <1>5 DEF ServePark, CallIsSound
  <2> QED BY <1>2, <2>1
<1>6. CASE ServeInput(c, k)
  <2>1. k.proof \in granted[k.terminal] /\ Write(k.terminal, k.proof)
    BY <1>2, <1>6 DEF ServeInput, CallIsSound
  <2> QED BY <1>2, <2>1
<1>7. CASE ServeResize(c, k)
  <2>1. k.proof \in granted[k.terminal] /\ k.size \in Sizes
        /\ Resize(k.terminal, k.proof, k.size)
    BY <1>2, <1>7 DEF ServeResize, CallIsSound
  <2> QED BY <1>2, <2>1
<1> QED BY <1>1, <1>3, <1>4, <1>5, <1>6, <1>7 DEF k

\* Only Serve and Exit touch the leases.
LEMMA LeasesElsewhere ==
    ASSUME [Next]_vars
    PROVE  \/ \E c \in Clients : Serve(c)
           \/ \E t \in Terminals : ClearTerminal(t)
           \/ UNCHANGED leaseVars
<1>1. CASE UNCHANGED vars
  BY <1>1 DEF vars
<1>2. CASE \E c \in Clients, t \in Terminals \cup {None} : Select(c, t)
  BY <1>2 DEF Select, UserMoves
<1>3. CASE \E c \in Clients : SetPageVisible(c)
  BY <1>3 DEF SetPageVisible, UserMoves
<1>4. CASE \E c \in Clients, t \in Terminals :
             Takeover(c, t) \/ ReleaseControl(c, t) \/ Type(c, t)
  BY <1>4 DEF Takeover, ReleaseControl, Type, UserMoves
<1>5. CASE \E c \in Clients, t \in Terminals, size \in Sizes : Fit(c, t, size)
  BY <1>5 DEF Fit, UserMoves
<1>6. CASE \E c \in Clients : Arrive(c)
  BY <1>6 DEF Arrive
<1>7. CASE \E t \in Terminals : Exit(t)
  BY <1>7 DEF Exit
<1>8. CASE \E c \in Clients : CallFails(c) \/ AnswerFails(c) \/ LoseEvents(c)
  BY <1>8 DEF CallFails, AnswerFails, LoseEvents, Fault
<1> QED BY <1>1, <1>2, <1>3, <1>4, <1>5, <1>6, <1>7, <1>8 DEF Next

\* Whatever the clients and the transport do, the server's lease manager only
\* takes its own steps: all that is proved of TerminalInputLease holds here.
THEOREM ClientsUseTheLeaseManager == Spec => LeaseSpec
<1>1. Init => LeaseInit
  BY DEF Init
<1>2. ClientInv /\ [Next]_vars => [LeaseNext]_leaseVars
  <2> SUFFICES ASSUME ClientInv, [Next]_vars PROVE [LeaseNext]_leaseVars
    OBVIOUS
  <2>1. CASE \E c \in Clients : Serve(c)
    <3>1. PICK c \in Clients : Serve(c)
      BY <2>1
    <3>2. CASE \E k \in Calls :
             Acquire(k.terminal, DeviceOf[c], Host, k.takeover, leaseSize[k.terminal])
      <4>1. PICK k \in Calls :
              Acquire(k.terminal, DeviceOf[c], Host, k.takeover, leaseSize[k.terminal])
        BY <3>2
      <4>2. /\ k.terminal \in Terminals /\ k.takeover \in BOOLEAN
            /\ leaseSize[k.terminal] \in Sizes /\ DeviceOf[c] \in Devices /\ Host \in Owners
        BY ClientAssumption DEF Calls, ClientInv, TypeOK
      <4> QED BY <4>1, <4>2 DEF LeaseNext
    <3>3. CASE \E t \in Terminals : \E p \in granted[t] :
             Write(t, p) \/ Park(t, p) \/ \E size \in Sizes : Resize(t, p, size)
      BY <3>3 DEF LeaseNext
    <3> QED BY <3>1, <3>2, <3>3, ServedLease
  <2>2. CASE \E t \in Terminals : ClearTerminal(t)
    BY <2>2 DEF LeaseNext
  <2> QED BY <2>1, <2>2, LeasesElsewhere
<1> QED BY <1>1, <1>2, ClientInvariant, PTL DEF Spec, LeaseSpec

\* Control goes straight from one Device to another only while a user of the new
\* one waits for a takeover, or has asked for one with a call that failed for the
\* client and is still on its way: no selection, reveal, retry or late answer
\* takes a terminal from anybody.
THEOREM TakeoversAreWanted == Spec => TakeoverNeedsAUser
<1>1. ASSUME ClientInv, [Next]_vars, NEW t \in Terminals,
             leases[t] # None, leases'[t] # None,
             leases'[t].controller # leases[t].controller
      PROVE  \E c \in Clients : DeviceOf[c] = leases'[t].controller /\ WantsTakeover(c, t)
  <2>1. leases \in [Terminals -> Lease \cup {None}]
    BY <1>1 DEF ClientInv, TypeOK, LeaseTypeOK
  <2>2. ASSUME \E u \in Terminals : ClearTerminal(u)
        PROVE  FALSE
    BY <1>1, <2>1, <2>2 DEF ClearTerminal, EndLease, leaseVars
  <2>3. ASSUME NEW u \in Terminals, NEW p,
               Write(u, p) \/ Park(u, p) \/ \E size \in Sizes : Resize(u, p, size)
        PROVE  FALSE
    <3>1. CASE Write(u, p) \/ Park(u, p)
      BY <1>1, <2>1, <3>1 DEF Write, Park, EndLease, leaseVars
    <3>2. CASE \E size \in Sizes : Resize(u, p, size)
      <4>1. PICK size \in Sizes : Resize(u, p, size)
        BY <3>2
      <4>2. UNCHANGED leaseVars \/ leases' = [leases EXCEPT ![u].size = size]
        BY <4>1 DEF Resize, SetSize
      <4>3. /\ leases[t] \in Lease
            /\ \/ leases'[t] = leases[t]
               \/ leases'[t] = [leases[t] EXCEPT !.size = size]
        BY <1>1, <2>1, <4>2 DEF leaseVars
      <4> QED BY <1>1, <4>3 DEF Lease
    <3> QED BY <2>3, <3>1, <3>2
  <2>4. ~UNCHANGED leaseVars
    BY <1>1 DEF leaseVars
  <2>5. PICK c \in Clients : Serve(c)
    BY <1>1, <2>2, <2>4, LeasesElsewhere
  <2>6. PICK k \in Calls :
           /\ k.takeover => WantsTakeover(c, k.terminal)
           /\ Acquire(k.terminal, DeviceOf[c], Host, k.takeover, leaseSize[k.terminal])
    BY <1>1, <2>3, <2>4, <2>5, ServedLease
  <2>7. /\ MayAcquire(k.terminal, k.takeover)
        /\ Grant(k.terminal, DeviceOf[c], Host, leaseSize[k.terminal])
    BY <2>4, <2>6 DEF Acquire
  <2>8. k.terminal = t /\ leases'[t].controller = DeviceOf[c]
    BY <1>1, <2>1, <2>7 DEF Grant, Calls
  <2> QED BY <1>1, <2>6, <2>7, <2>8 DEF MayAcquire
<1>2. ClientInv /\ [Next]_vars
        => [\A t \in Terminals :
              (/\ leases[t] # None /\ leases'[t] # None
               /\ leases'[t].controller # leases[t].controller)
              => \E c \in Clients : /\ DeviceOf[c] = leases'[t].controller
                                    /\ WantsTakeover(c, t)]_vars
  BY <1>1
<1> QED BY <1>2, ClientInvariant, PTL DEF Spec, TakeoverNeedsAUser
=============================================================================
