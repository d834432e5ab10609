------------------------ MODULE DeviceConnectionProofs ------------------------
(***************************************************************************)
(* Machine-checked proofs about DeviceConnection.                          *)
(*                                                                         *)
(* ConnectionInv is the inductive invariant.  A ready Device listens       *)
(* because the socket and the transport's state change together, and a     *)
(* connect that is under way is the only one who may make it ready         *)
(* (TransportHasSocket).  A stream has no gap because the last number on a *)
(* socket's way is the server's counter as long as it is the only socket   *)
(* accepted (StreamContinues).  Demand is honoured because what the client *)
(* has promised is demanded by the server except for what connectNow has   *)
(* still to assert (PromiseIsKept).                                        *)
(***************************************************************************)
EXTENDS DeviceConnection, SequenceTheorems, FiniteSetTheorems, TLAPS

Asserting == request # None /\ request.phase = "asserting"

(* The transport is connected exactly while it has a socket, except that a *)
(* disposed one has none, and no socket is open before OpenSocket.         *)
TransportHasSocket ==
  /\ disposed => socket = None
  /\ ~disposed => (transport = "connected" <=> socket # None)
  /\ request # None => status # "ready" /\ (request.phase # "asserting" => socket = None)
  /\ ~disposed /\ "unnoticed" \notin risks /\ (status = "ready" \/ Asserting) =>
       transport = "connected"

(* What is on its way on a socket that is served alone, given the number   *)
(* received last, the epoch described and the server's counter.            *)
Continues(link, last, described, counter) ==
  LET wire == link.wire IN
  /\ \A i \in 1..Len(wire) : wire[i] = wire[1] + i - 1
  /\ last # None /\ wire # <<>> => wire[1] = last + 1
  /\ link.at # "accepted" \/ link.cut => wire = <<>>
  /\ link.at = "opening" => last = None
  /\ link.at = "accepted" /\ ~link.cut =>
       /\ wire # <<>> => wire[Len(wire)] = counter
       /\ last # None => link.epoch = described
       /\ last # None /\ wire = <<>> => last = counter

StreamContinues ==
  socket # None /\ "crowded" \notin risks =>
    Continues(links[socket], lastSequence, descriptor, sequence)

(* The terminals that the client counts on.                                *)
Promised == IF call = None THEN demanded ELSE call.desired \ call.on
Todo == IF Asserting THEN request.todo ELSE {}

PromiseIsKept ==
  /\ call # None => call.on \subseteq call.desired /\ call.off \cap call.desired = {}
  /\ /\ Asserting \/ status = "ready"
     /\ socket # None /\ links[socket].at # "released"
     /\ risks \cap {"answer", "overlap", "grace"} = {}
     => Promised \ Todo \subseteq demand

ConnectionInv == TypeOK /\ TransportHasSocket /\ StreamContinues /\ PromiseIsKept

-----------------------------------------------------------------------------
(* Sequences of links.                                                     *)

(* The sockets there were are numbered, and each is a link. *)
LEMMA LinksAreFunctions ==
  ASSUME TypeOK
  PROVE  /\ Len(links) \in Nat /\ Generations = 1..Len(links)
         /\ links \in [1..Len(links) -> Links]
         /\ \A g \in Generations : links[g] \in Links
<1>1. links \in Seq(Links) BY DEF TypeOK, StreamTypeOK
<1> QED BY <1>1, LenProperties DEF Generations

(* A step that changes one link.                                           *)
LEMMA OneLinkChanges ==
  ASSUME TypeOK, NEW g \in Generations, NEW link \in Links,
         links' = [links EXCEPT ![g] = link]
  PROVE  /\ links' \in Seq(Links) /\ Generations' = Generations
         /\ \A h \in Generations : links'[h] = IF h = g THEN link ELSE links[h]
<1>1. links \in Seq(Links) /\ g \in 1..Len(links)
  BY LinksAreFunctions DEF TypeOK, StreamTypeOK
<1>2. /\ links' \in Seq(Links) /\ Len(links') = Len(links)
      /\ \A h \in 1..Len(links) : links'[h] = IF h = g THEN link ELSE links[h]
  BY <1>1, ExceptSeq
<1>3. DOMAIN links' = 1..Len(links')
  BY <1>2, LenProperties
<1> QED BY <1>1, <1>2, <1>3, LinksAreFunctions DEF Generations

(* Sequences of links are functions on an interval.                        *)
LEMMA LinkFunctions ==
  ASSUME NEW n \in Nat, NEW f \in [1..n -> Links]
  PROVE  f \in Seq(Links) /\ DOMAIN f = 1..n
BY SeqDef

(* The server has finitely many sockets.                                   *)
LEMMA ServedAreFinite ==
  ASSUME TypeOK
  PROVE  /\ IsFiniteSet(Accepted) /\ Cardinality(Accepted) \in Nat
         /\ \A g \in Generations : Cardinality({h \in Accepted : h <= g}) \in Nat
<1>1. IsFiniteSet(1..Len(links)) BY LinksAreFunctions, FS_Interval
<1>2. IsFiniteSet(Accepted)
  BY <1>1, LinksAreFunctions, FS_Subset DEF Accepted
<1>3. \A g \in Generations : IsFiniteSet({h \in Accepted : h <= g})
  BY <1>2, FS_Subset
<1> QED BY <1>2, <1>3, FS_CardinalityType

-----------------------------------------------------------------------------
(* The generations are those of links. *)
LEMMA SameLinks == UNCHANGED links => UNCHANGED Generations
BY DEF Generations

(* Every step keeps the types. *)
LEMMA TypingStep == ASSUME TypeOK, Next PROVE TypeOK'
<1>1. CASE Connect
  <2>11. DeviceTypeOK'
    BY <1>1 DEF TypeOK, DeviceTypeOK, StreamTypeOK, Requests, Connect, BeginConnect, device,
       stream, wishes, server
  <2>12. StreamTypeOK'
    BY <1>1, SameLinks DEF TypeOK, StreamTypeOK, DeviceTypeOK, Requests, Generations, Connect,
       BeginConnect, device, stream, wishes, server
  <2>13. WishTypeOK' /\ ServerTypeOK'
    <3>1. WishTypeOK'
      BY <1>1 DEF TypeOK, WishTypeOK, Calls, Connect, BeginConnect, device, stream, wishes, server
    <3>2. grace' \in BOOLEAN
      BY <1>1 DEF TypeOK, ServerTypeOK, Connect, BeginConnect, device, stream, wishes, server
    <3>3. epoch' \in Nat /\ sequence' \in Nat
      BY <1>1 DEF TypeOK, ServerTypeOK, Connect, BeginConnect, device, stream, wishes, server
    <3>4. demand' \subseteq Terminals
      BY <1>1 DEF TypeOK, ServerTypeOK, WishTypeOK, Calls, Connect, BeginConnect, device, stream,
         wishes, server
    <3> QED BY <3>1, <3>2, <3>3, <3>4 DEF ServerTypeOK
  <2>14. /\ probe' \in {None} \cup [since: Nat \cup {None}, answer: Nat \cup {None}]
         /\ faults' \in Nat /\ events' \in Nat
         /\ risks' \subseteq {"unnoticed", "overlap", "crowded", "grace", "answer"}
    BY <1>1 DEF TypeOK, DeviceTypeOK, ServerTypeOK, Connect, BeginConnect, device, stream,
       wishes, server
  <2> QED BY <2>11, <2>12, <2>13, <2>14 DEF TypeOK
<1>2. CASE ReconnectTimer
  <2>1. CASE BeginConnect
    BY <1>2, <2>1, SameLinks DEF TypeOK, DeviceTypeOK, StreamTypeOK, WishTypeOK, ServerTypeOK,
       Requests, ReconnectTimer, BeginConnect, device, stream, wishes, server
  <2>2. CASE ~BeginConnect
    <3>1. UNCHANGED <<status, known, request, livenessTimer, disposed, probe, stream, links,
                      wishes, server, faults, events, risks>> /\ reconnectTimer' = FALSE
      BY <1>2, <2>2 DEF ReconnectTimer
    <3>2. DeviceTypeOK'
      BY <3>1 DEF TypeOK, DeviceTypeOK
    <3>4. StreamTypeOK'
      BY <3>1, SameLinks DEF TypeOK, StreamTypeOK, stream
    <3>3. WishTypeOK' /\ ServerTypeOK'
      BY <3>1 DEF TypeOK, WishTypeOK, ServerTypeOK, wishes, server
    <3> QED BY <3>1, <3>2, <3>3, <3>4 DEF TypeOK
  <2> QED BY <2>1, <2>2
<1>3. CASE Describe
  <2>1. request \in Requests
    BY <1>3 DEF Describe, TypeOK, DeviceTypeOK
  <2>2. request' \in Requests
    BY <1>3, <2>1 DEF Describe, Requests, TypeOK, ServerTypeOK
  <2> QED BY <1>3, <2>2, SameLinks DEF TypeOK, DeviceTypeOK, StreamTypeOK, WishTypeOK,
     ServerTypeOK, Describe, device, stream, wishes, server
<1>4. CASE DescribeFails
  <2>11. DeviceTypeOK'
    BY <1>4 DEF TypeOK, DeviceTypeOK, StreamTypeOK, Requests, DescribeFails, Fault, ConnectFails,
       Rescheduled, device, stream, wishes, server
  <2>12. StreamTypeOK'
    BY <1>4, SameLinks DEF TypeOK, StreamTypeOK, DeviceTypeOK, Requests, Generations,
       DescribeFails, Fault, ConnectFails, Rescheduled, device, stream, wishes, server
  <2>13. WishTypeOK' /\ ServerTypeOK'
    <3>1. WishTypeOK'
      BY <1>4 DEF TypeOK, WishTypeOK, Calls, DescribeFails, Fault, ConnectFails, Rescheduled,
         device, stream, wishes, server
    <3>2. grace' \in BOOLEAN
      BY <1>4 DEF TypeOK, ServerTypeOK, DescribeFails, Fault, ConnectFails, Rescheduled, device,
         stream, wishes, server
    <3>3. epoch' \in Nat /\ sequence' \in Nat
      BY <1>4 DEF TypeOK, ServerTypeOK, DescribeFails, Fault, ConnectFails, Rescheduled, device,
         stream, wishes, server
    <3>4. demand' \subseteq Terminals
      BY <1>4 DEF TypeOK, ServerTypeOK, WishTypeOK, Calls, DescribeFails, Fault, ConnectFails,
         Rescheduled, device, stream, wishes, server
    <3> QED BY <3>1, <3>2, <3>3, <3>4 DEF ServerTypeOK
  <2>14. /\ probe' \in {None} \cup [since: Nat \cup {None}, answer: Nat \cup {None}]
         /\ faults' \in Nat /\ events' \in Nat
         /\ risks' \subseteq {"unnoticed", "overlap", "crowded", "grace", "answer"}
    BY <1>4 DEF TypeOK, DeviceTypeOK, ServerTypeOK, DescribeFails, Fault, ConnectFails,
       Rescheduled, device, stream, wishes, server
  <2> QED BY <2>11, <2>12, <2>13, <2>14 DEF TypeOK
<1>5. CASE OpenSocket
  <2>1. NewLink \in Links
    BY DEF NewLink, Links
  <2>2. ~disposed => links' \in Seq(Links) /\ Generations' = 1..Len(links) + 1
    BY <1>5, <2>1, AppendProperties, LenProperties DEF OpenSocket, TypeOK, StreamTypeOK, Generations
  <2>11. DeviceTypeOK'
    <3>1. CASE disposed
      BY <1>5, <3>1 DEF TypeOK, DeviceTypeOK, OpenSocket, ConnectFails, Rescheduled
    <3>2. CASE ~disposed
      <4>1. request' \in Requests
        BY <1>5, <3>2 DEF OpenSocket, TypeOK, DeviceTypeOK, WishTypeOK, Requests
      <4>2. known' \in Nat \cup {None} /\ disposed' \in BOOLEAN
        BY <1>5, <3>2 DEF OpenSocket, Follows, TypeOK, DeviceTypeOK, Requests
      <4>3. status' \in {"ready", "connecting"}
        BY <1>5, <3>2 DEF OpenSocket, Follows
      <4>4. reconnectTimer' \in BOOLEAN /\ livenessTimer' \in BOOLEAN
        BY <1>5, <3>2 DEF OpenSocket, Follows, Rescheduled, TypeOK, DeviceTypeOK
      <4> QED BY <4>1, <4>2, <4>3, <4>4 DEF DeviceTypeOK
    <3> QED BY <3>1, <3>2
  <2>12. StreamTypeOK'
    BY <1>5, <2>2, LinksAreFunctions, SameLinks DEF TypeOK, StreamTypeOK, DeviceTypeOK, Requests,
       Generations, OpenSocket, Follows, ConnectFails, Rescheduled, device, stream, wishes, server
  <2>13. WishTypeOK' /\ ServerTypeOK'
    <3>1. WishTypeOK'
      BY <1>5 DEF TypeOK, WishTypeOK, Calls, OpenSocket, Follows, ConnectFails, Rescheduled,
         device, stream, wishes, server
    <3>2. grace' \in BOOLEAN
      BY <1>5 DEF TypeOK, ServerTypeOK, OpenSocket, Follows, ConnectFails, Rescheduled, device,
         stream, wishes, server
    <3>3. epoch' \in Nat /\ sequence' \in Nat
      BY <1>5 DEF TypeOK, ServerTypeOK, OpenSocket, Follows, ConnectFails, Rescheduled, device,
         stream, wishes, server
    <3>4. demand' \subseteq Terminals
      BY <1>5 DEF TypeOK, ServerTypeOK, WishTypeOK, Calls, OpenSocket, Follows, ConnectFails,
         Rescheduled, device, stream, wishes, server
    <3> QED BY <3>1, <3>2, <3>3, <3>4 DEF ServerTypeOK
  <2>14. /\ probe' \in {None} \cup [since: Nat \cup {None}, answer: Nat \cup {None}]
         /\ faults' \in Nat /\ events' \in Nat
         /\ risks' \subseteq {"unnoticed", "overlap", "crowded", "grace", "answer"}
    BY <1>5 DEF TypeOK, DeviceTypeOK, ServerTypeOK, OpenSocket, Follows, ConnectFails,
       Rescheduled, device, stream, wishes, server
  <2> QED BY <2>11, <2>12, <2>13, <2>14 DEF TypeOK
<1>6. ASSUME NEW t \in Terminals, Reassert(t) PROVE TypeOK'
  BY <1>6, SameLinks DEF TypeOK, DeviceTypeOK, StreamTypeOK, WishTypeOK, ServerTypeOK, Requests,
     Calls, Reassert, device, stream, wishes, server
<1>7. ASSUME NEW t \in Terminals, ReassertFails(t) PROVE TypeOK'
  <2>11. DeviceTypeOK'
    BY <1>7 DEF TypeOK, DeviceTypeOK, StreamTypeOK, Requests, ReassertFails, Fault, ConnectFails,
       Rescheduled, device, stream, wishes, server
  <2>12. StreamTypeOK'
    BY <1>7, SameLinks DEF TypeOK, StreamTypeOK, DeviceTypeOK, Requests, Generations,
       ReassertFails, Fault, ConnectFails, Rescheduled, device, stream, wishes, server
  <2>13. WishTypeOK' /\ ServerTypeOK'
    <3>1. WishTypeOK'
      BY <1>7 DEF TypeOK, WishTypeOK, Calls, ReassertFails, Fault, ConnectFails, Rescheduled,
         device, stream, wishes, server
    <3>2. grace' \in BOOLEAN
      BY <1>7 DEF TypeOK, ServerTypeOK, ReassertFails, Fault, ConnectFails, Rescheduled, device,
         stream, wishes, server
    <3>3. epoch' \in Nat /\ sequence' \in Nat
      BY <1>7 DEF TypeOK, ServerTypeOK, ReassertFails, Fault, ConnectFails, Rescheduled, device,
         stream, wishes, server
    <3>4. demand' \subseteq Terminals
      BY <1>7 DEF TypeOK, ServerTypeOK, WishTypeOK, Calls, ReassertFails, Fault, ConnectFails,
         Rescheduled, device, stream, wishes, server
    <3> QED BY <3>1, <3>2, <3>3, <3>4 DEF ServerTypeOK
  <2>14. /\ probe' \in {None} \cup [since: Nat \cup {None}, answer: Nat \cup {None}]
         /\ faults' \in Nat /\ events' \in Nat
         /\ risks' \subseteq {"unnoticed", "overlap", "crowded", "grace", "answer"}
    BY <1>7 DEF TypeOK, DeviceTypeOK, ServerTypeOK, ReassertFails, Fault, ConnectFails,
       Rescheduled, device, stream, wishes, server
  <2> QED BY <2>11, <2>12, <2>13, <2>14 DEF TypeOK
<1>8. CASE BecomeReady
  BY <1>8, SameLinks DEF TypeOK, DeviceTypeOK, StreamTypeOK, WishTypeOK, ServerTypeOK, Requests,
     Calls, BecomeReady, device, stream, wishes, server
<1>9. ASSUME NEW g \in Generations, Accept(g) PROVE TypeOK'
  <2> DEFINE link == [links[g] EXCEPT !.at = "accepted", !.epoch = epoch]
  <2>1. links[g] \in Links /\ g \in Generations
    BY <1>9, LinksAreFunctions DEF Accept
  <2>2. link \in Links
    BY <2>1, <1>9 DEF Accept, Links, Gone, TypeOK, ServerTypeOK
  <2>3. links' = [links EXCEPT ![g] = link]
    BY <2>1, <1>9 DEF Accept
  <2>4. links' \in Seq(Links) /\ Generations' = Generations
    BY <2>1, <2>2, <2>3, OneLinkChanges
  <2>11. DeviceTypeOK'
    BY <1>9 DEF TypeOK, DeviceTypeOK, StreamTypeOK, Requests, Accept, device, stream, wishes, server
  <2>12. StreamTypeOK'
    BY <1>9, <2>4, SameLinks DEF TypeOK, StreamTypeOK, DeviceTypeOK, Requests, Generations,
       Accept, device, stream, wishes, server
  <2>13. WishTypeOK' /\ ServerTypeOK'
    <3>1. WishTypeOK'
      BY <1>9 DEF TypeOK, WishTypeOK, Calls, Accept, device, stream, wishes, server
    <3>2. grace' \in BOOLEAN
      BY <1>9 DEF TypeOK, ServerTypeOK, Accept, device, stream, wishes, server
    <3>3. epoch' \in Nat /\ sequence' \in Nat
      BY <1>9 DEF TypeOK, ServerTypeOK, Accept, device, stream, wishes, server
    <3>4. demand' \subseteq Terminals
      BY <1>9 DEF TypeOK, ServerTypeOK, WishTypeOK, Calls, Accept, device, stream, wishes, server
    <3> QED BY <3>1, <3>2, <3>3, <3>4 DEF ServerTypeOK
  <2>14. /\ probe' \in {None} \cup [since: Nat \cup {None}, answer: Nat \cup {None}]
         /\ faults' \in Nat /\ events' \in Nat
         /\ risks' \subseteq {"unnoticed", "overlap", "crowded", "grace", "answer"}
    BY <1>9 DEF TypeOK, DeviceTypeOK, ServerTypeOK, Accept, device, stream, wishes, server
  <2> QED BY <2>11, <2>12, <2>13, <2>14 DEF TypeOK
<1>10. CASE Publish
  <2>1. links' \in [1..Len(links) -> Links]
    <3> SUFFICES ASSUME NEW g \in Generations PROVE links'[g] \in Links
      BY <1>10, LinksAreFunctions DEF Publish
    <3>1. links[g] \in Links BY LinksAreFunctions
    <3>2. Cardinality({h \in Accepted : h <= g}) \in Nat
      BY ServedAreFinite
    <3>3. sequence + Cardinality({h \in Accepted : h <= g}) \in Nat
      BY <3>2 DEF TypeOK, ServerTypeOK
    <3>4. Append(links[g].wire, sequence + Cardinality({h \in Accepted : h <= g})) \in Seq(Nat)
      BY <3>1, <3>3, AppendProperties DEF Links
    <3>5. links'[g] = IF g \in Accepted
            THEN [links[g] EXCEPT !.wire = IF links[g].cut THEN <<>> ELSE
                   Append(@, sequence + Cardinality({h \in Accepted : h <= g}))]
            ELSE links[g]
      BY <1>10 DEF Publish
    <3>6. <<>> \in Seq(Nat)
      BY EmptySeq
    <3> QED BY <3>1, <3>4, <3>5, <3>6 DEF Links
  <2>2. links' \in Seq(Links) /\ Generations' = Generations
    BY <2>1, LinksAreFunctions, LinkFunctions DEF Generations
  <2>3. Cardinality(Accepted) \in Nat
    BY ServedAreFinite
  <2>11. DeviceTypeOK'
    BY <1>10 DEF TypeOK, DeviceTypeOK, StreamTypeOK, Requests, Publish, device, stream, wishes,
       server
  <2>12. StreamTypeOK'
    BY <1>10, <2>2, SameLinks DEF TypeOK, StreamTypeOK, DeviceTypeOK, Requests, Generations,
       Publish, device, stream, wishes, server
  <2>13. WishTypeOK' /\ ServerTypeOK'
    <3>1. WishTypeOK'
      BY <1>10 DEF TypeOK, WishTypeOK, Calls, Publish, device, stream, wishes, server
    <3>2. grace' \in BOOLEAN
      BY <1>10, <2>3 DEF TypeOK, ServerTypeOK, Publish, device, stream, wishes, server
    <3>3. epoch' \in Nat /\ sequence' \in Nat
      BY <1>10, <2>3 DEF TypeOK, ServerTypeOK, Publish, device, stream, wishes, server
    <3>4. demand' \subseteq Terminals
      BY <1>10 DEF TypeOK, ServerTypeOK, WishTypeOK, Calls, Publish, device, stream, wishes, server
    <3> QED BY <3>1, <3>2, <3>3, <3>4 DEF ServerTypeOK
  <2>14. /\ probe' \in {None} \cup [since: Nat \cup {None}, answer: Nat \cup {None}]
         /\ faults' \in Nat /\ events' \in Nat
         /\ risks' \subseteq {"unnoticed", "overlap", "crowded", "grace", "answer"}
    BY <1>10 DEF TypeOK, DeviceTypeOK, ServerTypeOK, Publish, device, stream, wishes, server
  <2> QED BY <2>11, <2>12, <2>13, <2>14 DEF TypeOK
<1>11. ASSUME NEW g \in Generations, Receive(g) PROVE TypeOK'
  <2> DEFINE link == [links[g] EXCEPT !.wire = Tail(@)]
  <2>1. links[g] \in Links /\ g \in Generations
    BY <1>11, LinksAreFunctions DEF Receive
  <2>2. link \in Links
    BY <2>1, <1>11, HeadTailProperties DEF Receive, Links, Gone, TypeOK, ServerTypeOK
  <2>3. links' = [links EXCEPT ![g] = link]
    BY <2>1, <1>11 DEF Receive
  <2>4. links' \in Seq(Links) /\ Generations' = Generations
    BY <2>1, <2>2, <2>3, OneLinkChanges
  <2>5. Head(links[g].wire) \in Nat
    BY <1>11, <2>1, HeadTailProperties DEF Receive, Links
  <2>11. DeviceTypeOK'
    BY <1>11 DEF TypeOK, DeviceTypeOK, StreamTypeOK, Requests, Receive, Follows, Rescheduled,
       device, stream, wishes, server
  <2>12. StreamTypeOK'
    BY <1>11, <2>4, <2>5, SameLinks DEF TypeOK, StreamTypeOK, DeviceTypeOK, Requests,
       Generations, Receive, Follows, Rescheduled, device, stream, wishes, server
  <2>13. WishTypeOK' /\ ServerTypeOK'
    <3>1. WishTypeOK'
      BY <1>11 DEF TypeOK, WishTypeOK, Calls, Receive, Follows, Rescheduled, device, stream,
         wishes, server
    <3>2. grace' \in BOOLEAN
      BY <1>11 DEF TypeOK, ServerTypeOK, Receive, Follows, Rescheduled, device, stream, wishes,
         server
    <3>3. epoch' \in Nat /\ sequence' \in Nat
      BY <1>11 DEF TypeOK, ServerTypeOK, Receive, Follows, Rescheduled, device, stream, wishes,
         server
    <3>4. demand' \subseteq Terminals
      BY <1>11 DEF TypeOK, ServerTypeOK, WishTypeOK, Calls, Receive, Follows, Rescheduled,
         device, stream, wishes, server
    <3> QED BY <3>1, <3>2, <3>3, <3>4 DEF ServerTypeOK
  <2>14. /\ probe' \in {None} \cup [since: Nat \cup {None}, answer: Nat \cup {None}]
         /\ faults' \in Nat /\ events' \in Nat
         /\ risks' \subseteq {"unnoticed", "overlap", "crowded", "grace", "answer"}
    BY <1>11 DEF TypeOK, DeviceTypeOK, ServerTypeOK, Receive, Follows, Rescheduled, device,
       stream, wishes, server
  <2> QED BY <2>11, <2>12, <2>13, <2>14 DEF TypeOK
<1>12. ASSUME NEW g \in Generations, Cut(g) PROVE TypeOK'
  <2> DEFINE link == [links[g] EXCEPT !.cut = TRUE, !.wire = <<>>]
  <2>1. links[g] \in Links /\ g \in Generations
    BY <1>12, LinksAreFunctions DEF Cut
  <2>2. link \in Links
    BY <2>1, <1>12, EmptySeq DEF Cut, Links, Gone, TypeOK, ServerTypeOK
  <2>3. links' = [links EXCEPT ![g] = link]
    BY <2>1, <1>12 DEF Cut
  <2>4. links' \in Seq(Links) /\ Generations' = Generations
    BY <2>1, <2>2, <2>3, OneLinkChanges
  <2>11. DeviceTypeOK'
    BY <1>12 DEF TypeOK, DeviceTypeOK, StreamTypeOK, Requests, Cut, Fault, device, stream,
       wishes, server
  <2>12. StreamTypeOK'
    BY <1>12, <2>4, SameLinks DEF TypeOK, StreamTypeOK, DeviceTypeOK, Requests, Generations, Cut,
       Fault, device, stream, wishes, server
  <2>13. WishTypeOK' /\ ServerTypeOK'
    <3>1. WishTypeOK'
      BY <1>12 DEF TypeOK, WishTypeOK, Calls, Cut, Fault, device, stream, wishes, server
    <3>2. grace' \in BOOLEAN
      BY <1>12 DEF TypeOK, ServerTypeOK, Cut, Fault, device, stream, wishes, server
    <3>3. epoch' \in Nat /\ sequence' \in Nat
      BY <1>12 DEF TypeOK, ServerTypeOK, Cut, Fault, device, stream, wishes, server
    <3>4. demand' \subseteq Terminals
      BY <1>12 DEF TypeOK, ServerTypeOK, WishTypeOK, Calls, Cut, Fault, device, stream, wishes,
         server
    <3> QED BY <3>1, <3>2, <3>3, <3>4 DEF ServerTypeOK
  <2>14. /\ probe' \in {None} \cup [since: Nat \cup {None}, answer: Nat \cup {None}]
         /\ faults' \in Nat /\ events' \in Nat
         /\ risks' \subseteq {"unnoticed", "overlap", "crowded", "grace", "answer"}
    BY <1>12 DEF TypeOK, DeviceTypeOK, ServerTypeOK, Cut, Fault, device, stream, wishes, server
  <2> QED BY <2>11, <2>12, <2>13, <2>14 DEF TypeOK
<1>13. CASE SocketCloses
  <2>11. DeviceTypeOK'
    BY <1>13 DEF TypeOK, DeviceTypeOK, StreamTypeOK, Requests, SocketCloses, Disconnects,
       Follows, Rescheduled, device, stream, wishes, server
  <2>12. StreamTypeOK'
    BY <1>13, SameLinks DEF TypeOK, StreamTypeOK, DeviceTypeOK, Requests, Generations,
       SocketCloses, Disconnects, Follows, Rescheduled, device, stream, wishes, server
  <2>13. WishTypeOK' /\ ServerTypeOK'
    <3>1. WishTypeOK'
      BY <1>13 DEF TypeOK, WishTypeOK, Calls, SocketCloses, Disconnects, Follows, Rescheduled,
         device, stream, wishes, server
    <3>2. grace' \in BOOLEAN
      BY <1>13 DEF TypeOK, ServerTypeOK, SocketCloses, Disconnects, Follows, Rescheduled, device,
         stream, wishes, server
    <3>3. epoch' \in Nat /\ sequence' \in Nat
      BY <1>13 DEF TypeOK, ServerTypeOK, SocketCloses, Disconnects, Follows, Rescheduled, device,
         stream, wishes, server
    <3>4. demand' \subseteq Terminals
      BY <1>13 DEF TypeOK, ServerTypeOK, WishTypeOK, Calls, SocketCloses, Disconnects, Follows,
         Rescheduled, device, stream, wishes, server
    <3> QED BY <3>1, <3>2, <3>3, <3>4 DEF ServerTypeOK
  <2>14. /\ probe' \in {None} \cup [since: Nat \cup {None}, answer: Nat \cup {None}]
         /\ faults' \in Nat /\ events' \in Nat
         /\ risks' \subseteq {"unnoticed", "overlap", "crowded", "grace", "answer"}
    BY <1>13 DEF TypeOK, DeviceTypeOK, ServerTypeOK, SocketCloses, Disconnects, Follows,
       Rescheduled, device, stream, wishes, server
  <2> QED BY <2>11, <2>12, <2>13, <2>14 DEF TypeOK
<1>14. ASSUME NEW g \in Generations, Release(g) PROVE TypeOK'
  <2> DEFINE link == Gone
  <2>1. links[g] \in Links /\ g \in Generations
    BY <1>14, LinksAreFunctions DEF Release
  <2>2. link \in Links
    BY <2>1, <1>14 DEF Release, Links, Gone, TypeOK, ServerTypeOK
  <2>3. links' = [links EXCEPT ![g] = link]
    BY <2>1, <1>14 DEF Release
  <2>4. links' \in Seq(Links) /\ Generations' = Generations
    BY <2>1, <2>2, <2>3, OneLinkChanges
  <2>11. DeviceTypeOK'
    BY <1>14 DEF TypeOK, DeviceTypeOK, StreamTypeOK, Requests, Release, device, stream, wishes,
       server
  <2>12. StreamTypeOK'
    BY <1>14, <2>4, SameLinks DEF TypeOK, StreamTypeOK, DeviceTypeOK, Requests, Generations,
       Release, device, stream, wishes, server
  <2>13. WishTypeOK' /\ ServerTypeOK'
    <3>1. WishTypeOK'
      BY <1>14 DEF TypeOK, WishTypeOK, Calls, Release, device, stream, wishes, server
    <3>2. grace' \in BOOLEAN
      BY <1>14 DEF TypeOK, ServerTypeOK, Release, device, stream, wishes, server
    <3>3. epoch' \in Nat /\ sequence' \in Nat
      BY <1>14 DEF TypeOK, ServerTypeOK, Release, device, stream, wishes, server
    <3>4. demand' \subseteq Terminals
      BY <1>14 DEF TypeOK, ServerTypeOK, WishTypeOK, Calls, Release, device, stream, wishes, server
    <3> QED BY <3>1, <3>2, <3>3, <3>4 DEF ServerTypeOK
  <2>14. /\ probe' \in {None} \cup [since: Nat \cup {None}, answer: Nat \cup {None}]
         /\ faults' \in Nat /\ events' \in Nat
         /\ risks' \subseteq {"unnoticed", "overlap", "crowded", "grace", "answer"}
    BY <1>14 DEF TypeOK, DeviceTypeOK, ServerTypeOK, Release, device, stream, wishes, server
  <2> QED BY <2>11, <2>12, <2>13, <2>14 DEF TypeOK
<1>15. CASE GraceEnds
  <2>11. DeviceTypeOK'
    BY <1>15 DEF TypeOK, DeviceTypeOK, StreamTypeOK, Requests, GraceEnds, device, stream, wishes,
       server
  <2>12. StreamTypeOK'
    BY <1>15, SameLinks DEF TypeOK, StreamTypeOK, DeviceTypeOK, Requests, Generations, GraceEnds,
       device, stream, wishes, server
  <2>13. WishTypeOK' /\ ServerTypeOK'
    <3>1. WishTypeOK'
      BY <1>15 DEF TypeOK, WishTypeOK, Calls, GraceEnds, device, stream, wishes, server
    <3>2. grace' \in BOOLEAN
      BY <1>15 DEF TypeOK, ServerTypeOK, GraceEnds, device, stream, wishes, server
    <3>3. epoch' \in Nat /\ sequence' \in Nat
      BY <1>15 DEF TypeOK, ServerTypeOK, GraceEnds, device, stream, wishes, server
    <3>4. demand' \subseteq Terminals
      BY <1>15 DEF TypeOK, ServerTypeOK, WishTypeOK, Calls, GraceEnds, device, stream, wishes,
         server
    <3> QED BY <3>1, <3>2, <3>3, <3>4 DEF ServerTypeOK
  <2>14. /\ probe' \in {None} \cup [since: Nat \cup {None}, answer: Nat \cup {None}]
         /\ faults' \in Nat /\ events' \in Nat
         /\ risks' \subseteq {"unnoticed", "overlap", "crowded", "grace", "answer"}
    BY <1>15 DEF TypeOK, DeviceTypeOK, ServerTypeOK, GraceEnds, device, stream, wishes, server
  <2> QED BY <2>11, <2>12, <2>13, <2>14 DEF TypeOK
<1>16. CASE Restart
  <2>1. links' \in [1..Len(links) -> Links]
    BY <1>16, LinksAreFunctions DEF Restart, Gone, Links
  <2>2. links' \in Seq(Links) /\ Generations' = Generations
    BY <2>1, LinksAreFunctions, LinkFunctions DEF Generations
  <2>11. DeviceTypeOK'
    BY <1>16 DEF TypeOK, DeviceTypeOK, StreamTypeOK, Requests, Restart, Fault, device, stream,
       wishes, server
  <2>12. StreamTypeOK'
    BY <1>16, <2>2, SameLinks DEF TypeOK, StreamTypeOK, DeviceTypeOK, Requests, Generations,
       Restart, Fault, device, stream, wishes, server
  <2>13. WishTypeOK' /\ ServerTypeOK'
    <3>1. WishTypeOK'
      BY <1>16 DEF TypeOK, WishTypeOK, Calls, Restart, Fault, device, stream, wishes, server
    <3>2. grace' \in BOOLEAN
      BY <1>16 DEF TypeOK, ServerTypeOK, Restart, Fault, device, stream, wishes, server
    <3>3. epoch' \in Nat /\ sequence' \in Nat
      BY <1>16 DEF TypeOK, ServerTypeOK, Restart, Fault, device, stream, wishes, server
    <3>4. demand' \subseteq Terminals
      BY <1>16 DEF TypeOK, ServerTypeOK, WishTypeOK, Calls, Restart, Fault, device, stream,
         wishes, server
    <3> QED BY <3>1, <3>2, <3>3, <3>4 DEF ServerTypeOK
  <2>14. /\ probe' \in {None} \cup [since: Nat \cup {None}, answer: Nat \cup {None}]
         /\ faults' \in Nat /\ events' \in Nat
         /\ risks' \subseteq {"unnoticed", "overlap", "crowded", "grace", "answer"}
    BY <1>16 DEF TypeOK, DeviceTypeOK, ServerTypeOK, Restart, Fault, device, stream, wishes, server
  <2> QED BY <2>11, <2>12, <2>13, <2>14 DEF TypeOK
<1>17. CASE LivenessTimer
  <2>11. DeviceTypeOK'
    BY <1>17 DEF TypeOK, DeviceTypeOK, StreamTypeOK, Requests, LivenessTimer, device, stream,
       wishes, server
  <2>12. StreamTypeOK'
    BY <1>17, SameLinks DEF TypeOK, StreamTypeOK, DeviceTypeOK, Requests, Generations,
       LivenessTimer, device, stream, wishes, server
  <2>13. WishTypeOK' /\ ServerTypeOK'
    <3>1. WishTypeOK'
      BY <1>17 DEF TypeOK, WishTypeOK, Calls, LivenessTimer, device, stream, wishes, server
    <3>2. grace' \in BOOLEAN
      BY <1>17 DEF TypeOK, ServerTypeOK, LivenessTimer, device, stream, wishes, server
    <3>3. epoch' \in Nat /\ sequence' \in Nat
      BY <1>17 DEF TypeOK, ServerTypeOK, LivenessTimer, device, stream, wishes, server
    <3>4. demand' \subseteq Terminals
      BY <1>17 DEF TypeOK, ServerTypeOK, WishTypeOK, Calls, LivenessTimer, device, stream,
         wishes, server
    <3> QED BY <3>1, <3>2, <3>3, <3>4 DEF ServerTypeOK
  <2>14. /\ probe' \in {None} \cup [since: Nat \cup {None}, answer: Nat \cup {None}]
         /\ faults' \in Nat /\ events' \in Nat
         /\ risks' \subseteq {"unnoticed", "overlap", "crowded", "grace", "answer"}
    BY <1>17 DEF TypeOK, DeviceTypeOK, ServerTypeOK, LivenessTimer, device, stream, wishes, server
  <2> QED BY <2>11, <2>12, <2>13, <2>14 DEF TypeOK
<1>18. CASE Probe
  BY <1>18, SameLinks DEF TypeOK, DeviceTypeOK, StreamTypeOK, WishTypeOK, ServerTypeOK, Requests,
     Calls, Probe, device, stream, wishes, server
<1>19. CASE ProbeReturns
  <2>11. DeviceTypeOK'
    BY <1>19 DEF TypeOK, DeviceTypeOK, StreamTypeOK, Requests, ProbeReturns, Disconnects,
       Follows, Rescheduled, device, stream, wishes, server
  <2>12. StreamTypeOK'
    BY <1>19, SameLinks DEF TypeOK, StreamTypeOK, DeviceTypeOK, Requests, Generations,
       ProbeReturns, Disconnects, Follows, Rescheduled, device, stream, wishes, server
  <2>13. WishTypeOK' /\ ServerTypeOK'
    <3>1. WishTypeOK'
      BY <1>19 DEF TypeOK, WishTypeOK, Calls, ProbeReturns, Disconnects, Follows, Rescheduled,
         device, stream, wishes, server
    <3>2. grace' \in BOOLEAN
      BY <1>19 DEF TypeOK, ServerTypeOK, ProbeReturns, Disconnects, Follows, Rescheduled, device,
         stream, wishes, server
    <3>3. epoch' \in Nat /\ sequence' \in Nat
      BY <1>19 DEF TypeOK, ServerTypeOK, ProbeReturns, Disconnects, Follows, Rescheduled, device,
         stream, wishes, server
    <3>4. demand' \subseteq Terminals
      BY <1>19 DEF TypeOK, ServerTypeOK, WishTypeOK, Calls, ProbeReturns, Disconnects, Follows,
         Rescheduled, device, stream, wishes, server
    <3> QED BY <3>1, <3>2, <3>3, <3>4 DEF ServerTypeOK
  <2>14. /\ probe' \in {None} \cup [since: Nat \cup {None}, answer: Nat \cup {None}]
         /\ faults' \in Nat /\ events' \in Nat
         /\ risks' \subseteq {"unnoticed", "overlap", "crowded", "grace", "answer"}
    BY <1>19 DEF TypeOK, DeviceTypeOK, ServerTypeOK, ProbeReturns, Disconnects, Follows,
       Rescheduled, device, stream, wishes, server
  <2> QED BY <2>11, <2>12, <2>13, <2>14 DEF TypeOK
<1>20. CASE ProbeFails
  <2>11. DeviceTypeOK'
    BY <1>20 DEF TypeOK, DeviceTypeOK, StreamTypeOK, Requests, ProbeFails, Fault, Disconnects,
       Follows, Rescheduled, device, stream, wishes, server
  <2>12. StreamTypeOK'
    BY <1>20, SameLinks DEF TypeOK, StreamTypeOK, DeviceTypeOK, Requests, Generations,
       ProbeFails, Fault, Disconnects, Follows, Rescheduled, device, stream, wishes, server
  <2>13. WishTypeOK' /\ ServerTypeOK'
    <3>1. WishTypeOK'
      BY <1>20 DEF TypeOK, WishTypeOK, Calls, ProbeFails, Fault, Disconnects, Follows,
         Rescheduled, device, stream, wishes, server
    <3>2. grace' \in BOOLEAN
      BY <1>20 DEF TypeOK, ServerTypeOK, ProbeFails, Fault, Disconnects, Follows, Rescheduled,
         device, stream, wishes, server
    <3>3. epoch' \in Nat /\ sequence' \in Nat
      BY <1>20 DEF TypeOK, ServerTypeOK, ProbeFails, Fault, Disconnects, Follows, Rescheduled,
         device, stream, wishes, server
    <3>4. demand' \subseteq Terminals
      BY <1>20 DEF TypeOK, ServerTypeOK, WishTypeOK, Calls, ProbeFails, Fault, Disconnects,
         Follows, Rescheduled, device, stream, wishes, server
    <3> QED BY <3>1, <3>2, <3>3, <3>4 DEF ServerTypeOK
  <2>14. /\ probe' \in {None} \cup [since: Nat \cup {None}, answer: Nat \cup {None}]
         /\ faults' \in Nat /\ events' \in Nat
         /\ risks' \subseteq {"unnoticed", "overlap", "crowded", "grace", "answer"}
    BY <1>20 DEF TypeOK, DeviceTypeOK, ServerTypeOK, ProbeFails, Fault, Disconnects, Follows,
       Rescheduled, device, stream, wishes, server
  <2> QED BY <2>11, <2>12, <2>13, <2>14 DEF TypeOK
<1>21. ASSUME NEW desired \in SUBSET Terminals, SetDemand(desired) PROVE TypeOK'
  BY <1>21, SameLinks DEF TypeOK, DeviceTypeOK, StreamTypeOK, WishTypeOK, ServerTypeOK, Requests,
     Calls, SetDemand, device, stream, wishes, server
<1>22. ASSUME NEW t \in Terminals, DemandStep(t) PROVE TypeOK'
  BY <1>22, SameLinks DEF TypeOK, DeviceTypeOK, StreamTypeOK, WishTypeOK, ServerTypeOK, Requests,
     Calls, DemandStep, device, stream, wishes, server
<1>23. ASSUME NEW t \in Terminals, DemandFails(t) PROVE TypeOK'
  <2>11. DeviceTypeOK'
    BY <1>23 DEF TypeOK, DeviceTypeOK, StreamTypeOK, Requests, DemandFails, Fault, device,
       stream, wishes, server
  <2>12. StreamTypeOK'
    BY <1>23, SameLinks DEF TypeOK, StreamTypeOK, DeviceTypeOK, Requests, Generations,
       DemandFails, Fault, device, stream, wishes, server
  <2>13. WishTypeOK' /\ ServerTypeOK'
    <3>1. WishTypeOK'
      BY <1>23 DEF TypeOK, WishTypeOK, Calls, DemandFails, Fault, device, stream, wishes, server
    <3>2. grace' \in BOOLEAN
      BY <1>23 DEF TypeOK, ServerTypeOK, DemandFails, Fault, device, stream, wishes, server
    <3>3. epoch' \in Nat /\ sequence' \in Nat
      BY <1>23 DEF TypeOK, ServerTypeOK, DemandFails, Fault, device, stream, wishes, server
    <3>4. demand' \subseteq Terminals
      BY <1>23 DEF TypeOK, ServerTypeOK, WishTypeOK, Calls, DemandFails, Fault, device, stream,
         wishes, server
    <3> QED BY <3>1, <3>2, <3>3, <3>4 DEF ServerTypeOK
  <2>14. /\ probe' \in {None} \cup [since: Nat \cup {None}, answer: Nat \cup {None}]
         /\ faults' \in Nat /\ events' \in Nat
         /\ risks' \subseteq {"unnoticed", "overlap", "crowded", "grace", "answer"}
    BY <1>23 DEF TypeOK, DeviceTypeOK, ServerTypeOK, DemandFails, Fault, device, stream, wishes,
       server
  <2> QED BY <2>11, <2>12, <2>13, <2>14 DEF TypeOK
<1>24. CASE DemandDone
  BY <1>24, SameLinks DEF TypeOK, DeviceTypeOK, StreamTypeOK, WishTypeOK, ServerTypeOK, Requests,
     Calls, DemandDone, device, stream, wishes, server
<1>25. CASE Dispose
  <2>11. DeviceTypeOK'
    BY <1>25 DEF TypeOK, DeviceTypeOK, StreamTypeOK, Requests, Dispose, device, stream, wishes,
       server
  <2>12. StreamTypeOK'
    BY <1>25, SameLinks DEF TypeOK, StreamTypeOK, DeviceTypeOK, Requests, Generations, Dispose,
       device, stream, wishes, server
  <2>13. WishTypeOK' /\ ServerTypeOK'
    <3>1. WishTypeOK'
      BY <1>25 DEF TypeOK, WishTypeOK, Calls, Dispose, device, stream, wishes, server
    <3>2. grace' \in BOOLEAN
      BY <1>25 DEF TypeOK, ServerTypeOK, Dispose, device, stream, wishes, server
    <3>3. epoch' \in Nat /\ sequence' \in Nat
      BY <1>25 DEF TypeOK, ServerTypeOK, Dispose, device, stream, wishes, server
    <3>4. demand' \subseteq Terminals
      BY <1>25 DEF TypeOK, ServerTypeOK, WishTypeOK, Calls, Dispose, device, stream, wishes, server
    <3> QED BY <3>1, <3>2, <3>3, <3>4 DEF ServerTypeOK
  <2>14. /\ probe' \in {None} \cup [since: Nat \cup {None}, answer: Nat \cup {None}]
         /\ faults' \in Nat /\ events' \in Nat
         /\ risks' \subseteq {"unnoticed", "overlap", "crowded", "grace", "answer"}
    BY <1>25 DEF TypeOK, DeviceTypeOK, ServerTypeOK, Dispose, device, stream, wishes, server
  <2> QED BY <2>11, <2>12, <2>13, <2>14 DEF TypeOK
<1> QED BY <1>1, <1>2, <1>3, <1>4, <1>5, <1>6, <1>7, <1>8, <1>9, <1>10, <1>11, <1>12, <1>13,
   <1>14, <1>15, <1>16, <1>17, <1>18, <1>19, <1>20, <1>21, <1>22, <1>23, <1>24, <1>25 DEF Next

-----------------------------------------------------------------------------
(* No socket, number or epoch is None. *)
LEMMA NoneIsNoNumber == None \notin Nat
BY ConnectionAssumption

(* Every step keeps status, transport and socket together. *)
LEMMA TransportStep ==
  ASSUME TypeOK, TransportHasSocket, Next PROVE TransportHasSocket'
<1>1. CASE Connect
  BY <1>1, NoneIsNoNumber DEF TypeOK, DeviceTypeOK, StreamTypeOK, Requests, TransportHasSocket,
     Asserting, Connect, BeginConnect, device, stream, wishes, server
<1>2. CASE ReconnectTimer
  BY <1>2, NoneIsNoNumber DEF TypeOK, DeviceTypeOK, StreamTypeOK, Requests, TransportHasSocket,
     Asserting, ReconnectTimer, BeginConnect, device, stream, wishes, server
<1>3. CASE Describe
  BY <1>3, NoneIsNoNumber DEF TypeOK, DeviceTypeOK, StreamTypeOK, Requests, TransportHasSocket,
     Asserting, Describe, device, stream, wishes, server
<1>4. CASE DescribeFails
  BY <1>4, NoneIsNoNumber DEF TypeOK, DeviceTypeOK, StreamTypeOK, Requests, TransportHasSocket,
     Asserting, DescribeFails, Fault, ConnectFails, Rescheduled, device, stream, wishes, server
<1>5. CASE OpenSocket
  <2>1. Len(links) + 1 # None
    BY LinksAreFunctions, NoneIsNoNumber
  <2>2. CASE disposed
    BY <1>5, <2>2, NoneIsNoNumber DEF TypeOK, DeviceTypeOK, StreamTypeOK, Requests,
       TransportHasSocket, Asserting, OpenSocket, Follows, ConnectFails, Rescheduled, device,
       stream, wishes, server
  <2>3. CASE ~disposed
    <3>1. /\ socket' = Len(links) + 1 /\ transport' = "connected" /\ UNCHANGED disposed
          /\ status' = IF status = "ready" THEN "ready" ELSE "connecting"
          /\ request' = [request EXCEPT !.phase = "asserting", !.todo = demanded]
      BY <1>5, <2>3 DEF OpenSocket, Follows
    <3>2. status' # "ready"
      BY <1>5, <3>1 DEF OpenSocket, TransportHasSocket, TypeOK, DeviceTypeOK, Requests
    <3> QED BY <2>1, <2>3, <3>1, <3>2 DEF TransportHasSocket, Asserting
  <2> QED BY <2>2, <2>3
<1>6. ASSUME NEW t \in Terminals, Reassert(t) PROVE TransportHasSocket'
  BY <1>6, NoneIsNoNumber DEF TypeOK, DeviceTypeOK, StreamTypeOK, Requests, TransportHasSocket,
     Asserting, Reassert, device, stream, wishes, server
<1>7. ASSUME NEW t \in Terminals, ReassertFails(t) PROVE TransportHasSocket'
  BY <1>7, NoneIsNoNumber DEF TypeOK, DeviceTypeOK, StreamTypeOK, Requests, TransportHasSocket,
     Asserting, ReassertFails, Fault, ConnectFails, Rescheduled, device, stream, wishes, server
<1>8. CASE BecomeReady
  BY <1>8, NoneIsNoNumber DEF TypeOK, DeviceTypeOK, StreamTypeOK, Requests, TransportHasSocket,
     Asserting, BecomeReady, device, stream, wishes, server
<1>9. ASSUME NEW g \in Generations, Accept(g) PROVE TransportHasSocket'
  BY <1>9, NoneIsNoNumber DEF TypeOK, DeviceTypeOK, StreamTypeOK, Requests, TransportHasSocket,
     Asserting, Accept, device, stream, wishes, server
<1>10. CASE Publish
  BY <1>10, NoneIsNoNumber DEF TypeOK, DeviceTypeOK, StreamTypeOK, Requests, TransportHasSocket,
     Asserting, Publish, device, stream, wishes, server
<1>11. ASSUME NEW g \in Generations, Receive(g) PROVE TransportHasSocket'
  BY <1>11, NoneIsNoNumber DEF TypeOK, DeviceTypeOK, StreamTypeOK, Requests, TransportHasSocket,
     Asserting, Receive, Follows, Rescheduled, device, stream, wishes, server
<1>12. ASSUME NEW g \in Generations, Cut(g) PROVE TransportHasSocket'
  BY <1>12, NoneIsNoNumber DEF TypeOK, DeviceTypeOK, StreamTypeOK, Requests, TransportHasSocket,
     Asserting, Cut, Fault, device, stream, wishes, server
<1>13. CASE SocketCloses
  BY <1>13, NoneIsNoNumber DEF TypeOK, DeviceTypeOK, StreamTypeOK, Requests, TransportHasSocket,
     Asserting, SocketCloses, Disconnects, Follows, Rescheduled, device, stream, wishes, server
<1>14. ASSUME NEW g \in Generations, Release(g) PROVE TransportHasSocket'
  BY <1>14, NoneIsNoNumber DEF TypeOK, DeviceTypeOK, StreamTypeOK, Requests, TransportHasSocket,
     Asserting, Release, device, stream, wishes, server
<1>15. CASE GraceEnds
  BY <1>15, NoneIsNoNumber DEF TypeOK, DeviceTypeOK, StreamTypeOK, Requests, TransportHasSocket,
     Asserting, GraceEnds, device, stream, wishes, server
<1>16. CASE Restart
  BY <1>16, NoneIsNoNumber DEF TypeOK, DeviceTypeOK, StreamTypeOK, Requests, TransportHasSocket,
     Asserting, Restart, Fault, device, stream, wishes, server
<1>17. CASE LivenessTimer
  BY <1>17, NoneIsNoNumber DEF TypeOK, DeviceTypeOK, StreamTypeOK, Requests, TransportHasSocket,
     Asserting, LivenessTimer, device, stream, wishes, server
<1>18. CASE Probe
  BY <1>18, NoneIsNoNumber DEF TypeOK, DeviceTypeOK, StreamTypeOK, Requests, TransportHasSocket,
     Asserting, Probe, device, stream, wishes, server
<1>19. CASE ProbeReturns
  <2>1. CASE UNCHANGED <<status, request, disposed, stream, risks>>
    BY <2>1 DEF TransportHasSocket, Asserting, stream
  <2>2. CASE ~disposed /\ status = "ready" /\ Disconnects
    BY <2>2, NoneIsNoNumber DEF TypeOK, DeviceTypeOK, StreamTypeOK, Requests, TransportHasSocket,
       Asserting, Disconnects, Follows
  <2> QED BY <1>19, <2>1, <2>2 DEF ProbeReturns, device, stream
<1>20. CASE ProbeFails
  BY <1>20, NoneIsNoNumber DEF TypeOK, DeviceTypeOK, StreamTypeOK, Requests, TransportHasSocket,
     Asserting, ProbeFails, Fault, Disconnects, Follows, Rescheduled, device, stream, wishes,
     server
<1>21. ASSUME NEW desired \in SUBSET Terminals, SetDemand(desired) PROVE TransportHasSocket'
  BY <1>21, NoneIsNoNumber DEF TypeOK, DeviceTypeOK, StreamTypeOK, Requests, TransportHasSocket,
     Asserting, SetDemand, device, stream, wishes, server
<1>22. ASSUME NEW t \in Terminals, DemandStep(t) PROVE TransportHasSocket'
  BY <1>22, NoneIsNoNumber DEF TypeOK, DeviceTypeOK, StreamTypeOK, Requests, TransportHasSocket,
     Asserting, DemandStep, device, stream, wishes, server
<1>23. ASSUME NEW t \in Terminals, DemandFails(t) PROVE TransportHasSocket'
  BY <1>23, NoneIsNoNumber DEF TypeOK, DeviceTypeOK, StreamTypeOK, Requests, TransportHasSocket,
     Asserting, DemandFails, Fault, device, stream, wishes, server
<1>24. CASE DemandDone
  BY <1>24, NoneIsNoNumber DEF TypeOK, DeviceTypeOK, StreamTypeOK, Requests, TransportHasSocket,
     Asserting, DemandDone, device, stream, wishes, server
<1>25. CASE Dispose
  BY <1>25, NoneIsNoNumber DEF TypeOK, DeviceTypeOK, StreamTypeOK, Requests, TransportHasSocket,
     Asserting, Dispose, device, stream, wishes, server
<1> QED BY <1>1, <1>2, <1>3, <1>4, <1>5, <1>6, <1>7, <1>8, <1>9, <1>10, <1>11, <1>12, <1>13,
   <1>14, <1>15, <1>16, <1>17, <1>18, <1>19, <1>20, <1>21, <1>22, <1>23, <1>24, <1>25 DEF Next

(* Every step keeps the server's demand with what the client has promised. *)
LEMMA PromiseStep ==
  ASSUME TypeOK, TransportHasSocket, PromiseIsKept, Next PROVE PromiseIsKept'
<1>1. CASE Connect
  BY <1>1, NoneIsNoNumber DEF TypeOK, DeviceTypeOK, WishTypeOK, Requests, Calls,
     TransportHasSocket, PromiseIsKept, Promised, Todo, Asserting, Connect, BeginConnect, device,
     stream, wishes, server
<1>2. CASE ReconnectTimer
  BY <1>2, NoneIsNoNumber DEF TypeOK, DeviceTypeOK, WishTypeOK, Requests, Calls,
     TransportHasSocket, PromiseIsKept, Promised, Todo, Asserting, ReconnectTimer, BeginConnect,
     device, stream, wishes, server
<1>3. CASE Describe
  BY <1>3, NoneIsNoNumber DEF TypeOK, DeviceTypeOK, WishTypeOK, Requests, Calls,
     TransportHasSocket, PromiseIsKept, Promised, Todo, Asserting, Describe, device, stream,
     wishes, server
<1>4. CASE DescribeFails
  BY <1>4, NoneIsNoNumber DEF TypeOK, DeviceTypeOK, WishTypeOK, Requests, Calls,
     TransportHasSocket, PromiseIsKept, Promised, Todo, Asserting, DescribeFails, Fault,
     ConnectFails, Rescheduled, device, stream, wishes, server
<1>5. CASE OpenSocket
  <2>1. CASE disposed
    BY <1>5, <2>1, NoneIsNoNumber DEF TypeOK, DeviceTypeOK, WishTypeOK, Requests, Calls,
       TransportHasSocket, PromiseIsKept, Promised, Todo, Asserting, OpenSocket, Follows,
       ConnectFails, Rescheduled, device, stream, wishes, server
  <2>2. CASE ~disposed
    BY <1>5, <2>2, NoneIsNoNumber DEF TypeOK, DeviceTypeOK, WishTypeOK, Requests, Calls,
       TransportHasSocket, PromiseIsKept, Promised, Todo, Asserting, OpenSocket, Follows,
       ConnectFails, Rescheduled, device, stream, wishes, server
  <2> QED BY <2>1, <2>2
<1>6. ASSUME NEW t \in Terminals, Reassert(t) PROVE PromiseIsKept'
  BY <1>6, NoneIsNoNumber DEF TypeOK, DeviceTypeOK, WishTypeOK, Requests, Calls,
     TransportHasSocket, PromiseIsKept, Promised, Todo, Asserting, Reassert, device, stream,
     wishes, server
<1>7. ASSUME NEW t \in Terminals, ReassertFails(t) PROVE PromiseIsKept'
  BY <1>7, NoneIsNoNumber DEF TypeOK, DeviceTypeOK, WishTypeOK, Requests, Calls,
     TransportHasSocket, PromiseIsKept, Promised, Todo, Asserting, ReassertFails, Fault,
     ConnectFails, Rescheduled, device, stream, wishes, server
<1>8. CASE BecomeReady
  BY <1>8, NoneIsNoNumber DEF TypeOK, DeviceTypeOK, WishTypeOK, Requests, Calls,
     TransportHasSocket, PromiseIsKept, Promised, Todo, Asserting, BecomeReady, device, stream,
     wishes, server
<1>9. ASSUME NEW g \in Generations, Accept(g) PROVE PromiseIsKept'
  <2> DEFINE link == [links[g] EXCEPT !.at = "accepted", !.epoch = epoch]
  <2>1. links[g] \in Links /\ g \in Generations
    BY <1>9, LinksAreFunctions DEF Accept
  <2>2. link \in Links
    BY <2>1, <1>9 DEF Accept, Links, Gone, TypeOK, ServerTypeOK
  <2>a. links' = [links EXCEPT ![g] = link]
    BY <2>1, <1>9 DEF Accept
  <2>3. \A h \in Generations : links'[h] = IF h = g THEN link ELSE links[h]
    BY <2>1, <2>2, <2>a, OneLinkChanges
  <2>4. socket' # None /\ links'[socket'].at # "released" =>
          socket' = socket /\ links[socket].at # "released"
    BY <2>1, <2>3, <1>9 DEF Accept, Links, Gone, TypeOK, StreamTypeOK, Accepted, stream
  <2> HIDE DEF link
  <2> QED BY <2>4, <1>9, NoneIsNoNumber DEF TypeOK, DeviceTypeOK, WishTypeOK, Requests, Calls,
     TransportHasSocket, PromiseIsKept, Promised, Todo, Asserting, Accept, device, stream,
     wishes, server
<1>10. CASE Publish
  <2>1. socket # None => socket \in Generations
    BY DEF TypeOK, StreamTypeOK
  <2>2. socket # None /\ links'[socket].at # "released" => links[socket].at # "released"
    BY <1>10, <2>1, LinksAreFunctions DEF Publish, Gone, Links
  <2> QED BY <1>10, <2>2, NoneIsNoNumber DEF TypeOK, DeviceTypeOK, WishTypeOK, Requests, Calls,
     TransportHasSocket, PromiseIsKept, Promised, Todo, Asserting, Publish, device, stream,
     wishes, server
<1>11. ASSUME NEW g \in Generations, Receive(g) PROVE PromiseIsKept'
  <2> DEFINE link == [links[g] EXCEPT !.wire = Tail(@)]
  <2>1. links[g] \in Links /\ g \in Generations
    BY <1>11, LinksAreFunctions DEF Receive
  <2>2. link \in Links
    BY <2>1, <1>11, HeadTailProperties DEF Receive, Links, Gone, TypeOK, ServerTypeOK
  <2>a. links' = [links EXCEPT ![g] = link]
    BY <2>1, <1>11 DEF Receive
  <2>3. \A h \in Generations : links'[h] = IF h = g THEN link ELSE links[h]
    BY <2>1, <2>2, <2>a, OneLinkChanges
  <2>4. socket' # None /\ links'[socket'].at # "released" =>
          socket' = socket /\ links[socket].at # "released"
    BY <2>1, <2>3, <1>11 DEF Receive, Links, Gone, TypeOK, StreamTypeOK, Accepted, stream
  <2> HIDE DEF link
  <2> QED BY <2>4, <1>11, NoneIsNoNumber DEF TypeOK, DeviceTypeOK, WishTypeOK, Requests, Calls,
     TransportHasSocket, PromiseIsKept, Promised, Todo, Asserting, Receive, Follows, Rescheduled,
     device, stream, wishes, server
<1>12. ASSUME NEW g \in Generations, Cut(g) PROVE PromiseIsKept'
  <2> DEFINE link == [links[g] EXCEPT !.cut = TRUE, !.wire = <<>>]
  <2>1. links[g] \in Links /\ g \in Generations
    BY <1>12, LinksAreFunctions DEF Cut
  <2>2. link \in Links
    BY <2>1, <1>12, EmptySeq DEF Cut, Links, Gone, TypeOK, ServerTypeOK
  <2>a. links' = [links EXCEPT ![g] = link]
    BY <2>1, <1>12 DEF Cut
  <2>3. \A h \in Generations : links'[h] = IF h = g THEN link ELSE links[h]
    BY <2>1, <2>2, <2>a, OneLinkChanges
  <2>b. link.at = links[g].at
    BY <2>1 DEF Links
  <2>4. socket' # None /\ links'[socket'].at # "released" =>
          socket' = socket /\ links[socket].at # "released"
    BY <2>1, <2>3, <2>b, <1>12 DEF Cut, Links, Gone, TypeOK, StreamTypeOK, Accepted, stream
  <2> HIDE DEF link
  <2> QED BY <2>4, <1>12, NoneIsNoNumber DEF TypeOK, DeviceTypeOK, WishTypeOK, Requests, Calls,
     TransportHasSocket, PromiseIsKept, Promised, Todo, Asserting, Cut, Fault, device, stream,
     wishes, server
<1>13. CASE SocketCloses
  BY <1>13, NoneIsNoNumber DEF TypeOK, DeviceTypeOK, WishTypeOK, Requests, Calls,
     TransportHasSocket, PromiseIsKept, Promised, Todo, Asserting, SocketCloses, Disconnects,
     Follows, Rescheduled, device, stream, wishes, server
<1>14. ASSUME NEW g \in Generations, Release(g) PROVE PromiseIsKept'
  <2> DEFINE link == Gone
  <2>1. links[g] \in Links /\ g \in Generations
    BY <1>14, LinksAreFunctions DEF Release
  <2>2. link \in Links
    BY <2>1, <1>14 DEF Release, Links, Gone, TypeOK, ServerTypeOK
  <2>a. links' = [links EXCEPT ![g] = link]
    BY <2>1, <1>14 DEF Release
  <2>3. \A h \in Generations : links'[h] = IF h = g THEN link ELSE links[h]
    BY <2>1, <2>2, <2>a, OneLinkChanges
  <2>4. socket' # None /\ links'[socket'].at # "released" =>
          socket' = socket /\ links[socket].at # "released"
    BY <2>1, <2>3, <1>14 DEF Release, Links, Gone, TypeOK, StreamTypeOK, Accepted, stream
  <2> HIDE DEF link
  <2> QED BY <2>4, <1>14, NoneIsNoNumber DEF TypeOK, DeviceTypeOK, WishTypeOK, Requests, Calls,
     TransportHasSocket, PromiseIsKept, Promised, Todo, Asserting, Release, device, stream,
     wishes, server
<1>15. CASE GraceEnds
  BY <1>15, NoneIsNoNumber DEF TypeOK, DeviceTypeOK, WishTypeOK, Requests, Calls,
     TransportHasSocket, PromiseIsKept, Promised, Todo, Asserting, GraceEnds, device, stream,
     wishes, server
<1>16. CASE Restart
  <2>1. socket # None => socket \in Generations
    BY DEF TypeOK, StreamTypeOK
  <2>2. socket' # None => links'[socket'].at = "released"
    BY <1>16, <2>1, LinksAreFunctions DEF Restart, Gone, Links, stream
  <2> QED BY <1>16, <2>2 DEF PromiseIsKept, Promised, Restart, wishes
<1>17. CASE LivenessTimer
  BY <1>17, NoneIsNoNumber DEF TypeOK, DeviceTypeOK, WishTypeOK, Requests, Calls,
     TransportHasSocket, PromiseIsKept, Promised, Todo, Asserting, LivenessTimer, device, stream,
     wishes, server
<1>18. CASE Probe
  BY <1>18, NoneIsNoNumber DEF TypeOK, DeviceTypeOK, WishTypeOK, Requests, Calls,
     TransportHasSocket, PromiseIsKept, Promised, Todo, Asserting, Probe, device, stream, wishes,
     server
<1>19. CASE ProbeReturns
  <2>1. CASE UNCHANGED <<status, request, disposed, stream, risks>>
    BY <1>19, <2>1 DEF ProbeReturns, PromiseIsKept, Promised, Todo, Asserting, stream, wishes,
       server
  <2>2. CASE ~disposed /\ status = "ready" /\ Disconnects
    BY <1>19, <2>2 DEF Disconnects, ProbeReturns, PromiseIsKept, Promised, wishes
  <2> QED BY <1>19, <2>1, <2>2 DEF ProbeReturns, device, stream
<1>20. CASE ProbeFails
  BY <1>20, NoneIsNoNumber DEF TypeOK, DeviceTypeOK, WishTypeOK, Requests, Calls,
     TransportHasSocket, PromiseIsKept, Promised, Todo, Asserting, ProbeFails, Fault,
     Disconnects, Follows, Rescheduled, device, stream, wishes, server
<1>21. ASSUME NEW desired \in SUBSET Terminals, SetDemand(desired) PROVE PromiseIsKept'
  BY <1>21, NoneIsNoNumber DEF TypeOK, DeviceTypeOK, WishTypeOK, Requests, Calls,
     TransportHasSocket, PromiseIsKept, Promised, Todo, Asserting, SetDemand, device, stream,
     wishes, server
<1>22. ASSUME NEW t \in Terminals, DemandStep(t) PROVE PromiseIsKept'
  <2>1. call \in Calls /\ call' \in Calls /\ call' # None
    BY <1>22, ConnectionAssumption DEF DemandStep, TypeOK, WishTypeOK, Calls
  <2>2. Todo' = Todo /\ (Asserting' <=> Asserting)
    BY <1>22 DEF DemandStep, Todo, Asserting, device
  <2>3. CASE call.off # {}
    <3>1. call'.on = call.on /\ call'.desired = call.desired /\ call'.off = call.off \ {t} /\ demand' = demand \ {t} /\ t \in call.off
      BY <1>22, <2>1, <2>3 DEF DemandStep, Calls
    <3>2. t \notin call.desired \ call.on
      BY <1>22, <3>1 DEF PromiseIsKept, DemandStep
    <3> QED BY <1>22, <2>1, <2>2, <3>1, <3>2 DEF DemandStep, PromiseIsKept, Promised, device, stream
  <2>4. CASE call.off = {}
    <3>1. /\ call'.off = call.off /\ call'.desired = call.desired
          /\ call'.on = call.on \ {t} /\ demand' = demand \cup {t}
      BY <1>22, <2>1, <2>4 DEF DemandStep, Calls
    <3> QED BY <1>22, <2>1, <2>2, <3>1 DEF DemandStep, PromiseIsKept, Promised, device, stream
  <2> QED BY <2>3, <2>4
<1>23. ASSUME NEW t \in Terminals, DemandFails(t) PROVE PromiseIsKept'
  BY <1>23, NoneIsNoNumber DEF TypeOK, DeviceTypeOK, WishTypeOK, Requests, Calls,
     TransportHasSocket, PromiseIsKept, Promised, Todo, Asserting, DemandFails, Fault, device,
     stream, wishes, server
<1>24. CASE DemandDone
  BY <1>24, NoneIsNoNumber DEF TypeOK, DeviceTypeOK, WishTypeOK, Requests, Calls,
     TransportHasSocket, PromiseIsKept, Promised, Todo, Asserting, DemandDone, device, stream,
     wishes, server
<1>25. CASE Dispose
  BY <1>25, NoneIsNoNumber DEF TypeOK, DeviceTypeOK, WishTypeOK, Requests, Calls,
     TransportHasSocket, PromiseIsKept, Promised, Todo, Asserting, Dispose, device, stream,
     wishes, server
<1> QED BY <1>1, <1>2, <1>3, <1>4, <1>5, <1>6, <1>7, <1>8, <1>9, <1>10, <1>11, <1>12, <1>13,
   <1>14, <1>15, <1>16, <1>17, <1>18, <1>19, <1>20, <1>21, <1>22, <1>23, <1>24, <1>25 DEF Next

-----------------------------------------------------------------------------
(* The open socket is one of those there were. *)
LEMMA SocketsExist ==
  ASSUME TypeOK
  PROVE  /\ socket # None => socket \in Generations /\ links[socket] \in Links
         /\ \A g \in Generations : g # None /\ links[g] \in Links
BY LinksAreFunctions, NoneIsNoNumber DEF TypeOK, StreamTypeOK

(* A server that does not serve two sockets serves this one alone.         *)
LEMMA OnlyOneServed ==
  ASSUME TypeOK, NEW g \in Accepted, ~(Cardinality(Accepted) > 1)
  PROVE  Cardinality(Accepted) = 1 /\ Cardinality({h \in Accepted : h <= g}) = 1
<1>1. IsFiniteSet(Accepted) /\ Cardinality(Accepted) \in Nat
  BY ServedAreFinite
<1>2. Cardinality(Accepted) # 0
  BY <1>1, FS_EmptySet
<1>3. Cardinality(Accepted) = 1
  BY <1>1, <1>2
<1>4. Accepted = {g}
  BY <1>3, <1>1, FS_Singleton
<1>5. g \in Nat
  BY LinksAreFunctions DEF Accepted
<1>6. {h \in Accepted : h <= g} = {g}
  BY <1>4, <1>5
<1> QED BY <1>3, <1>6, FS_Singleton

(* Every step keeps the stream of the open socket without a gap. *)
LEMMA StreamStep ==
  ASSUME TypeOK, TransportHasSocket, StreamContinues, Next PROVE StreamContinues'
<1>1. CASE Connect
  BY <1>1 DEF StreamContinues, Continues, Accepted, Connect, BeginConnect, device, stream,
     wishes, server
<1>2. CASE ReconnectTimer
  BY <1>2 DEF StreamContinues, Continues, Accepted, ReconnectTimer, BeginConnect, device, stream,
     wishes, server
<1>3. CASE Describe
  BY <1>3 DEF StreamContinues, Continues, Accepted, Describe, device, stream, wishes, server
<1>4. CASE DescribeFails
  BY <1>4 DEF StreamContinues, Continues, Accepted, DescribeFails, Fault, ConnectFails,
     Rescheduled, device, stream, wishes, server
<1>5. CASE OpenSocket
  <2>1. CASE disposed
    BY <1>5, <2>1 DEF OpenSocket, StreamContinues, Continues, stream, server
  <2>2. CASE ~disposed
    <3>1. links'[socket'] = NewLink /\ lastSequence' = None
      BY <1>5, <2>2, AppendProperties, LinksAreFunctions DEF OpenSocket, TypeOK, StreamTypeOK
    <3> QED BY <3>1, EmptySeq DEF StreamContinues, Continues, NewLink
  <2> QED BY <2>1, <2>2
<1>6. ASSUME NEW t \in Terminals, Reassert(t) PROVE StreamContinues'
  BY <1>6 DEF StreamContinues, Continues, Accepted, Reassert, device, stream, wishes, server
<1>7. ASSUME NEW t \in Terminals, ReassertFails(t) PROVE StreamContinues'
  BY <1>7 DEF StreamContinues, Continues, Accepted, ReassertFails, Fault, ConnectFails,
     Rescheduled, device, stream, wishes, server
<1>8. CASE BecomeReady
  BY <1>8 DEF StreamContinues, Continues, Accepted, BecomeReady, device, stream, wishes, server
<1>9. ASSUME NEW g \in Generations, Accept(g) PROVE StreamContinues'
  <2> DEFINE link == [links[g] EXCEPT !.at = "accepted", !.epoch = epoch]
  <2>1. links[g] \in Links /\ g \in Generations
    BY <1>9, LinksAreFunctions DEF Accept
  <2>2. link \in Links
    BY <2>1, <1>9 DEF Accept, Links, Gone, TypeOK, ServerTypeOK
  <2>3. links' = [links EXCEPT ![g] = link]
    BY <2>1, <1>9 DEF Accept
  <2>4. \A h \in Generations : links'[h] = IF h = g THEN link ELSE links[h]
    BY <2>1, <2>2, <2>3, OneLinkChanges
  <2>5. UNCHANGED <<socket, lastSequence, descriptor, sequence, risks>>
    BY <1>9 DEF Accept, stream, server
  <2>6. CASE socket # g
    BY <2>4, <2>5, <2>6, SocketsExist DEF StreamContinues, Continues
  <2>7. CASE socket = g
    <3>1. "crowded" \notin risks => links[g].wire = <<>> /\ lastSequence = None
      BY <1>9, <2>7, <2>1, SocketsExist DEF Accept, StreamContinues, Continues
    <3>2. link.wire = links[g].wire /\ link.at = "accepted" /\ link.cut = links[g].cut
      BY <2>1 DEF Links
    <3> HIDE DEF link
    <3> QED BY <2>1, <2>4, <2>5, <2>7, <3>1, <3>2, EmptySeq DEF StreamContinues, Continues
  <2> QED BY <2>6, <2>7
<1>10. CASE Publish
  <2>1. UNCHANGED <<socket, lastSequence, descriptor>> /\ sequence' = sequence + Cardinality(Accepted)
    BY <1>10 DEF Publish, stream
  <2> SUFFICES ASSUME socket # None, "crowded" \notin risks'
               PROVE  Continues(links'[socket], lastSequence, descriptor, sequence')
    BY <2>1 DEF StreamContinues, Continues
  <2> DEFINE wire == links[socket].wire
             link == links'[socket]
  <2>2. /\ "crowded" \notin risks /\ ~(Cardinality(Accepted) > 1)
        /\ socket \in Generations /\ links[socket] \in Links /\ Continues(links[socket], lastSequence, descriptor, sequence)
    BY <1>10, LinksAreFunctions DEF Publish, StreamContinues, TypeOK, StreamTypeOK
  <2>3. CASE socket \notin Accepted
    <3>1. link = links[socket] /\ link.at # "accepted"
      BY <1>10, <2>2, <2>3 DEF Publish, Accepted
    <3> QED BY <2>1, <2>2, <3>1 DEF Continues
  <2>4. CASE socket \in Accepted /\ links[socket].cut
    <3>1. link.wire = <<>> /\ link.at = "accepted" /\ link.cut
      BY <1>10, <2>2, <2>4 DEF Publish, Accepted, Links
    <3> HIDE DEF link
    <3>2. Continues(link, lastSequence, descriptor, sequence')
      BY <3>1, EmptySeq DEF Continues
    <3> QED BY <3>2, <2>1 DEF link
  <2>5. CASE socket \in Accepted /\ ~links[socket].cut
    <3>1. Cardinality(Accepted) = 1 /\ Cardinality({h \in Accepted : h <= socket}) = 1
      BY <2>2, <2>5, OnlyOneServed
    <3>2. /\ link.wire = Append(wire, sequence + 1) /\ link.at = "accepted" /\ ~link.cut
          /\ link.epoch = links[socket].epoch /\ links[socket].at = "accepted"
      BY <1>10, <2>2, <2>5, <3>1 DEF Publish, Accepted, Links
    <3>3. sequence' = sequence + 1 /\ sequence \in Nat
      BY <2>1, <3>1 DEF TypeOK, ServerTypeOK
    <3>4. /\ wire \in Seq(Nat) /\ Len(wire) \in Nat /\ (wire = <<>> <=> Len(wire) = 0)
          /\ Len(link.wire) = Len(wire) + 1 /\ link.wire # <<>>
          /\ link.wire[Len(wire) + 1] = sequence + 1
          /\ \A i \in 1..Len(wire) : link.wire[i] = wire[i]
      <4>1. wire \in Seq(Nat) /\ sequence + 1 \in Nat
        BY <2>2, <3>3 DEF Links
      <4>2. Len(wire) \in Nat /\ (wire = <<>> <=> Len(wire) = 0)
        BY <4>1, LenProperties, EmptySeq
      <4> HIDE DEF wire, link
      <4>3. /\ link.wire \in Seq(Nat) /\ Len(link.wire) = Len(wire) + 1
            /\ link.wire[Len(wire) + 1] = sequence + 1
            /\ \A i \in 1..Len(wire) : link.wire[i] = wire[i]
        BY <3>2, <4>1, AppendProperties
      <4>4. link.wire # <<>>
        BY <4>2, <4>3, EmptySeq
      <4> QED BY <4>1, <4>2, <4>3, <4>4
    <3>5. /\ \A i \in 1..Len(wire) : wire[i] = wire[1] + i - 1 /\ wire[i] \in Nat
          /\ lastSequence # None /\ wire # <<>> => wire[1] = lastSequence + 1
          /\ wire # <<>> => wire[Len(wire)] = sequence
          /\ lastSequence # None => links[socket].epoch = descriptor
          /\ lastSequence # None /\ wire = <<>> => lastSequence = sequence
      BY <2>2, <2>5, <3>2, <3>4, ElementOfSeq DEF Continues
    <3> HIDE DEF link, wire
    <3>6. CASE wire = <<>>
      <4>1. Len(link.wire) = 1 /\ link.wire[1] = sequence + 1
        BY <3>4, <3>6
      <4>2. Continues(link, lastSequence, descriptor, sequence')
        BY <2>1, <3>2, <3>3, <3>4, <3>5, <3>6, <4>1 DEF Continues
      <4> QED BY <4>2, <2>1 DEF link
    <3>7. CASE wire # <<>>
      <4>1. 1 \in 1..Len(wire) /\ Len(wire) \in 1..Len(wire) /\ link.wire[1] = wire[1]
        BY <3>4, <3>7
      <4>2. sequence + 1 = wire[1] + Len(wire)
        <5>1. wire[Len(wire)] = sequence /\ wire[1] \in Nat
          BY <3>5, <3>7, <4>1
        <5>2. wire[Len(wire)] = wire[1] + Len(wire) - 1
          BY <3>5, <4>1
        <5> QED BY <5>1, <5>2, <3>3, <3>4
      <4>3. \A i \in 1..Len(link.wire) : link.wire[i] = link.wire[1] + i - 1
        <5> SUFFICES ASSUME NEW i \in 1..Len(link.wire) PROVE link.wire[i] = link.wire[1] + i - 1
          OBVIOUS
        <5>1. CASE i \in 1..Len(wire)
          <6>1. link.wire[i] = wire[i] /\ wire[i] = wire[1] + i - 1
            BY <5>1, <3>4, <3>5
          <6> QED BY <6>1, <4>1
        <5>2. CASE i = Len(wire) + 1
          <6>1. link.wire[i] = sequence + 1 /\ wire[1] \in Nat
            BY <5>2, <3>4, <3>5, <4>1
          <6> QED BY <6>1, <5>2, <4>1, <4>2, <3>4
        <5> QED BY <5>1, <5>2, <3>4
      <4>4. Continues(link, lastSequence, descriptor, sequence')
        BY <2>1, <3>2, <3>3, <3>4, <3>5, <3>7, <4>1, <4>3 DEF Continues
      <4> QED BY <4>4, <2>1 DEF link
    <3> QED BY <3>6, <3>7
  <2> QED BY <2>3, <2>4, <2>5
<1>11. ASSUME NEW g \in Generations, Receive(g) PROVE StreamContinues'
  <2> DEFINE link == [links[g] EXCEPT !.wire = Tail(@)]
  <2>1. links[g] \in Links /\ g \in Generations
    BY <1>11, LinksAreFunctions DEF Receive
  <2>2. link \in Links
    BY <2>1, <1>11, HeadTailProperties DEF Receive, Links, Gone, TypeOK, ServerTypeOK
  <2>3. links' = [links EXCEPT ![g] = link]
    BY <2>1, <1>11 DEF Receive
  <2>4. \A h \in Generations : links'[h] = IF h = g THEN link ELSE links[h]
    BY <2>1, <2>2, <2>3, OneLinkChanges
  <2>5. UNCHANGED <<socket, descriptor, sequence, risks, disposed>>
    BY <1>11 DEF Receive, server
  <2>6. CASE socket # g
    <3>1. UNCHANGED lastSequence
      BY <1>11, <2>6 DEF Receive
    <3> QED BY <2>4, <2>5, <2>6, <3>1, SocketsExist DEF StreamContinues, Continues
  <2>7. CASE socket = g /\ "crowded" \notin risks
    <3> DEFINE wire == links[g].wire
    <3>1. /\ wire \in Seq(Nat) /\ wire # <<>> /\ Head(wire) = wire[1]
          /\ Len(wire) \in Nat \ {0} /\ wire[1] \in Nat
          /\ Tail(wire) \in Seq(Nat) /\ Len(Tail(wire)) = Len(wire) - 1
          /\ \A i \in 1..Len(Tail(wire)) : Tail(wire)[i] = wire[i + 1]
          /\ Tail(wire) = <<>> <=> Len(wire) = 1
      <4>1. wire \in Seq(Nat) /\ wire # <<>>
        BY <1>11, <2>1 DEF Receive, Links
      <4> HIDE DEF wire
      <4>2. Len(wire) \in Nat \ {0}
        BY <4>1, LenProperties, EmptySeq
      <4>3. Head(wire) = wire[1] /\ wire[1] \in Nat
        BY <4>1, <4>2, HeadTailProperties, ElementOfSeq
      <4>4. /\ Tail(wire) \in Seq(Nat) /\ Len(Tail(wire)) = Len(wire) - 1
            /\ \A i \in 1..Len(Tail(wire)) : Tail(wire)[i] = wire[i + 1]
        BY <4>1, HeadTailProperties
      <4>5. Tail(wire) = <<>> <=> Len(wire) = 1
        <5>1. Tail(wire) = <<>> <=> Len(Tail(wire)) = 0
          BY <4>4, EmptySeq
        <5>2. Len(Tail(wire)) = Len(wire) - 1
          BY <4>4
        <5> QED BY <5>1, <5>2, <4>2
      <4> QED BY <4>1, <4>2, <4>3, <4>4, <4>5
    <3>2. Continues(links[g], lastSequence, descriptor, sequence)
      BY <2>1, <2>7, SocketsExist DEF StreamContinues
    <3>3. /\ \A i \in 1..Len(wire) : wire[i] = wire[1] + i - 1
          /\ lastSequence # None => wire[1] = lastSequence + 1
          /\ links[g].at = "accepted" /\ ~links[g].cut /\ wire[Len(wire)] = sequence
          /\ lastSequence # None => links[g].epoch = descriptor
      BY <3>1, <3>2 DEF Continues
    <3>4. transport = "connected"
      BY <1>11, <2>7, <2>1, SocketsExist DEF TransportHasSocket, Receive
    <3>5. /\ lastSequence' = IF links[g].epoch = descriptor THEN wire[1] ELSE None
      BY <1>11, <2>7, <3>1, <3>3, <3>4 DEF Receive
    <3>6. link.wire = Tail(wire) /\ link.at = "accepted" /\ ~link.cut
          /\ link.epoch = links[g].epoch
      BY <2>1, <3>3 DEF Links
    <3>7. links'[socket'] = link
      BY <2>1, <2>4, <2>5, <2>7
    <3> HIDE DEF link, wire
    <3>8. \A i \in 1..Len(link.wire) : link.wire[i] = link.wire[1] + i - 1
      <4> SUFFICES ASSUME NEW i \in 1..Len(link.wire) PROVE link.wire[i] = link.wire[1] + i - 1
        OBVIOUS
      <4>1. 1 \in 1..Len(Tail(wire)) /\ i \in 1..Len(Tail(wire))
        BY <3>1, <3>6
      <4>2. i + 1 \in 1..Len(wire) /\ 2 \in 1..Len(wire)
        BY <4>1, <3>1
      <4>3. wire[i + 1] = wire[1] + (i + 1) - 1 /\ wire[2] = wire[1] + 2 - 1
        BY <4>2, <3>3
      <4>4. link.wire[i] = wire[i + 1] /\ link.wire[1] = wire[2]
        BY <4>1, <3>1, <3>6
      <4> QED BY <4>3, <4>4, <3>1
    <3>9. link.wire # <<>> => /\ link.wire[1] = wire[1] + 1
                             /\ link.wire[Len(link.wire)] = sequence
      <4> SUFFICES ASSUME link.wire # <<>> PROVE /\ link.wire[1] = wire[1] + 1
                             /\ link.wire[Len(link.wire)] = sequence
        OBVIOUS
      <4>1. Len(wire) > 1 /\ 2 \in 1..Len(wire)
        <5>1. Len(wire) # 1
          BY <3>1, <3>6
        <5>2. \A n \in Nat \ {0} : n # 1 => n > 1 /\ 2 \in 1..n
          OBVIOUS
        <5>3. Len(wire) \in Nat \ {0}
          BY <3>1
        <5> QED BY <5>1, <5>2, <5>3
      <4>2. wire[2] = wire[1] + 2 - 1
        BY <4>1, <3>3
      <4>3. link.wire[1] = wire[2] /\ link.wire[Len(link.wire)] = wire[Len(wire)]
        BY <4>1, <3>1, <3>6
      <4> QED BY <4>2, <4>3, <3>1, <3>3
    <3>10. link.wire = <<>> => wire[1] = sequence
      BY <3>1, <3>3, <3>6
    <3>11. lastSequence' # None => lastSequence' = wire[1] /\ links[g].epoch = descriptor
      BY <3>5
    <3>12. Continues(link, lastSequence', descriptor, sequence)
      BY <2>5, <3>6, <3>8, <3>9, <3>10, <3>11 DEF Continues
    <3> QED BY <2>5, <3>7, <3>12 DEF StreamContinues
  <2>8. CASE "crowded" \in risks
    BY <2>5, <2>8 DEF StreamContinues
  <2> QED BY <2>6, <2>7, <2>8
<1>12. ASSUME NEW g \in Generations, Cut(g) PROVE StreamContinues'
  <2> DEFINE link == [links[g] EXCEPT !.cut = TRUE, !.wire = <<>>]
  <2>1. links[g] \in Links /\ g \in Generations
    BY <1>12, LinksAreFunctions DEF Cut
  <2>2. link \in Links
    BY <2>1, <1>12, EmptySeq DEF Cut, Links, Gone, TypeOK, ServerTypeOK
  <2>3. links' = [links EXCEPT ![g] = link]
    BY <2>1, <1>12 DEF Cut
  <2>4. \A h \in Generations : links'[h] = IF h = g THEN link ELSE links[h]
    BY <2>1, <2>2, <2>3, OneLinkChanges
  <2>5. UNCHANGED <<socket, lastSequence, descriptor, sequence, risks>>
    BY <1>12 DEF Cut, stream, Fault, server
  <2>6. CASE socket # g
    BY <2>4, <2>5, <2>6, SocketsExist DEF StreamContinues, Continues
  <2>7. CASE socket = g
    <3>1. link.wire = <<>> /\ link.at = links[g].at /\ link.cut = TRUE
      BY <2>1 DEF Links
    <3>2. "crowded" \notin risks /\ link.at = "opening" => lastSequence = None
      BY <2>7, <2>1, <3>1, SocketsExist DEF StreamContinues, Continues
    <3> HIDE DEF link
    <3> QED BY <2>1, <2>4, <2>5, <2>7, <3>1, <3>2, EmptySeq DEF StreamContinues, Continues
  <2> QED BY <2>6, <2>7
<1>13. CASE SocketCloses
  BY <1>13 DEF StreamContinues, Continues, Accepted, SocketCloses, Disconnects, Follows,
     Rescheduled, device, stream, wishes, server
<1>14. ASSUME NEW g \in Generations, Release(g) PROVE StreamContinues'
  <2> DEFINE link == Gone
  <2>1. links[g] \in Links /\ g \in Generations
    BY <1>14, LinksAreFunctions DEF Release
  <2>2. link \in Links
    BY <2>1, <1>14 DEF Release, Links, Gone, TypeOK, ServerTypeOK
  <2>3. links' = [links EXCEPT ![g] = link]
    BY <2>1, <1>14 DEF Release
  <2>4. \A h \in Generations : links'[h] = IF h = g THEN link ELSE links[h]
    BY <2>1, <2>2, <2>3, OneLinkChanges
  <2>5. UNCHANGED <<socket, lastSequence, descriptor, sequence, risks>>
    BY <1>14 DEF Release, stream, server
  <2>6. CASE socket # g
    BY <2>4, <2>5, <2>6, SocketsExist DEF StreamContinues, Continues
  <2>7. CASE socket = g
    <3> QED BY <2>1, <2>4, <2>5, <2>7, EmptySeq DEF StreamContinues, Continues, Gone
  <2> QED BY <2>6, <2>7
<1>15. CASE GraceEnds
  <2>1. /\ UNCHANGED <<socket, lastSequence, descriptor, links>>
        /\ "crowded" \in risks' <=> "crowded" \in risks
    BY <1>15 DEF GraceEnds, stream
  <2>2. CASE Accepted # {}
    BY <1>15, <2>1, <2>2 DEF GraceEnds, StreamContinues, Continues
  <2>3. CASE Accepted = {}
    <3>1. socket # None => links[socket].at # "accepted"
      BY <2>3, SocketsExist DEF Accepted
    <3> QED BY <2>1, <3>1 DEF StreamContinues, Continues
  <2> QED BY <2>2, <2>3
<1>16. CASE Restart
  <2>1. socket # None => links'[socket] = Gone
    BY <1>16, SocketsExist DEF Restart
  <2>2. UNCHANGED <<socket, lastSequence, descriptor, risks>>
    BY <1>16 DEF Restart, stream
  <2> QED BY <2>1, <2>2, EmptySeq DEF StreamContinues, Continues, Gone
<1>17. CASE LivenessTimer
  BY <1>17 DEF StreamContinues, Continues, Accepted, LivenessTimer, device, stream, wishes, server
<1>18. CASE Probe
  BY <1>18 DEF StreamContinues, Continues, Accepted, Probe, device, stream, wishes, server
<1>19. CASE ProbeReturns
  <2>1. CASE UNCHANGED <<stream, risks>>
    BY <1>19, <2>1 DEF ProbeReturns, StreamContinues, Continues, stream, server
  <2>2. CASE Disconnects
    BY <2>2 DEF Disconnects, StreamContinues
  <2> QED BY <1>19, <2>1, <2>2 DEF ProbeReturns, device, stream
<1>20. CASE ProbeFails
  BY <1>20 DEF StreamContinues, Continues, Accepted, ProbeFails, Fault, Disconnects, Follows,
     Rescheduled, device, stream, wishes, server
<1>21. ASSUME NEW desired \in SUBSET Terminals, SetDemand(desired) PROVE StreamContinues'
  BY <1>21 DEF StreamContinues, Continues, Accepted, SetDemand, device, stream, wishes, server
<1>22. ASSUME NEW t \in Terminals, DemandStep(t) PROVE StreamContinues'
  BY <1>22 DEF StreamContinues, Continues, Accepted, DemandStep, device, stream, wishes, server
<1>23. ASSUME NEW t \in Terminals, DemandFails(t) PROVE StreamContinues'
  BY <1>23 DEF StreamContinues, Continues, Accepted, DemandFails, Fault, device, stream, wishes,
     server
<1>24. CASE DemandDone
  BY <1>24 DEF StreamContinues, Continues, Accepted, DemandDone, device, stream, wishes, server
<1>25. CASE Dispose
  BY <1>25 DEF StreamContinues, Continues, Accepted, Dispose, device, stream, wishes, server
<1> QED BY <1>1, <1>2, <1>3, <1>4, <1>5, <1>6, <1>7, <1>8, <1>9, <1>10, <1>11, <1>12, <1>13,
   <1>14, <1>15, <1>16, <1>17, <1>18, <1>19, <1>20, <1>21, <1>22, <1>23, <1>24, <1>25 DEF Next

(* A Device that was never connected satisfies the invariant. *)
LEMMA ConnectionStart == Init => ConnectionInv
<1> SUFFICES ASSUME Init PROVE ConnectionInv
  OBVIOUS
<1>1. <<>> \in Seq(Links) /\ Generations = {}
  BY EmptySeq, LenProperties DEF Init, Generations
<1>2. TypeOK
  BY <1>1 DEF Init, TypeOK, DeviceTypeOK, StreamTypeOK, WishTypeOK, ServerTypeOK
<1> QED BY <1>2 DEF Init, ConnectionInv, TransportHasSocket, StreamContinues, PromiseIsKept,
   Asserting

(* The invariant is about the variables of the module. *)
LEMMA ConnectionStuttering == ConnectionInv /\ UNCHANGED vars => ConnectionInv'
BY SameLinks DEF ConnectionInv, TypeOK, DeviceTypeOK, StreamTypeOK, WishTypeOK, ServerTypeOK,
   TransportHasSocket, StreamContinues, PromiseIsKept, Promised, Todo, Asserting, vars, device,
   stream, wishes, server

(* The inductive invariant holds in every behaviour. *)
THEOREM ConnectionInvariant == Spec => []ConnectionInv
<1>1. ConnectionInv /\ [Next]_vars => ConnectionInv'
  BY TypingStep, TransportStep, StreamStep, PromiseStep, ConnectionStuttering DEF ConnectionInv
<1> QED BY <1>1, ConnectionStart, PTL DEF Spec

-----------------------------------------------------------------------------
(* A Device that RemoteSessionDevice shows as ready has an open event socket,
   unless the socket was lost while the demand was asserted again. *)
THEOREM ReadyDevicesListenAlways == Spec => []ReadyDevicesListen
<1>1. ConnectionInv => ReadyDevicesListen
  BY DEF ConnectionInv, TransportHasSocket, ReadyDevicesListen
<1> QED BY <1>1, ConnectionInvariant, PTL

(* receiveEvent of DeviceTransport never meets a gap on a socket that the
   server serves alone. *)
THEOREM StreamsNeverHaveGaps == Spec => []StreamsHaveNoGaps
<1>1. ConnectionInv => StreamsHaveNoGaps
  <2> SUFFICES ASSUME ConnectionInv, socket # None, "crowded" \notin risks,
                      NEW i \in DOMAIN links[socket].wire
               PROVE  /\ lastSequence # None => links[socket].wire[i] = lastSequence + i
                      /\ links[socket].wire[i] = links[socket].wire[1] + i - 1
    BY DEF StreamsHaveNoGaps
  <2> DEFINE wire == links[socket].wire
  <2>1. wire \in Seq(Nat) /\ lastSequence \in Nat \cup {None}
    BY SocketsExist DEF ConnectionInv, TypeOK, StreamTypeOK, Links
  <2>2. Continues(links[socket], lastSequence, descriptor, sequence)
    BY DEF ConnectionInv, StreamContinues
  <2>3. /\ \A k \in 1..Len(wire) : wire[k] = wire[1] + k - 1
        /\ lastSequence # None /\ wire # <<>> => wire[1] = lastSequence + 1
    BY <2>2 DEF Continues
  <2> HIDE DEF wire
  <2>4. i \in 1..Len(wire) /\ wire # <<>>
    BY <2>1, LenProperties, EmptySeq DEF wire
  <2> QED BY <2>1, <2>3, <2>4 DEF wire
<1> QED BY <1>1, ConnectionInvariant, PTL

(* A ready Device sends the output of every terminal that the client believes
   it asked for, the named exceptions aside. *)
THEOREM DemandIsHonouredAlways == Spec => []DemandIsHonoured
<1>1. ConnectionInv => DemandIsHonoured
  <2> SUFFICES ASSUME ConnectionInv, status = "ready", Streaming, call = None,
                      risks \cap {"answer", "overlap", "grace"} = {}
               PROVE  demanded \subseteq demand
    BY DEF DemandIsHonoured
  <2>1. Todo = {} /\ Promised = demanded
    BY DEF ConnectionInv, TransportHasSocket, Todo, Asserting, Promised
  <2> QED BY <2>1 DEF ConnectionInv, PromiseIsKept, Streaming
<1> QED BY <1>1, ConnectionInvariant, PTL

(* The variables have their types in every behaviour. *)
THEOREM ConnectionTyping == Spec => []TypeOK
BY ConnectionInvariant, PTL DEF ConnectionInv
=============================================================================
