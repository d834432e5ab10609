------------------------ MODULE DesktopTerminalsProofs ------------------------
(***************************************************************************)
(* Machine-checked proofs about DesktopTerminals.                          *)
(*                                                                         *)
(* DesktopInv is the inductive invariant.  What the desktop shows is true  *)
(* because an exit that is on its way comes after the answer or the list   *)
(* it contradicts (ExitsFollow); agents spawn apart because only the first *)
(* of a provider's queue may have asked, and stays the first until its     *)
(* slot is released (SlotsInOrder); a start that awaits its spawn has left *)
(* the requests and has no answer yet (SpawnsAreSingle); Sessions find     *)
(* their terminals because a start enters itself before it may be shown    *)
(* (EntriesAreEarly), and because nothing is being started while rehydrate *)
(* takes over what runs (BootIsQuiet).                                     *)
(***************************************************************************)
EXTENDS DesktopTerminals, SequenceTheorems, TLAPS

(* A start has its Session from the beginning.                             *)
StartsHaveSessions == \A t \in Terminals : call[t] = "none" <=> session[t] = None

Unasked == {"none", "stopping", "freed", "lapsed", "reading", "entered", "queued"}

(* A process is that of a start that has asked for it.                     *)
ProcessesAreStarts ==
  /\ \A t \in Terminals :
       /\ process[t] # "none" => call[t] \notin Unasked
       /\ call[t] = "answered" => process[t] # "none"
  /\ \A i \in DOMAIN frames : frames[i].kind \in {"started", "exit"} =>
       process[frames[i].terminal] # "none"

(* A terminal that the desktop shows, or will, was started before.         *)
Old(t) == call[t] \notin Pending \cup {"none"} /\ process[t] # "none"

ShownAreOld ==
  /\ \A t \in shown \cup found : Old(t)
  /\ \A t \in shown : t \in processes \cup missed
  /\ shown \cap found = {}
  /\ \A t \in Terminals : call[t] \in {"stopping", "freed", "lapsed"} =>
       replaces[t] \in Terminals /\ Old(replaces[t])
  /\ \A t \in Terminals : call[t] = "freed" => replaces[t] \notin shown

IsAnswer(frame) == frame.kind \in {"started", "refused"}

(* A start is asked for once and answered once.                            *)
RequestsAreSingle ==
  \A i \in DOMAIN requests : requests[i].kind = "start" =>
    /\ call[requests[i].terminal] = "asked"
    /\ process[requests[i].terminal] = "none"
    /\ \A j \in DOMAIN requests : requests[j] = requests[i] => j = i
    /\ \A j \in DOMAIN frames : IsAnswer(frames[j]) =>
         frames[j].terminal # requests[i].terminal

AnswersAreSingle ==
  \A i \in DOMAIN frames : IsAnswer(frames[i]) =>
    /\ call[frames[i].terminal] = "asked"
    /\ \A j \in DOMAIN frames :
         IsAnswer(frames[j]) /\ frames[j].terminal = frames[i].terminal => j = i

(* A start that awaits its spawn is neither requested nor answered; only a *)
(* desktop that has started again has given up on it.                      *)
SpawnsAreSingle ==
  \A t \in spawning :
    /\ call[t] \in {"asked", "failed"} /\ process[t] = "none"
    /\ \A i \in DOMAIN requests : requests[i].kind = "start" => requests[i].terminal # t
    /\ \A i \in DOMAIN frames : IsAnswer(frames[i]) => frames[i].terminal # t

StartsAreSingle == RequestsAreSingle /\ AnswersAreSingle /\ SpawnsAreSingle

(* One slot per provider: its first start may have asked, or be settling;  *)
(* those behind it wait.                                                   *)
HasSlot(p, i) ==
  LET t == queue[p][i] IN
  /\ session[t] # None /\ Agent(t) = p /\ Agent(t) # None
  /\ i = 1 => call[t] \in Spawning \cup {"queued"} \/ t \in settling
  /\ i > 1 => call[t] = "queued"
  /\ \A j \in DOMAIN queue[p] : queue[p][j] = t => j = i

FirstHasSlot == \A p \in Providers : \A i \in DOMAIN queue[p] : HasSlot(p, i)

StartersAreQueued ==
  \A t \in Terminals :
    /\ call[t] = "queued" =>
         Agent(t) # None /\ \E i \in DOMAIN queue[Agent(t)] : queue[Agent(t)][i] = t
    /\ call[t] \in Spawning /\ Agent(t) # None =>
         queue[Agent(t)] # <<>> /\ queue[Agent(t)][1] = t

SettlersAreFirst ==
  \A t \in settling :
    call[t] = "done" /\ Agent(t) # None /\ queue[Agent(t)] # <<>> /\ queue[Agent(t)][1] = t

SlotsInOrder == FirstHasSlot /\ StartersAreQueued /\ SettlersAreFirst

(* While the desktop takes over what runs nothing is being started.        *)
BootIsQuiet ==
  /\ boot # "ready" => \A t \in Terminals : call[t] \notin Pending
  /\ boot # "adopting" => found = {}
  /\ boot = "listing" =>
       /\ shown = {}
       /\ requests # <<>> => \A i \in DOMAIN frames : frames[i].kind # "listed"
       /\ \A i, j \in DOMAIN requests : i = j
       /\ \A i, j \in DOMAIN frames : frames[i].kind = "listed" /\ frames[j].kind = "listed" => i = j
  /\ boot # "listing" =>
       /\ \A i \in DOMAIN requests : requests[i].kind # "list"
       /\ \A i \in DOMAIN frames : frames[i].kind # "listed"

(* The Runtime lists terminals whose starts are over for the desktop.      *)
ListedAreOld ==
  \A i \in DOMAIN frames : frames[i].kind = "listed" =>
    \A t \in frames[i].terminal : Old(t)

(* A start enters itself before it is shown.                               *)
EntriesAreEarly ==
  /\ \A s \in Sessions : entry[s] # None => session[entry[s]] = s
  /\ \A t \in Terminals : call[t] \in Entered /\ session[t] \notin overwritten =>
       entry[session[t]] = t

Ends(t, i) ==
  process[t] = "running" \/ \E j \in DOMAIN frames : j > i /\ frames[j] = Message("exit", t)

(* An exit follows the answer or the list that said the terminal runs, and *)
(* is on its way, or was missed, until the desktop shows it.               *)
FramesEnd ==
  /\ \A i \in DOMAIN frames : frames[i].kind = "started" => Ends(frames[i].terminal, i)
  /\ \A i \in DOMAIN frames : frames[i].kind = "listed" =>
       \A t \in frames[i].terminal : Ends(t, i)

ShownEnd ==
  /\ \A t \in Terminals :
       call[t] = "answered" \/ t \in found \cup shown => Ends(t, 0) \/ t \in missed
  /\ current # None => current \in processes \cup missed

ExitsFollow == FramesEnd /\ ShownEnd

(* The Runtime has been asked, or has answered.                            *)
AskedAreUnderWay ==
  \A t \in Terminals : call[t] = "asked" =>
    \/ Message("start", t) \in ToSet(requests) \/ t \in spawning
    \/ Message("started", t) \in ToSet(frames) \/ Message("refused", t) \in ToSet(frames)

DesktopInv ==
  /\ TypeOK /\ StartsHaveSessions /\ ProcessesAreStarts /\ ShownAreOld
  /\ StartsAreSingle /\ SlotsInOrder /\ BootIsQuiet
  /\ ListedAreOld /\ EntriesAreEarly /\ ExitsFollow
  /\ EntriesNameTerminals /\ AskedAreUnderWay

-----------------------------------------------------------------------------
(* Sequences that grow at one end and shrink at the other.                 *)
LEMMA Appended ==
  ASSUME NEW S, NEW s \in Seq(S), NEW e \in S
  PROVE  /\ Append(s, e) \in Seq(S)
         /\ DOMAIN Append(s, e) = 1 .. Len(s) + 1 /\ DOMAIN s = 1 .. Len(s)
         /\ Len(s) \in Nat
         /\ \A i \in 1 .. Len(s) : Append(s, e)[i] = s[i]
         /\ Append(s, e)[Len(s) + 1] = e
         /\ ToSet(Append(s, e)) = ToSet(s) \cup {e}
<1>1. /\ Append(s, e) \in Seq(S)
      /\ DOMAIN Append(s, e) = 1 .. Len(s) + 1 /\ DOMAIN s = 1 .. Len(s)
      /\ Len(s) \in Nat
      /\ \A i \in 1 .. Len(s) : Append(s, e)[i] = s[i]
      /\ Append(s, e)[Len(s) + 1] = e
  OBVIOUS
<1>2. ToSet(Append(s, e)) = ToSet(s) \cup {e}
  BY <1>1 DEF ToSet
<1> QED BY <1>1, <1>2

LEMMA Popped ==
  ASSUME NEW S, NEW s \in Seq(S), s # <<>>
  PROVE  /\ Tail(s) \in Seq(S)
         /\ Head(s) = s[1] /\ s[1] \in S
         /\ Len(s) \in Nat \ {0} /\ DOMAIN s = 1 .. Len(s)
         /\ DOMAIN Tail(s) = 1 .. Len(s) - 1
         /\ \A i \in 1 .. Len(s) - 1 : Tail(s)[i] = s[i + 1]
         /\ ToSet(s) = ToSet(Tail(s)) \cup {s[1]}
<1>1. /\ Tail(s) \in Seq(S)
      /\ Head(s) = s[1] /\ s[1] \in S
      /\ Len(s) \in Nat \ {0} /\ DOMAIN s = 1 .. Len(s)
      /\ DOMAIN Tail(s) = 1 .. Len(s) - 1
      /\ \A i \in 1 .. Len(s) - 1 : Tail(s)[i] = s[i + 1]
  OBVIOUS
<1>2. \A i \in 2 .. Len(s) : i - 1 \in 1 .. Len(s) - 1 /\ s[i] = Tail(s)[i - 1]
  BY <1>1
<1>3. \A i \in 1 .. Len(s) - 1 : i + 1 \in 1 .. Len(s)
  BY <1>1
<1>4. ToSet(s) \subseteq ToSet(Tail(s)) \cup {s[1]}
  <2> SUFFICES ASSUME NEW i \in 1 .. Len(s) PROVE s[i] \in ToSet(Tail(s)) \cup {s[1]}
    BY <1>1 DEF ToSet
  <2>1. CASE i = 1
    BY <2>1
  <2>2. CASE i # 1
    <3>1. i - 1 \in DOMAIN Tail(s) /\ Tail(s)[i - 1] = s[i]
      BY <1>1, <1>2, <2>2
    <3> QED BY <3>1 DEF ToSet
  <2> QED BY <2>1, <2>2
<1>5. ToSet(Tail(s)) \cup {s[1]} \subseteq ToSet(s)
  BY <1>1, <1>3 DEF ToSet
<1> QED BY <1>1, <1>4, <1>5

(* The agent of a call is that of a provider.                              *)
LEMMA AgentIsProvided ==
  ASSUME TypeOK, StartsHaveSessions, NEW t \in Terminals, call[t] # "none", Agent(t) # None
  PROVE  Agent(t) \in Providers
BY DesktopAssumption DEF TypeOK, StartsHaveSessions, Agent

(* What frames are about.                                                  *)
LEMMA FrameTerminals ==
  ASSUME TypeOK, NEW i \in DOMAIN frames
  PROVE  /\ frames[i].kind = "listed" => frames[i].terminal \subseteq Terminals
         /\ frames[i].kind # "listed" => frames[i].terminal \in Terminals
<1>1. frames[i] \in Frames
  BY DEF TypeOK
<1> QED BY <1>1 DEF Frames

(* A frame that is taken from the front leaves the exits behind it.        *)
LEMMA EndsLater ==
  ASSUME TypeOK, frames # <<>>, frames' = Tail(frames), process' = process,
         NEW t \in Terminals
  PROVE  /\ \A i \in 1 .. Len(frames) : Ends(t, i) => Ends(t, i - 1)'
         /\ Ends(t, 0) /\ frames[1] # Message("exit", t) => Ends(t, 0)'
<1>1. /\ Len(frames) \in Nat \ {0} /\ DOMAIN frames = 1 .. Len(frames)
      /\ DOMAIN frames' = 1 .. Len(frames) - 1
      /\ \A i \in 1 .. Len(frames) - 1 : frames'[i] = frames[i + 1]
  BY Popped DEF TypeOK
<1>2. ASSUME NEW i \in 0 .. Len(frames), NEW j \in 2 .. Len(frames), j > i,
             frames[j] = Message("exit", t)
      PROVE  Ends(t, i - 1)'
  <2>1. j - 1 \in 1 .. Len(frames) - 1 /\ frames'[j - 1] = frames[j] /\ j - 1 > i - 1
    BY <1>1, <1>2
  <2> QED BY <1>1, <1>2, <2>1 DEF Ends
<1>3. ASSUME NEW i \in 1 .. Len(frames), Ends(t, i) PROVE Ends(t, i - 1)'
  BY <1>1, <1>2, <1>3 DEF Ends
<1>4. ASSUME Ends(t, 0), frames[1] # Message("exit", t) PROVE Ends(t, 0)'
  <2>1. CASE process[t] = "running"
    BY <2>1 DEF Ends
  <2>2. CASE \E j \in DOMAIN frames : j > 0 /\ frames[j] = Message("exit", t)
    <3>1. PICK j \in 2 .. Len(frames) : frames[j] = Message("exit", t)
      BY <1>1, <1>4, <2>2
    <3>2. j - 1 \in 1 .. Len(frames) - 1 /\ frames'[j - 1] = frames[j] /\ j - 1 > 0
      BY <1>1, <3>1
    <3> QED BY <1>1, <3>1, <3>2 DEF Ends
  <2> QED BY <1>4, <2>1, <2>2 DEF Ends
<1> QED BY <1>3, <1>4

LEMMA FramesEndPopped ==
  ASSUME TypeOK, FramesEnd, frames # <<>>, frames' = Tail(frames), process' = process
  PROVE  FramesEnd'
<1>1. /\ \A i \in DOMAIN frames : frames[i] \in Frames
      /\ \A i \in DOMAIN frames' : /\ i + 1 \in DOMAIN frames /\ i + 1 \in 1 .. Len(frames)
                                   /\ (i + 1) - 1 = i /\ frames'[i] = frames[i + 1]
  BY Popped, SMTT(30) DEF TypeOK
<1>2. ASSUME NEW i \in DOMAIN frames', frames'[i].kind = "started"
      PROVE  Ends(frames[i].terminal, i)'
  <2>1. Ends(frames[i + 1].terminal, i + 1) /\ frames[i + 1].terminal \in Terminals
    BY <1>1, <1>2 DEF FramesEnd, Frames
  <2>2. PICK t \in Terminals : t = frames[i + 1].terminal
    BY <2>1
  <2>3. Ends(t, i)'
    BY <1>1, <2>1, <2>2, EndsLater
  <2> QED BY <1>1, <2>2, <2>3 DEF Ends
<1>3. ASSUME NEW i \in DOMAIN frames', frames'[i].kind = "listed",
             NEW t \in frames'[i].terminal
      PROVE  Ends(t, i)'
  <2>1. Ends(t, i + 1) /\ t \in Terminals
    BY <1>1, <1>3 DEF FramesEnd, Frames
  <2> QED BY <1>1, <2>1, EndsLater
<1> QED BY <1>2, <1>3 DEF FramesEnd

(* What a new frame has to meet for the invariants about frames.           *)
LEMMA ExitsFollowPushed ==
  ASSUME TypeOK, ExitsFollow, NEW e \in Frames, frames' = Append(frames, e),
         \A t \in Terminals : process[t] = "running" =>
           process'[t] = "running" \/ e = Message("exit", t),
         e.kind = "started" => process'[e.terminal] = "running",
         e.kind = "listed" => \A t \in e.terminal : process'[t] = "running",
         UNCHANGED <<call, found, shown, missed, processes, current>>
  PROVE  ExitsFollow'
<1>1. /\ Len(frames) \in Nat /\ DOMAIN frames = 1 .. Len(frames)
      /\ DOMAIN frames' = 1 .. Len(frames) + 1
      /\ \A i \in 1 .. Len(frames) : frames'[i] = frames[i]
      /\ frames'[Len(frames) + 1] = e
      /\ \A i \in DOMAIN frames : frames[i] \in Frames
  BY Appended DEF TypeOK
<1>2. ASSUME NEW t \in Terminals, NEW i \in 0 .. Len(frames), Ends(t, i)
      PROVE  Ends(t, i)'
  <2>1. CASE process[t] = "running"
    BY <1>1, <2>1 DEF Ends
  <2>2. CASE \E j \in DOMAIN frames : j > i /\ frames[j] = Message("exit", t)
    BY <1>1, <2>2 DEF Ends
  <2> QED BY <1>2, <2>1, <2>2 DEF Ends
<1>3. ASSUME NEW i \in DOMAIN frames', frames'[i].kind = "started"
      PROVE  Ends(frames[i].terminal, i)'
  <2>1. CASE i \in 1 .. Len(frames)
    <3>1. Ends(frames[i].terminal, i) /\ frames[i].terminal \in Terminals
      BY <1>1, <1>3, <2>1 DEF ExitsFollow, FramesEnd, Frames
    <3>2. PICK t \in Terminals : t = frames[i].terminal
      BY <3>1
    <3>3. Ends(t, i)'
      BY <1>1, <1>2, <2>1, <3>1, <3>2
    <3> QED BY <1>1, <2>1, <3>2, <3>3 DEF Ends
  <2>2. CASE i = Len(frames) + 1
    BY <1>1, <1>3, <2>2 DEF Ends
  <2> QED BY <1>1, <2>1, <2>2
<1>4. ASSUME NEW i \in DOMAIN frames', frames'[i].kind = "listed",
             NEW t \in frames'[i].terminal
      PROVE  Ends(t, i)'
  <2>1. CASE i \in 1 .. Len(frames)
    BY <1>1, <1>2, <1>4, <2>1 DEF ExitsFollow, FramesEnd, Frames
  <2>2. CASE i = Len(frames) + 1
    BY <1>1, <1>4, <2>2 DEF Ends
  <2> QED BY <1>1, <2>1, <2>2
<1>5. ShownEnd'
  BY <1>1, <1>2 DEF ExitsFollow, ShownEnd
<1> QED BY <1>3, <1>4, <1>5 DEF ExitsFollow, FramesEnd

LEMMA ListedAreOldPushed ==
  ASSUME TypeOK, ListedAreOld, NEW e \in Frames, frames' = Append(frames, e),
         e.kind = "listed" => \A t \in e.terminal : Old(t),
         \A t \in Terminals : process[t] # "none" => process'[t] # "none",
         call' = call
  PROVE  ListedAreOld'
<1>1. /\ Len(frames) \in Nat /\ DOMAIN frames = 1 .. Len(frames)
      /\ DOMAIN frames' = 1 .. Len(frames) + 1
      /\ \A i \in 1 .. Len(frames) : frames'[i] = frames[i]
      /\ frames'[Len(frames) + 1] = e
      /\ \A i \in DOMAIN frames : frames[i] \in Frames
  BY Appended DEF TypeOK
<1>2. ASSUME NEW i \in DOMAIN frames', frames'[i].kind = "listed",
             NEW t \in frames'[i].terminal
      PROVE  Old(t)'
  <2>1. t \in Terminals /\ Old(t)
    <3>1. CASE i \in 1 .. Len(frames)
      BY <1>1, <1>2, <3>1 DEF ListedAreOld, Frames
    <3>2. CASE i = Len(frames) + 1
      BY <1>1, <1>2, <3>2 DEF Frames
    <3> QED BY <1>1, <3>1, <3>2
  <2> QED BY <2>1 DEF Old
<1> QED BY <1>2 DEF ListedAreOld

LEMMA ProcessesAreStartsPushed ==
  ASSUME TypeOK, ProcessesAreStarts, NEW e \in Frames, frames' = Append(frames, e),
         e.kind \in {"started", "exit"} => process'[e.terminal] # "none",
         \A t \in Terminals : process[t] # "none" => process'[t] # "none",
         \A t \in Terminals : process'[t] # "none" => call[t] \notin Unasked,
         call' = call
  PROVE  ProcessesAreStarts'
<1>1. /\ Len(frames) \in Nat /\ DOMAIN frames = 1 .. Len(frames)
      /\ DOMAIN frames' = 1 .. Len(frames) + 1
      /\ \A i \in 1 .. Len(frames) : frames'[i] = frames[i]
      /\ frames'[Len(frames) + 1] = e
      /\ \A i \in DOMAIN frames : frames[i] \in Frames
  BY Appended DEF TypeOK
<1>2. ASSUME NEW i \in DOMAIN frames', frames'[i].kind \in {"started", "exit"}
      PROVE  process'[frames'[i].terminal] # "none"
  <2>1. CASE i \in 1 .. Len(frames)
    BY <1>1, <1>2, <2>1 DEF ProcessesAreStarts, Frames
  <2>2. CASE i = Len(frames) + 1
    BY <1>1, <1>2, <2>2
  <2> QED BY <1>1, <2>1, <2>2
<1> QED BY <1>2 DEF ProcessesAreStarts

LEMMA DesktopInit == Init => DesktopInv
<1> SUFFICES ASSUME Init PROVE DesktopInv
  OBVIOUS
<1> USE DesktopAssumption DEF Init
<1>1. TypeOK
  BY DEF TypeOK, Phases, Pending, Entered
<1>2. StartsHaveSessions /\ ProcessesAreStarts /\ ShownAreOld /\ StartsAreSingle /\ SlotsInOrder
  BY DEF StartsHaveSessions, ProcessesAreStarts, ShownAreOld, StartsAreSingle,
      RequestsAreSingle, AnswersAreSingle, SpawnsAreSingle, SlotsInOrder,
      FirstHasSlot, HasSlot, StartersAreQueued, SettlersAreFirst, Spawning
<1>3. BootIsQuiet /\ EntriesAreEarly /\ ExitsFollow /\ EntriesNameTerminals /\ AskedAreUnderWay
  BY DEF BootIsQuiet, EntriesAreEarly, ExitsFollow, FramesEnd, ShownEnd,
      EntriesNameTerminals, AskedAreUnderWay, Entered
<1>4. ListedAreOld
  BY DEF ListedAreOld
<1> QED BY <1>1, <1>2, <1>3, <1>4 DEF DesktopInv

(* One lemma per action.  Starts, restarts and stops.                      *)
LEMMA StartStep ==
  ASSUME DesktopInv, NEW t \in Terminals, NEW s \in Sessions, Start(t, s)
  PROVE  DesktopInv'
<1> USE DesktopAssumption DEF Start, Phase, Ready, runtime, starting, slots, booting
<1>0. TypeOK
  BY DEF DesktopInv
<1>a. /\ call' = [call EXCEPT ![t] = "reading"] /\ session' = [session EXCEPT ![t] = s]
      /\ call[t] = "none" /\ s # None
  BY <1>0 DEF DesktopInv, StartsHaveSessions, TypeOK
<1>b. t \notin shown /\ t \notin found
  BY <1>0, <1>a DEF DesktopInv, ShownAreOld, Old, Pending, Entered
<1>1. TypeOK'
  BY <1>0, <1>a, <1>b DEF DesktopInv, TypeOK, Phases, Pending, Entered
<1>2. StartsHaveSessions'
  BY <1>0, <1>a, <1>b DEF DesktopInv, StartsHaveSessions, TypeOK
<1>3. ProcessesAreStarts'
  BY <1>0, <1>a, <1>b DEF DesktopInv, ProcessesAreStarts, Unasked, TypeOK
<1>4. ShownAreOld'
  BY <1>0, <1>a, <1>b DEF DesktopInv, ShownAreOld, Old, Pending, Entered, TypeOK
<1>5. StartsAreSingle'
  BY <1>0, <1>a, <1>b DEF DesktopInv, StartsAreSingle, RequestsAreSingle, AnswersAreSingle,
     SpawnsAreSingle, IsAnswer, Requests, Frames, Message, TypeOK
<1>6. SlotsInOrder'
  BY <1>0, <1>a, <1>b DEF DesktopInv, SlotsInOrder, FirstHasSlot, HasSlot,
     StartersAreQueued, SettlersAreFirst, Spawning, Agent, TypeOK
<1>7. BootIsQuiet'
  BY <1>0, <1>a, <1>b DEF DesktopInv, BootIsQuiet, Pending, Entered, Message, TypeOK
<1>8. ListedAreOld'
  <2>1. ASSUME NEW i \in DOMAIN frames, frames[i].kind = "listed", NEW u \in frames[i].terminal
        PROVE  u \in Terminals \ {t} /\ Old(u)
    <3>1. u \in Terminals
      BY <1>0, <2>1, FrameTerminals
    <3>2. Old(u)
      BY <2>1 DEF DesktopInv, ListedAreOld
    <3> QED BY <1>a, <3>1, <3>2 DEF Old
  <2> QED BY <1>0, <1>a, <2>1 DEF ListedAreOld, Old, TypeOK
<1>9. EntriesAreEarly'
  BY <1>0, <1>a, <1>b DEF DesktopInv, EntriesAreEarly, Entered, StartsHaveSessions, TypeOK
<1>10. ExitsFollow'
  BY <1>0, <1>a, <1>b DEF DesktopInv, ExitsFollow, FramesEnd, ShownEnd, Ends, TypeOK
<1>11. EntriesNameTerminals'
  BY <1>0, <1>a, <1>b DEF DesktopInv, EntriesNameTerminals, Entered, TypeOK
<1>12. AskedAreUnderWay'
  BY <1>0, <1>a, <1>b DEF DesktopInv, AskedAreUnderWay, Message, TypeOK
<1> QED BY <1>1, <1>2, <1>3, <1>4, <1>5, <1>6, <1>7, <1>8, <1>9, <1>10, <1>11,
   <1>12 DEF DesktopInv

LEMMA LookStep ==
  ASSUME DesktopInv, NEW t \in Terminals, Look(t)
  PROVE  DesktopInv'
<1> USE DesktopAssumption DEF Look, Phase, runtime, starting, slots, booting
<1>0. TypeOK
  BY DEF DesktopInv
<1>a. /\ call[t] \in {"freed", "lapsed"} /\ session[t] \in Sessions
      /\ \E c \in {"reading", "returned", "failed"} : call' = [call EXCEPT ![t] = c]
  BY <1>0 DEF DesktopInv, StartsHaveSessions, TypeOK
<1>1. TypeOK'
  BY <1>0, <1>a DEF DesktopInv, TypeOK, Phases, Pending, Entered
<1>2. StartsHaveSessions'
  BY <1>0, <1>a DEF DesktopInv, StartsHaveSessions, TypeOK
<1>3. ProcessesAreStarts'
  BY <1>0, <1>a DEF DesktopInv, ProcessesAreStarts, Unasked, TypeOK
<1>4. ShownAreOld'
  BY <1>0, <1>a DEF DesktopInv, ShownAreOld, Old, Pending, Entered, TypeOK
<1>5. StartsAreSingle'
  BY <1>0, <1>a DEF DesktopInv, StartsAreSingle, RequestsAreSingle, AnswersAreSingle,
     SpawnsAreSingle, IsAnswer, Requests, Frames, Message, TypeOK
<1>6. SlotsInOrder'
  BY <1>0, <1>a DEF DesktopInv, SlotsInOrder, FirstHasSlot, HasSlot, StartersAreQueued,
     SettlersAreFirst, Spawning, Agent, TypeOK
<1>7. BootIsQuiet'
  BY <1>0, <1>a DEF DesktopInv, BootIsQuiet, Pending, Entered, Message, TypeOK
<1>8. ListedAreOld'
  BY <1>0, <1>a DEF DesktopInv, ListedAreOld, Old, Pending, Entered, Frames, TypeOK
<1>9. EntriesAreEarly'
  BY <1>0, <1>a DEF DesktopInv, EntriesAreEarly, Entered, StartsHaveSessions, TypeOK
<1>10. ExitsFollow'
  BY <1>0, <1>a DEF DesktopInv, ExitsFollow, FramesEnd, ShownEnd, Ends, TypeOK
<1>11. EntriesNameTerminals'
  BY <1>0, <1>a DEF DesktopInv, EntriesNameTerminals, Entered, TypeOK
<1>12. AskedAreUnderWay'
  BY <1>0, <1>a DEF DesktopInv, AskedAreUnderWay, Message, TypeOK
<1> QED BY <1>1, <1>2, <1>3, <1>4, <1>5, <1>6, <1>7, <1>8, <1>9, <1>10, <1>11,
   <1>12 DEF DesktopInv

LEMMA EnterStep ==
  ASSUME DesktopInv, NEW t \in Terminals, Enter(t)
  PROVE  DesktopInv'
<1> USE DesktopAssumption DEF runtime, starting, slots, booting
<1>0. TypeOK
  BY DEF DesktopInv
<1>a. /\ call[t] = "reading" /\ session[t] \in Sessions
      /\ UNCHANGED <<runtime, requests, frames, session, replaces, shown, processes, slots,
                     booting, missed>>
      /\ \E c \in {"entered", "failed"} : call' = [call EXCEPT ![t] = c]
  BY <1>0 DEF DesktopInv, StartsHaveSessions, TypeOK, Enter, Phase
<1>b. t \notin shown /\ t \notin found
  BY <1>0, <1>a DEF DesktopInv, ShownAreOld, Old, Pending, Entered
<1>c. \/ /\ call' = [call EXCEPT ![t] = "entered"]
         /\ entry' = [entry EXCEPT ![session[t]] = t]
         /\ overwritten' = IF entry[session[t]] # None THEN overwritten \cup {session[t]}
                           ELSE overwritten
      \/ /\ call' = [call EXCEPT ![t] = "failed"] /\ UNCHANGED <<entry, overwritten>>
  BY <1>0 DEF Enter, Phase
<1>1. TypeOK'
  BY <1>0, <1>a, <1>b, <1>c DEF DesktopInv, TypeOK, Phases, Pending, Entered
<1>2. StartsHaveSessions'
  BY <1>0, <1>a, <1>b DEF DesktopInv, StartsHaveSessions, TypeOK
<1>3. ProcessesAreStarts'
  BY <1>0, <1>a, <1>b DEF DesktopInv, ProcessesAreStarts, Unasked, TypeOK
<1>4. ShownAreOld'
  BY <1>0, <1>a, <1>b DEF DesktopInv, ShownAreOld, Old, Pending, Entered, TypeOK
<1>5. StartsAreSingle'
  BY <1>0, <1>a, <1>b DEF DesktopInv, StartsAreSingle, RequestsAreSingle, AnswersAreSingle,
     SpawnsAreSingle, IsAnswer, Requests, Frames, Message, TypeOK
<1>6. SlotsInOrder'
  BY <1>0, <1>a, <1>b DEF DesktopInv, SlotsInOrder, FirstHasSlot, HasSlot,
     StartersAreQueued, SettlersAreFirst, Spawning, Agent, TypeOK
<1>7. BootIsQuiet'
  BY <1>0, <1>a, <1>b DEF DesktopInv, BootIsQuiet, Pending, Entered, Message, TypeOK
<1>8. ListedAreOld'
  BY <1>0, <1>a, <1>b DEF DesktopInv, ListedAreOld, Old, Pending, Entered, Frames, TypeOK
<1>9. EntriesAreEarly'
  <2>1. CASE call' = [call EXCEPT ![t] = "entered"]
    <3>1. /\ entry' = [entry EXCEPT ![session[t]] = t]
          /\ overwritten \subseteq overwritten'
          /\ entry[session[t]] # None => session[t] \in overwritten'
      BY <1>0, <1>a, <1>c, <2>1 DEF TypeOK
    <3>2. \A u \in Terminals \ {t} : call'[u] \in Entered /\ session[u] = session[t] =>
            session[u] \in overwritten'
      BY <1>0, <1>a, <2>1, <3>1, DesktopAssumption DEF DesktopInv, EntriesAreEarly, TypeOK
    <3>3. ASSUME NEW u \in Terminals, call'[u] \in Entered, session[u] \notin overwritten'
          PROVE  entry'[session[u]] = u
      <4>1. CASE u = t
        BY <1>0, <1>a, <3>1, <4>1 DEF TypeOK
      <4>2. CASE u # t
        BY <1>0, <1>a, <2>1, <3>1, <3>2, <3>3, <4>2 DEF DesktopInv, EntriesAreEarly, TypeOK
      <4> QED BY <4>1, <4>2
    <3>4. ASSUME NEW s \in Sessions, entry'[s] # None PROVE session[entry'[s]] = s
      BY <1>0, <3>1, <3>4 DEF DesktopInv, EntriesAreEarly, TypeOK
    <3> QED BY <1>a, <3>3, <3>4 DEF EntriesAreEarly
  <2>2. CASE call' = [call EXCEPT ![t] = "failed"] /\ UNCHANGED <<entry, overwritten>>
    BY <1>0, <1>a, <2>2 DEF DesktopInv, EntriesAreEarly, Entered, TypeOK
  <2> QED BY <1>c, <2>1, <2>2
<1>10. ExitsFollow'
  BY <1>0, <1>a, <1>b DEF DesktopInv, ExitsFollow, FramesEnd, ShownEnd, Ends, TypeOK
<1>11. EntriesNameTerminals'
  BY <1>0, <1>a, <1>b, <1>c DEF DesktopInv, EntriesNameTerminals, EntriesAreEarly,
     ShownAreOld, Old, Pending, Entered, TypeOK
<1>12. AskedAreUnderWay'
  BY <1>0, <1>a, <1>b DEF DesktopInv, AskedAreUnderWay, Message, TypeOK
<1> QED BY <1>1, <1>2, <1>3, <1>4, <1>5, <1>6, <1>7, <1>8, <1>9, <1>10, <1>11,
   <1>12 DEF DesktopInv

(* The request to spawn, with the slot of the agent's provider or without  *)
(* a need for one.                                                         *)
LEMMA AskStep ==
  ASSUME DesktopInv, NEW t \in Terminals, call[t] \in {"entered", "queued"}, Ask(t),
         Agent(t) # None => queue[Agent(t)] # <<>> /\ queue[Agent(t)][1] = t,
         Agent(t) = None => call[t] # "queued",
         UNCHANGED <<runtime, frames, session, replaces, entry, shown, processes, slots,
                     booting, missed, overwritten>>
  PROVE  DesktopInv'
<1> USE DesktopAssumption DEF Phase, Ask, Send, runtime, starting, slots, booting
<1>0. TypeOK
  BY DEF DesktopInv
<1>a. /\ call[t] \in {"entered", "queued"} /\ session[t] \in Sessions /\ Message("start", t) \in Requests
      /\ requests' = Append(requests, Message("start", t))
      /\ call' = [call EXCEPT ![t] = "asked"]
  BY <1>0 DEF DesktopInv, StartsHaveSessions, TypeOK, Message, Requests
<1>b. t \notin shown /\ t \notin found
  BY <1>0, <1>a DEF DesktopInv, ShownAreOld, Old, Pending, Entered
<1>c. boot = "ready"
  BY <1>0, <1>a DEF DesktopInv, BootIsQuiet, Pending, Entered
<1>d. /\ Len(requests) \in Nat /\ DOMAIN requests = 1 .. Len(requests)
      /\ DOMAIN requests' = 1 .. Len(requests) + 1
      /\ \A i \in 1 .. Len(requests) : requests'[i] = requests[i]
      /\ requests'[Len(requests) + 1] = Message("start", t)
      /\ ToSet(requests') = ToSet(requests) \cup {Message("start", t)}
  BY <1>0, <1>a, Appended DEF TypeOK
<1>e. process[t] = "none"
  BY <1>a DEF DesktopInv, ProcessesAreStarts, Unasked, TypeOK
<1>1. TypeOK'
  BY <1>0, <1>a, <1>b, <1>c, <1>d, <1>e DEF DesktopInv, TypeOK, Phases, Pending, Entered
<1>2. StartsHaveSessions'
  BY <1>0, <1>a, <1>b, <1>c, <1>d, <1>e DEF DesktopInv, StartsHaveSessions, TypeOK
<1>3. ProcessesAreStarts'
  BY <1>0, <1>a, <1>b, <1>c, <1>d, <1>e DEF DesktopInv, ProcessesAreStarts, Unasked, TypeOK
<1>4. ShownAreOld'
  BY <1>0, <1>a, <1>b, <1>c, <1>d, <1>e DEF DesktopInv, ShownAreOld, Old, Pending, Entered,
     TypeOK
<1>5. StartsAreSingle'
  <2>1. \A i \in DOMAIN requests : requests[i].kind = "start" => requests[i].terminal # t
    BY <1>a DEF DesktopInv, StartsAreSingle, RequestsAreSingle
  <2>2. \A i \in DOMAIN frames : IsAnswer(frames[i]) => frames[i].terminal # t
    BY <1>a DEF DesktopInv, StartsAreSingle, AnswersAreSingle, IsAnswer
  <2>3. /\ RequestsAreSingle /\ AnswersAreSingle
        /\ \A i \in DOMAIN requests : requests[i] \in Requests
        /\ \A i \in DOMAIN frames : IsAnswer(frames[i]) => frames[i].terminal \in Terminals
    BY <1>0 DEF DesktopInv, StartsAreSingle, TypeOK, IsAnswer, Frames
  <2>4. RequestsAreSingle'
    BY <1>0, <1>a, <1>d, <1>e, <2>1, <2>2, <2>3 DEF RequestsAreSingle, IsAnswer, Message,
       Requests, TypeOK
  <2>5. AnswersAreSingle'
    BY <1>0, <1>a, <2>2, <2>3 DEF AnswersAreSingle, IsAnswer, TypeOK
  <2>6. SpawnsAreSingle'
    <3>1. SpawnsAreSingle /\ t \notin spawning /\ spawning \subseteq Terminals
      BY <1>0, <1>a DEF DesktopInv, StartsAreSingle, SpawnsAreSingle, TypeOK
    <3> QED BY <1>0, <1>a, <1>d, <3>1 DEF SpawnsAreSingle, IsAnswer, Message, TypeOK
  <2> QED BY <2>4, <2>5, <2>6 DEF StartsAreSingle
<1>6. SlotsInOrder'
  BY <1>0, <1>a, <1>b, <1>c, <1>d, <1>e DEF DesktopInv, SlotsInOrder, FirstHasSlot,
     HasSlot, StartersAreQueued, SettlersAreFirst, Spawning, Agent, TypeOK
<1>7. BootIsQuiet'
  BY <1>0, <1>a, <1>b, <1>c, <1>d, <1>e DEF DesktopInv, BootIsQuiet, Pending, Entered,
     Message, TypeOK
<1>8. ListedAreOld'
  BY <1>0, <1>a, <1>b, <1>c, <1>d, <1>e DEF DesktopInv, ListedAreOld, Old, Pending, Entered, Frames, TypeOK
<1>9. EntriesAreEarly'
  BY <1>0, <1>a, <1>b, <1>c, <1>d, <1>e DEF DesktopInv, EntriesAreEarly, Entered,
     StartsHaveSessions, TypeOK
<1>10. ExitsFollow'
  BY <1>0, <1>a, <1>b, <1>c, <1>d, <1>e DEF DesktopInv, ExitsFollow, FramesEnd, ShownEnd,
     Ends, TypeOK
<1>11. EntriesNameTerminals'
  BY <1>0, <1>a, <1>b, <1>c, <1>d, <1>e DEF DesktopInv, EntriesNameTerminals, Entered,
     TypeOK
<1>12. AskedAreUnderWay'
  BY <1>0, <1>a, <1>b, <1>c, <1>d, <1>e DEF DesktopInv, AskedAreUnderWay, Message, TypeOK
<1> QED BY <1>1, <1>2, <1>3, <1>4, <1>5, <1>6, <1>7, <1>8, <1>9, <1>10, <1>11,
   <1>12 DEF DesktopInv

LEMMA TurnStep == ASSUME DesktopInv, NEW t \in Terminals, Turn(t) PROVE DesktopInv'
<1>1. /\ call[t] = "queued" /\ Agent(t) # None /\ Agent(t) \in Providers
      /\ queue[Agent(t)] # <<>> /\ queue[Agent(t)][1] = t
  <2>1. call[t] = "queued" /\ Head(queue[Agent(t)]) = t
    BY DEF Turn
  <2>2. Agent(t) # None /\ queue[Agent(t)] # <<>> /\ Agent(t) \in Providers
    BY <2>1, DesktopAssumption
    DEF DesktopInv, SlotsInOrder, FirstHasSlot, HasSlot, StartersAreQueued, SettlersAreFirst, Agent, StartsHaveSessions, TypeOK
  <2>3. queue[Agent(t)] \in Seq(Terminals)
    BY <2>2 DEF DesktopInv, TypeOK
  <2> QED BY <2>1, <2>2, <2>3, Popped
<1> QED BY <1>1, AskStep DEF Turn, slots

LEMMA EnqueueStep ==
  ASSUME DesktopInv, NEW t \in Terminals, Queue(t), Agent(t) # None
  PROVE  DesktopInv'
<1> USE DesktopAssumption DEF runtime, starting, slots, booting
<1>0. TypeOK
  BY DEF DesktopInv
<1>a. /\ call[t] = "entered" /\ session[t] \in Sessions
      /\ call' = [call EXCEPT ![t] = "queued"]
      /\ queue' = [queue EXCEPT ![Agent(t)] = Append(queue[Agent(t)], t)]
      /\ UNCHANGED <<runtime, requests, frames, session, replaces, entry, shown, processes,
                     settling, booting, missed, overwritten>>
  BY <1>0 DEF DesktopInv, StartsHaveSessions, TypeOK, Queue, Phase
<1>b. t \notin shown /\ t \notin found
  BY <1>0, <1>a DEF DesktopInv, ShownAreOld, Old, Pending, Entered
<1>c. Agent(t) \in Providers /\ queue[Agent(t)] \in Seq(Terminals)
  BY <1>0, <1>a DEF Agent, TypeOK
<1>d. /\ Len(queue[Agent(t)]) \in Nat /\ DOMAIN queue[Agent(t)] = 1 .. Len(queue[Agent(t)])
      /\ queue' \in [Providers -> Seq(Terminals)]
      /\ DOMAIN queue'[Agent(t)] = 1 .. Len(queue[Agent(t)]) + 1
      /\ \A i \in 1 .. Len(queue[Agent(t)]) : queue'[Agent(t)][i] = queue[Agent(t)][i]
      /\ queue'[Agent(t)][Len(queue[Agent(t)]) + 1] = t
      /\ \A p \in Providers \ {Agent(t)} : queue'[p] = queue[p]
  BY <1>0, <1>a, <1>c, Appended DEF TypeOK
<1>1. TypeOK'
  BY <1>0, <1>a, <1>b, <1>c, <1>d DEF DesktopInv, TypeOK, Phases, Pending, Entered
<1>2. StartsHaveSessions'
  BY <1>0, <1>a, <1>b, <1>c, <1>d DEF DesktopInv, StartsHaveSessions, TypeOK
<1>3. ProcessesAreStarts'
  BY <1>0, <1>a, <1>b, <1>c, <1>d DEF DesktopInv, ProcessesAreStarts, Unasked, TypeOK
<1>4. ShownAreOld'
  BY <1>0, <1>a, <1>b, <1>c, <1>d DEF DesktopInv, ShownAreOld, Old, Pending, Entered, TypeOK
<1>5. StartsAreSingle'
  BY <1>0, <1>a, <1>b, <1>c, <1>d DEF DesktopInv, StartsAreSingle, RequestsAreSingle,
     AnswersAreSingle, SpawnsAreSingle, IsAnswer, Requests, Frames, Message, TypeOK
<1>6. SlotsInOrder'
  <2> PICK p \in Providers : p = Agent(t)
    BY <1>c
  <2>0. /\ Len(queue[p]) \in Nat /\ DOMAIN queue[p] = 1 .. Len(queue[p])
        /\ DOMAIN queue'[p] = 1 .. Len(queue[p]) + 1
        /\ \A i \in 1 .. Len(queue[p]) : queue'[p][i] = queue[p][i]
        /\ queue'[p][Len(queue[p]) + 1] = t
    BY <1>d
  <2>1. /\ SlotsInOrder /\ p # None
        /\ \A q \in Providers : \A i \in DOMAIN queue[q] :
             queue[q][i] \in Terminals /\ queue[q][i] # t
    <3>1. SlotsInOrder /\ \A q \in Providers : \A i \in DOMAIN queue[q] :
            queue[q][i] \in Terminals /\ i \in Nat /\ i > 0
      BY <1>0 DEF DesktopInv, TypeOK
    <3>2. call[t] \notin Spawning \cup {"queued"} /\ t \notin settling
      BY <1>a, <3>1 DEF SlotsInOrder, SettlersAreFirst, Spawning
    <3> QED BY <1>a, <3>1, <3>2 DEF SlotsInOrder, FirstHasSlot, HasSlot
  <2>2. \A u \in Terminals : Agent(u)' = Agent(u)
    BY <1>a DEF Agent
  <2>3. ASSUME NEW q \in Providers, NEW i \in DOMAIN queue'[q]
        PROVE  HasSlot(q, i)'
    <3>1. CASE q # p
      BY <1>0, <1>a, <1>d, <2>1, <2>2, <3>1 DEF SlotsInOrder, FirstHasSlot, HasSlot, TypeOK
    <3>2. CASE q = p /\ i \in 1 .. Len(queue[p])
      <4>1. /\ HasSlot(p, i) /\ queue'[p][i] = queue[p][i]
            /\ queue[p][i] \in Terminals \ {t}
        BY <1>d, <2>1, <3>2 DEF SlotsInOrder, FirstHasSlot
      <4>2. /\ session'[queue[p][i]] = session[queue[p][i]] /\ settling' = settling
            /\ call'[queue[p][i]] = call[queue[p][i]]
        BY <1>0, <1>a, <4>1 DEF TypeOK
      <4>3. \A j \in DOMAIN queue'[p] : queue'[p][j] = queue[p][i] => j = i
        <5>1. \A j \in DOMAIN queue[p] : queue[p][j] = queue[p][i] => j = i
          BY <4>1 DEF HasSlot
        <5>2. \A j \in DOMAIN queue'[p] :
                (j \in DOMAIN queue[p] /\ queue'[p][j] = queue[p][j]) \/ queue'[p][j] = t
          BY <2>0
        <5> QED BY <4>1, <5>1, <5>2
      <4> QED BY <2>2, <3>2, <4>1, <4>2, <4>3 DEF HasSlot
    <3>3. CASE q = p /\ i = Len(queue[p]) + 1
      BY <1>0, <1>a, <1>d, <2>1, <2>2, <3>3, DesktopAssumption DEF HasSlot, TypeOK
    <3> QED BY <1>d, <3>1, <3>2, <3>3
  <2>4. StartersAreQueued'
    <3>1. ASSUME NEW u \in Terminals, call'[u] = "queued"
          PROVE  Agent(u)' # None /\ \E i \in DOMAIN queue'[Agent(u)'] : queue'[Agent(u)'][i] = u
      <4>1. CASE u = t
        BY <1>d, <2>1, <2>2, <4>1
      <4>2. CASE u # t
        <5>1. call[u] = "queued"
          BY <1>0, <1>a, <3>1, <4>2 DEF TypeOK
        <5>2. /\ Agent(u) # None /\ Agent(u) \in Providers
              /\ \E i \in DOMAIN queue[Agent(u)] : queue[Agent(u)][i] = u
          BY <1>0, <2>1, <5>1, AgentIsProvided
          DEF DesktopInv, SlotsInOrder, StartersAreQueued
        <5> PICK i \in DOMAIN queue[Agent(u)] : queue[Agent(u)][i] = u
          BY <5>2
        <5>3. CASE Agent(u) = Agent(t)
          <6>1. i \in DOMAIN queue'[Agent(t)] /\ queue'[Agent(t)][i] = u
            BY <1>d, <5>3
          <6> QED BY <2>2, <5>2, <5>3, <6>1
        <5>4. CASE Agent(u) # Agent(t)
          <6>1. queue'[Agent(u)] = queue[Agent(u)]
            BY <1>d, <5>2, <5>4
          <6> QED BY <2>2, <5>2, <6>1
        <5> QED BY <5>3, <5>4
      <4> QED BY <4>1, <4>2
    <3>2. ASSUME NEW u \in Terminals, call'[u] \in Spawning, Agent(u) # None
          PROVE  queue'[Agent(u)] # <<>> /\ queue'[Agent(u)][1] = u
      <4>1. /\ Agent(u) \in Providers /\ queue[Agent(u)] # <<>> /\ queue[Agent(u)][1] = u
        <5>1. call[u] \in Spawning
          BY <1>0, <1>a, <3>2 DEF TypeOK, Spawning
        <5> QED BY <1>0, <2>1, <3>2, <5>1, AgentIsProvided
            DEF DesktopInv, SlotsInOrder, StartersAreQueued, Spawning
      <4>2. Len(queue[Agent(u)]) # 0
        BY <1>0, <4>1 DEF TypeOK
      <4> QED BY <1>d, <4>1, <4>2
    <3> QED BY <2>2, <3>1, <3>2 DEF StartersAreQueued
  <2>5. SettlersAreFirst'
    <3> SUFFICES ASSUME NEW u \in settling
                 PROVE  /\ call'[u] = "done" /\ Agent(u) # None
                        /\ queue'[Agent(u)] # <<>> /\ queue'[Agent(u)][1] = u
      BY <1>a, <2>2 DEF SettlersAreFirst, TypeOK, Agent
    <3>1. /\ call[u] = "done" /\ Agent(u) # None /\ Agent(u) \in Providers /\ u \in Terminals
          /\ queue[Agent(u)] # <<>> /\ queue[Agent(u)][1] = u
      BY <1>0, <2>1, AgentIsProvided DEF DesktopInv, SlotsInOrder, SettlersAreFirst, TypeOK
    <3>2. Len(queue[Agent(u)]) # 0
      BY <1>0, <3>1 DEF TypeOK
    <3> QED BY <1>0, <1>a, <1>d, <3>1, <3>2 DEF TypeOK
  <2> QED BY <2>3, <2>4, <2>5 DEF SlotsInOrder, FirstHasSlot
<1>7. BootIsQuiet'
  BY <1>0, <1>a, <1>b, <1>c, <1>d DEF DesktopInv, BootIsQuiet, Pending, Entered, Message,
     TypeOK
<1>8. ListedAreOld'
  BY <1>0, <1>a, <1>b, <1>c, <1>d DEF DesktopInv, ListedAreOld, Old, Pending, Entered, Frames, TypeOK
<1>9. EntriesAreEarly'
  BY <1>0, <1>a, <1>b, <1>c, <1>d DEF DesktopInv, EntriesAreEarly, Entered,
     StartsHaveSessions, TypeOK
<1>10. ExitsFollow'
  BY <1>0, <1>a, <1>b, <1>c, <1>d DEF DesktopInv, ExitsFollow, FramesEnd, ShownEnd, Ends,
     TypeOK
<1>11. EntriesNameTerminals'
  BY <1>0, <1>a, <1>b, <1>c, <1>d DEF DesktopInv, EntriesNameTerminals, Entered, TypeOK
<1>12. AskedAreUnderWay'
  BY <1>0, <1>a, <1>b, <1>c, <1>d DEF DesktopInv, AskedAreUnderWay, Message, TypeOK
<1> QED BY <1>1, <1>2, <1>3, <1>4, <1>5, <1>6, <1>7, <1>8, <1>9, <1>10, <1>11,
   <1>12 DEF DesktopInv

LEMMA QueueStep == ASSUME DesktopInv, NEW t \in Terminals, Queue(t) PROVE DesktopInv'
<1>1. CASE Agent(t) = None
  BY <1>1, AskStep DEF Queue, slots
<1>2. CASE Agent(t) # None
  BY <1>2, EnqueueStep DEF Queue
<1> QED BY <1>1, <1>2

(* What follows an answer, and what rehydrate takes over.                  *)
LEMMA AttachStep ==
  ASSUME DesktopInv, NEW t \in Terminals, Attach(t)
  PROVE  DesktopInv'
<1> USE DesktopAssumption DEF Attach, Phase, runtime, starting, slots, booting
<1>0. TypeOK
  BY DEF DesktopInv
<1>a. /\ call[t] = "answered" /\ session[t] \in Sessions /\ call' = [call EXCEPT ![t] = "done"]
  BY <1>0 DEF DesktopInv, StartsHaveSessions, TypeOK
<1>b. t \notin shown /\ t \notin found
  BY <1>0, <1>a DEF DesktopInv, ShownAreOld, Old, Pending, Entered
<1>c. boot = "ready"
  BY <1>0, <1>a DEF DesktopInv, BootIsQuiet, Pending, Entered
<1>1. TypeOK'
  BY <1>0, <1>a, <1>b, <1>c DEF DesktopInv, TypeOK, Phases, Pending, Entered
<1>2. StartsHaveSessions'
  BY <1>0, <1>a, <1>b, <1>c DEF DesktopInv, StartsHaveSessions, TypeOK
<1>3. ProcessesAreStarts'
  BY <1>0, <1>a, <1>b, <1>c DEF DesktopInv, ProcessesAreStarts, Unasked, TypeOK
<1>4. ShownAreOld'
  BY <1>0, <1>a DEF DesktopInv, ShownAreOld, ProcessesAreStarts, Old, Pending, Entered,
     TypeOK
<1>5. StartsAreSingle'
  BY <1>0, <1>a, <1>b, <1>c DEF DesktopInv, StartsAreSingle, RequestsAreSingle,
     AnswersAreSingle, SpawnsAreSingle, IsAnswer, Requests, Frames, Message, TypeOK
<1>6. SlotsInOrder'
  BY <1>0, <1>a, <1>b, <1>c DEF DesktopInv, SlotsInOrder, FirstHasSlot, HasSlot,
     StartersAreQueued, SettlersAreFirst, Spawning, Agent, TypeOK
<1>7. BootIsQuiet'
  BY <1>0, <1>a, <1>b, <1>c DEF DesktopInv, BootIsQuiet, Pending, Entered, Message, TypeOK
<1>8. ListedAreOld'
  BY <1>0, <1>a, <1>b, <1>c DEF DesktopInv, ListedAreOld, Old, Pending, Entered, Frames, TypeOK
<1>9. EntriesAreEarly'
  BY <1>0, <1>a, <1>b, <1>c DEF DesktopInv, EntriesAreEarly, Entered, StartsHaveSessions,
     TypeOK
<1>10. ExitsFollow'
  BY <1>0, <1>a, <1>b, <1>c DEF DesktopInv, ExitsFollow, FramesEnd, ShownEnd, Ends, TypeOK
<1>11. EntriesNameTerminals'
  BY <1>0, <1>a, <1>b DEF DesktopInv, EntriesNameTerminals, EntriesAreEarly, ShownAreOld,
     Old, Pending, Entered, TypeOK
<1>12. AskedAreUnderWay'
  BY <1>0, <1>a, <1>b, <1>c DEF DesktopInv, AskedAreUnderWay, Message, TypeOK
<1> QED BY <1>1, <1>2, <1>3, <1>4, <1>5, <1>6, <1>7, <1>8, <1>9, <1>10, <1>11,
   <1>12 DEF DesktopInv

LEMMA AdoptProcessStep ==
  ASSUME DesktopInv, NEW t \in Terminals, AdoptProcess(t)
  PROVE  DesktopInv'
<1> USE DesktopAssumption DEF AdoptProcess, runtime, starting, slots, booting
<1>0. TypeOK
  BY DEF DesktopInv
<1>1. TypeOK'
  BY <1>0 DEF DesktopInv, TypeOK, Phases, Pending, Entered
<1>2. StartsHaveSessions'
  BY <1>0 DEF DesktopInv, StartsHaveSessions, TypeOK
<1>3. ProcessesAreStarts'
  BY <1>0 DEF DesktopInv, ProcessesAreStarts, Unasked, TypeOK
<1>4. ShownAreOld'
  BY <1>0 DEF DesktopInv, ShownAreOld, Old, Pending, Entered, TypeOK
<1>5. StartsAreSingle'
  BY <1>0 DEF DesktopInv, StartsAreSingle, RequestsAreSingle, AnswersAreSingle,
     SpawnsAreSingle, IsAnswer,
     Requests, Frames, Message, TypeOK
<1>6. SlotsInOrder'
  BY <1>0 DEF DesktopInv, SlotsInOrder, FirstHasSlot, HasSlot, StartersAreQueued,
     SettlersAreFirst, Spawning, Agent, TypeOK
<1>7. BootIsQuiet'
  BY <1>0 DEF DesktopInv, BootIsQuiet, Pending, Entered, Message, TypeOK
<1>8. ListedAreOld'
  BY <1>0 DEF DesktopInv, ListedAreOld, Old, Pending, Entered, Frames, TypeOK
<1>9. EntriesAreEarly'
  BY <1>0 DEF DesktopInv, EntriesAreEarly, Entered, StartsHaveSessions, TypeOK
<1>10. ExitsFollow'
  BY <1>0 DEF DesktopInv, ExitsFollow, FramesEnd, ShownEnd, Ends, TypeOK
<1>11. EntriesNameTerminals'
  BY <1>0 DEF DesktopInv, EntriesNameTerminals, Entered, TypeOK
<1>12. AskedAreUnderWay'
  BY <1>0 DEF DesktopInv, AskedAreUnderWay, Message, TypeOK
<1> QED BY <1>1, <1>2, <1>3, <1>4, <1>5, <1>6, <1>7, <1>8, <1>9, <1>10, <1>11,
   <1>12 DEF DesktopInv

LEMMA AdoptTerminalStep ==
  ASSUME DesktopInv, NEW t \in Terminals, AdoptTerminal(t)
  PROVE  DesktopInv'
<1> USE DesktopAssumption DEF AdoptTerminal, runtime, starting, slots, booting
<1>0. TypeOK
  BY DEF DesktopInv
<1>a. t \in found /\ session[t] \in Sessions /\ boot = "adopting"
      /\ t \in processes \cup missed /\ \A u \in Terminals : call[u] \notin Pending
  BY <1>0 DEF DesktopInv, BootIsQuiet, ShownAreOld, Old, StartsHaveSessions, TypeOK,
     ExitsFollow, ShownEnd
<1>1. TypeOK'
  BY <1>0, <1>a DEF DesktopInv, TypeOK, Phases, Pending, Entered
<1>2. StartsHaveSessions'
  BY <1>0, <1>a DEF DesktopInv, StartsHaveSessions, TypeOK
<1>3. ProcessesAreStarts'
  BY <1>0, <1>a DEF DesktopInv, ProcessesAreStarts, Unasked, TypeOK
<1>4. ShownAreOld'
  BY <1>0, <1>a DEF DesktopInv, ShownAreOld, Old, Pending, Entered, TypeOK
<1>5. StartsAreSingle'
  BY <1>0, <1>a DEF DesktopInv, StartsAreSingle, RequestsAreSingle, AnswersAreSingle,
     SpawnsAreSingle, IsAnswer, Requests, Frames, Message, TypeOK
<1>6. SlotsInOrder'
  BY <1>0, <1>a DEF DesktopInv, SlotsInOrder, FirstHasSlot, HasSlot, StartersAreQueued,
     SettlersAreFirst, Spawning, Agent, TypeOK
<1>7. BootIsQuiet'
  BY <1>0, <1>a DEF DesktopInv, BootIsQuiet, Pending, Entered, Message, TypeOK
<1>8. ListedAreOld'
  BY <1>0, <1>a DEF DesktopInv, ListedAreOld, Old, Pending, Entered, Frames, TypeOK
<1>9. EntriesAreEarly'
  BY <1>0, <1>a DEF DesktopInv, EntriesAreEarly, Pending, TypeOK
<1>10. ExitsFollow'
  BY <1>0, <1>a DEF DesktopInv, ExitsFollow, FramesEnd, ShownEnd, Ends, TypeOK
<1>11. EntriesNameTerminals'
  BY <1>0, <1>a DEF DesktopInv, EntriesNameTerminals, EntriesAreEarly, Pending, TypeOK
<1>12. AskedAreUnderWay'
  BY <1>0, <1>a DEF DesktopInv, AskedAreUnderWay, Message, TypeOK
<1> QED BY <1>1, <1>2, <1>3, <1>4, <1>5, <1>6, <1>7, <1>8, <1>9, <1>10, <1>11,
   <1>12 DEF DesktopInv

LEMMA RehydratedStep ==
  ASSUME DesktopInv, Rehydrated
  PROVE  DesktopInv'
<1> USE DesktopAssumption DEF Rehydrated, runtime, starting, slots, booting
<1>0. TypeOK
  BY DEF DesktopInv
<1>1. TypeOK'
  BY <1>0 DEF DesktopInv, TypeOK, Phases, Pending, Entered
<1>2. StartsHaveSessions'
  BY <1>0 DEF DesktopInv, StartsHaveSessions, TypeOK
<1>3. ProcessesAreStarts'
  BY <1>0 DEF DesktopInv, ProcessesAreStarts, Unasked, TypeOK
<1>4. ShownAreOld'
  BY <1>0 DEF DesktopInv, ShownAreOld, Old, Pending, Entered, TypeOK
<1>5. StartsAreSingle'
  BY <1>0 DEF DesktopInv, StartsAreSingle, RequestsAreSingle, AnswersAreSingle,
     SpawnsAreSingle, IsAnswer,
     Requests, Frames, Message, TypeOK
<1>6. SlotsInOrder'
  BY <1>0 DEF DesktopInv, SlotsInOrder, FirstHasSlot, HasSlot, StartersAreQueued,
     SettlersAreFirst, Spawning, Agent, TypeOK
<1>7. BootIsQuiet'
  BY <1>0 DEF DesktopInv, BootIsQuiet, Pending, Entered, Message, TypeOK
<1>8. ListedAreOld'
  BY <1>0 DEF DesktopInv, ListedAreOld, Old, Pending, Entered, Frames, TypeOK
<1>9. EntriesAreEarly'
  BY <1>0 DEF DesktopInv, EntriesAreEarly, Entered, StartsHaveSessions, TypeOK
<1>10. ExitsFollow'
  BY <1>0 DEF DesktopInv, ExitsFollow, FramesEnd, ShownEnd, Ends, TypeOK
<1>11. EntriesNameTerminals'
  BY <1>0 DEF DesktopInv, EntriesNameTerminals, Entered, TypeOK
<1>12. AskedAreUnderWay'
  BY <1>0 DEF DesktopInv, AskedAreUnderWay, Message, TypeOK
<1> QED BY <1>1, <1>2, <1>3, <1>4, <1>5, <1>6, <1>7, <1>8, <1>9, <1>10, <1>11,
   <1>12 DEF DesktopInv

(* A slot goes to the next start.                                         *)
LEMMA Released ==
  ASSUME TypeOK, StartsHaveSessions, SlotsInOrder, NEW t \in Terminals, session[t] \in Sessions,
         call[t] \in {"refused", "done"}, call'[t] \in {"failed", "done"},
         call' \in [Terminals -> Phases], \A u \in Terminals \ {t} : call'[u] = call[u],
         Agent(t) # None => queue[Agent(t)] # <<>> /\ queue[Agent(t)][1] = t,
         settling' = settling \ {t}, session' = session, Release(t)
  PROVE  SlotsInOrder' /\ queue' \in [Providers -> Seq(Terminals)]
<1>1. CASE Agent(t) = None
  BY <1>1 DEF TypeOK, SlotsInOrder, FirstHasSlot, HasSlot, StartersAreQueued,
     SettlersAreFirst, Spawning, Agent, Release
<1>2. CASE Agent(t) # None
  <2> PICK p \in Providers : p = Agent(t)
    BY <1>2, DesktopAssumption DEF Agent, TypeOK
  <2>1. p \in Providers /\ queue[p] \in Seq(Terminals) /\ queue[p] # <<>> /\ queue[p][1] = t
    BY <1>2, DesktopAssumption DEF Agent, TypeOK
  <2>2. /\ Len(queue[p]) \in Nat \ {0} /\ DOMAIN queue[p] = 1 .. Len(queue[p])
        /\ queue' \in [Providers -> Seq(Terminals)]
        /\ DOMAIN queue'[p] = 1 .. Len(queue[p]) - 1
        /\ \A i \in 1 .. Len(queue[p]) - 1 : queue'[p][i] = queue[p][i + 1]
        /\ \A q \in Providers \ {p} : queue'[q] = queue[q]
    <3>1. queue' = [queue EXCEPT ![p] = Tail(queue[p])]
      BY <1>2 DEF Release
    <3>2. Tail(queue[p]) \in Seq(Terminals)
      BY <2>1, Popped
    <3> QED BY <2>1, <3>1, <3>2, Popped DEF TypeOK
  <2>a. \A i \in DOMAIN queue[p] : i > 1 => queue[p][i] # t
    BY <2>1, <2>2 DEF SlotsInOrder, FirstHasSlot, HasSlot
  <2>b. \A q \in Providers \ {p} : \A i \in DOMAIN queue[q] : queue[q][i] # t
    BY DEF SlotsInOrder, FirstHasSlot, HasSlot
  <2>c. \A q \in Providers : \A i \in DOMAIN queue[q] : queue[q][i] \in Terminals
    BY DEF TypeOK
  <2>3. FirstHasSlot'
    <3>1. ASSUME NEW q \in Providers \ {p}, NEW i \in DOMAIN queue'[q]
          PROVE  HasSlot(q, i)'
      BY <2>2, <2>b, <2>c DEF SlotsInOrder, FirstHasSlot, HasSlot, Agent
    <3>2. ASSUME NEW i \in DOMAIN queue'[p]
          PROVE  HasSlot(p, i)'
      <4>1. i \in 1 .. Len(queue[p]) - 1 /\ i + 1 \in 1 .. Len(queue[p]) /\ i + 1 > 1
        BY <2>2
      <4>2. /\ HasSlot(p, i + 1) /\ queue'[p][i] = queue[p][i + 1]
            /\ queue[p][i + 1] \in Terminals \ {t}
        BY <2>2, <2>a, <2>c, <4>1 DEF SlotsInOrder, FirstHasSlot
      <4>3. call'[queue[p][i + 1]] = call[queue[p][i + 1]]
        BY <4>2
      <4>4. \A j \in DOMAIN queue'[p] : queue'[p][j] = queue'[p][i] => j = i
        <5> SUFFICES ASSUME NEW j \in 1 .. Len(queue[p]) - 1, queue'[p][j] = queue'[p][i]
                     PROVE  j = i
          BY <2>2
        <5>1. j + 1 \in 1 .. Len(queue[p]) /\ queue[p][j + 1] = queue[p][i + 1]
          BY <2>2, <4>2
        <5>2. j + 1 = i + 1
          BY <2>2, <4>2, <5>1 DEF HasSlot
        <5> QED BY <4>1, <5>2
      <4> QED BY <4>1, <4>2, <4>3, <4>4 DEF HasSlot, Agent
    <3> QED BY <3>1, <3>2 DEF FirstHasSlot
  <2>d. \A u \in Terminals : Agent(u)' = Agent(u)
    BY DEF Agent
  <2>4. StartersAreQueued'
    <3>1. ASSUME NEW u \in Terminals, call'[u] = "queued"
          PROVE  Agent(u) # None /\ \E i \in DOMAIN queue'[Agent(u)] : queue'[Agent(u)][i] = u
      <4>1. u # t /\ call[u] = "queued"
        BY <3>1
      <4>2. /\ Agent(u) # None /\ Agent(u) \in Providers
            /\ \E i \in DOMAIN queue[Agent(u)] : queue[Agent(u)][i] = u
        BY <4>1, AgentIsProvided DEF SlotsInOrder, StartersAreQueued
      <4>3. CASE Agent(u) # p
        BY <2>2, <4>2, <4>3
      <4>4. CASE Agent(u) = p
        <5>1. PICK i \in 1 .. Len(queue[p]) : queue[p][i] = u
          BY <2>2, <4>2, <4>4
        <5>2. i - 1 \in 1 .. Len(queue[p]) - 1 /\ queue'[p][i - 1] = u
          <6>1. i # 1
            BY <2>1, <4>1, <5>1
          <6>2. i - 1 \in 1 .. Len(queue[p]) - 1 /\ (i - 1) + 1 = i
            BY <2>2, <6>1
          <6> QED BY <2>2, <5>1, <6>2
        <5> QED BY <2>2, <4>2, <4>4, <5>2
      <4> QED BY <4>3, <4>4
    <3>2. ASSUME NEW u \in Terminals, call'[u] \in Spawning, Agent(u) # None
          PROVE  queue'[Agent(u)] # <<>> /\ queue'[Agent(u)][1] = u
      <4>1. u # t /\ call[u] \in Spawning
        BY <3>2 DEF Spawning
      <4>2. Agent(u) \in Providers /\ queue[Agent(u)] # <<>> /\ queue[Agent(u)][1] = u
        BY <3>2, <4>1, AgentIsProvided DEF SlotsInOrder, StartersAreQueued, Spawning
      <4>3. Agent(u) # p
        BY <2>1, <4>1, <4>2
      <4> QED BY <2>2, <4>2, <4>3
    <3> QED BY <2>d, <3>1, <3>2 DEF StartersAreQueued
  <2>5. SettlersAreFirst'
    <3> SUFFICES ASSUME NEW u \in settling \ {t}
                 PROVE  /\ call'[u] = "done" /\ Agent(u) # None
                        /\ queue'[Agent(u)] # <<>> /\ queue'[Agent(u)][1] = u
      BY <2>d DEF SettlersAreFirst, TypeOK
    <3>1. /\ call[u] = "done" /\ Agent(u) # None /\ Agent(u) \in Providers /\ u \in Terminals
          /\ queue[Agent(u)] # <<>> /\ queue[Agent(u)][1] = u
      BY AgentIsProvided DEF SlotsInOrder, SettlersAreFirst, TypeOK
    <3>2. Agent(u) # p
      BY <2>1, <3>1
    <3> QED BY <2>2, <3>1, <3>2
  <2> QED BY <2>2, <2>3, <2>4, <2>5 DEF SlotsInOrder
<1> QED BY <1>1, <1>2

LEMMA SettleStep ==
  ASSUME DesktopInv, NEW t \in Terminals, Settle(t)
  PROVE  DesktopInv'
<1> USE DesktopAssumption DEF Settle, runtime, starting, slots, booting
<1>0. TypeOK
  BY DEF DesktopInv
<1>a. /\ call[t] = "done" /\ session[t] \in Sessions /\ call' = [call EXCEPT ![t] = "done"]
  BY <1>0 DEF DesktopInv, SlotsInOrder, FirstHasSlot, HasSlot, StartersAreQueued,
     SettlersAreFirst, StartsHaveSessions, TypeOK
<1>b. SlotsInOrder' /\ queue' \in [Providers -> Seq(Terminals)]
  <2>1. /\ call' \in [Terminals -> Phases] /\ call'[t] \in {"failed", "done"}
        /\ \A u \in Terminals \ {t} : call'[u] = call[u]
        /\ StartsHaveSessions /\ SlotsInOrder /\ session' = session /\ settling' = settling \ {t} /\ Release(t)
    BY <1>0, <1>a DEF DesktopInv, TypeOK
  <2>2. Agent(t) # None => queue[Agent(t)] # <<>> /\ queue[Agent(t)][1] = t
    BY DEF DesktopInv, SlotsInOrder, SettlersAreFirst
  <2> QED BY <1>0, <1>a, <2>1, <2>2, Released
<1>1. TypeOK'
  BY <1>0, <1>a, <1>b DEF DesktopInv, TypeOK, Phases, Pending, Entered
<1>2. StartsHaveSessions'
  BY <1>0, <1>a, <1>b DEF DesktopInv, StartsHaveSessions, TypeOK
<1>3. ProcessesAreStarts'
  BY <1>0, <1>a, <1>b DEF DesktopInv, ProcessesAreStarts, Unasked, TypeOK
<1>4. ShownAreOld'
  BY <1>0, <1>a, <1>b DEF DesktopInv, ShownAreOld, Old, Pending, Entered, TypeOK
<1>5. StartsAreSingle'
  BY <1>0, <1>a, <1>b DEF DesktopInv, StartsAreSingle, RequestsAreSingle, AnswersAreSingle,
     SpawnsAreSingle, IsAnswer, Requests, Frames, Message, TypeOK
<1>6. SlotsInOrder'
  BY <1>b
<1>7. BootIsQuiet'
  BY <1>0, <1>a, <1>b DEF DesktopInv, BootIsQuiet, Pending, Entered, Message, TypeOK
<1>8. ListedAreOld'
  BY <1>0, <1>a, <1>b DEF DesktopInv, ListedAreOld, Old, Pending, Entered, Frames, TypeOK
<1>9. EntriesAreEarly'
  BY <1>0, <1>a, <1>b DEF DesktopInv, EntriesAreEarly, Entered, StartsHaveSessions, TypeOK
<1>10. ExitsFollow'
  BY <1>0, <1>a, <1>b DEF DesktopInv, ExitsFollow, FramesEnd, ShownEnd, Ends, TypeOK
<1>11. EntriesNameTerminals'
  BY <1>0, <1>a, <1>b DEF DesktopInv, EntriesNameTerminals, Entered, TypeOK
<1>12. AskedAreUnderWay'
  BY <1>0, <1>a, <1>b DEF DesktopInv, AskedAreUnderWay, Message, TypeOK
<1> QED BY <1>1, <1>2, <1>3, <1>4, <1>5, <1>6, <1>7, <1>8, <1>9, <1>10, <1>11,
   <1>12 DEF DesktopInv

LEMMA FailStep ==
  ASSUME DesktopInv, NEW t \in Terminals, Fail(t)
  PROVE  DesktopInv'
<1> USE DesktopAssumption DEF Fail, Phase, runtime, starting, slots, booting
<1>0. TypeOK
  BY DEF DesktopInv
<1>a. /\ call[t] = "refused" /\ session[t] \in Sessions /\ call' = [call EXCEPT ![t] = "failed"]
      /\ settling' = settling \ {t}
  BY <1>0 DEF DesktopInv, StartsHaveSessions, TypeOK, SlotsInOrder, FirstHasSlot, HasSlot,
     StartersAreQueued, SettlersAreFirst
<1>b. SlotsInOrder' /\ queue' \in [Providers -> Seq(Terminals)]
  <2>1. /\ call' \in [Terminals -> Phases] /\ call'[t] \in {"failed", "done"}
        /\ \A u \in Terminals \ {t} : call'[u] = call[u]
        /\ StartsHaveSessions /\ SlotsInOrder /\ session' = session /\ Release(t)
    BY <1>0, <1>a DEF DesktopInv, TypeOK, Phases
  <2>2. Agent(t) # None => queue[Agent(t)] # <<>> /\ queue[Agent(t)][1] = t
    BY <1>a DEF DesktopInv, SlotsInOrder, StartersAreQueued, Spawning
  <2> QED BY <1>0, <1>a, <2>1, <2>2, Released
<1>1. TypeOK'
  BY <1>0, <1>a, <1>b DEF DesktopInv, TypeOK, Phases, Pending, Entered
<1>2. StartsHaveSessions'
  BY <1>0, <1>a, <1>b DEF DesktopInv, StartsHaveSessions, TypeOK
<1>3. ProcessesAreStarts'
  BY <1>0, <1>a, <1>b DEF DesktopInv, ProcessesAreStarts, Unasked, TypeOK
<1>4. ShownAreOld'
  BY <1>0, <1>a, <1>b DEF DesktopInv, ShownAreOld, Old, Pending, Entered, TypeOK
<1>5. StartsAreSingle'
  BY <1>0, <1>a, <1>b DEF DesktopInv, StartsAreSingle, RequestsAreSingle, AnswersAreSingle,
     SpawnsAreSingle, IsAnswer, Requests, Frames, Message, TypeOK
<1>6. SlotsInOrder'
  BY <1>b
<1>7. BootIsQuiet'
  BY <1>0, <1>a, <1>b DEF DesktopInv, BootIsQuiet, Pending, Entered, Message, TypeOK
<1>8. ListedAreOld'
  BY <1>0, <1>a, <1>b DEF DesktopInv, ListedAreOld, Old, Pending, Entered, Frames, TypeOK
<1>9. EntriesAreEarly'
  BY <1>0, <1>a, <1>b DEF DesktopInv, EntriesAreEarly, Entered, StartsHaveSessions, TypeOK
<1>10. ExitsFollow'
  BY <1>0, <1>a, <1>b DEF DesktopInv, ExitsFollow, FramesEnd, ShownEnd, Ends, TypeOK
<1>11. EntriesNameTerminals'
  BY <1>0, <1>a DEF DesktopInv, EntriesNameTerminals, EntriesAreEarly, ShownAreOld, Old,
     Pending, Entered, TypeOK
<1>12. AskedAreUnderWay'
  BY <1>0, <1>a, <1>b DEF DesktopInv, AskedAreUnderWay, Message, TypeOK
<1> QED BY <1>1, <1>2, <1>3, <1>4, <1>5, <1>6, <1>7, <1>8, <1>9, <1>10, <1>11,
   <1>12 DEF DesktopInv

(* Requests and frames that are added at the end.                          *)
LEMMA RestartStep ==
  ASSUME DesktopInv, NEW t \in Terminals, NEW s \in Sessions, Restart(t, s)
  PROVE  DesktopInv'
<1> USE DesktopAssumption DEF Restart, WaitForExit, Phase, Ready, Send, runtime, starting, slots, booting
<1>0. TypeOK
  BY DEF DesktopInv
<1>a. /\ call' = [call EXCEPT ![t] = "stopping"] /\ session' = [session EXCEPT ![t] = s]
      /\ call[t] = "none" /\ s # None /\ entry[s] \in Terminals /\ Old(entry[s])
      /\ replaces' = [replaces EXCEPT ![t] = entry[s]] /\ boot = "ready"
      /\ Message("stop", entry[s]) \in Requests
      /\ requests' = Append(requests, Message("stop", entry[s]))
  BY <1>0 DEF DesktopInv, StartsHaveSessions, TypeOK, ShownAreOld, Message, Requests
<1>b. t \notin shown /\ t \notin found
  BY <1>0, <1>a DEF DesktopInv, ShownAreOld, Old, Pending, Entered
<1>d. /\ Len(requests) \in Nat /\ DOMAIN requests = 1 .. Len(requests)
      /\ DOMAIN requests' = 1 .. Len(requests) + 1
      /\ \A i \in 1 .. Len(requests) : requests'[i] = requests[i]
      /\ requests'[Len(requests) + 1] = Message("stop", entry[s])
      /\ ToSet(requests') = ToSet(requests) \cup {Message("stop", entry[s])}
  BY <1>0, <1>a, Appended DEF TypeOK
<1>1. TypeOK'
  BY <1>0, <1>a, <1>b, <1>d DEF DesktopInv, TypeOK, Phases, Pending, Entered
<1>2. StartsHaveSessions'
  BY <1>0, <1>a, <1>b, <1>d DEF DesktopInv, StartsHaveSessions, TypeOK
<1>3. ProcessesAreStarts'
  BY <1>0, <1>a, <1>b, <1>d DEF DesktopInv, ProcessesAreStarts, Unasked, TypeOK
<1>4. ShownAreOld'
  BY <1>0, <1>a, <1>b, <1>d DEF DesktopInv, ShownAreOld, Old, Pending, Entered, TypeOK
<1>5. StartsAreSingle'
  BY <1>0, <1>a, <1>b, <1>d DEF DesktopInv, StartsAreSingle, RequestsAreSingle,
     AnswersAreSingle, SpawnsAreSingle, IsAnswer, Requests, Frames, Message, TypeOK
<1>6. SlotsInOrder'
  BY <1>0, <1>a, <1>b, <1>d DEF DesktopInv, SlotsInOrder, FirstHasSlot, HasSlot,
     StartersAreQueued, SettlersAreFirst, Spawning, Agent, TypeOK
<1>7. BootIsQuiet'
  BY <1>0, <1>a, <1>b, <1>d DEF DesktopInv, BootIsQuiet, Pending, Entered, Message, TypeOK
<1>8. ListedAreOld'
  <2>1. ASSUME NEW i \in DOMAIN frames, frames[i].kind = "listed", NEW u \in frames[i].terminal
        PROVE  u \in Terminals \ {t} /\ Old(u)
    <3>1. u \in Terminals
      BY <1>0, <2>1, FrameTerminals
    <3>2. Old(u)
      BY <2>1 DEF DesktopInv, ListedAreOld
    <3> QED BY <1>a, <3>1, <3>2 DEF Old
  <2> QED BY <1>0, <1>a, <2>1 DEF ListedAreOld, Old, TypeOK
<1>9. EntriesAreEarly'
  BY <1>0, <1>a, <1>b, <1>d DEF DesktopInv, EntriesAreEarly, Entered, StartsHaveSessions,
     TypeOK
<1>10. ExitsFollow'
  BY <1>0, <1>a, <1>b, <1>d DEF DesktopInv, ExitsFollow, FramesEnd, ShownEnd, Ends, TypeOK
<1>11. EntriesNameTerminals'
  BY <1>0, <1>a, <1>b, <1>d DEF DesktopInv, EntriesNameTerminals, Entered, TypeOK
<1>12. AskedAreUnderWay'
  BY <1>0, <1>a, <1>b, <1>d DEF DesktopInv, AskedAreUnderWay, Message, TypeOK
<1> QED BY <1>1, <1>2, <1>3, <1>4, <1>5, <1>6, <1>7, <1>8, <1>9, <1>10, <1>11,
   <1>12 DEF DesktopInv

LEMMA StopStep ==
  ASSUME DesktopInv, NEW t \in Terminals, Stop(t)
  PROVE  DesktopInv'
<1> USE DesktopAssumption DEF Stop, Ready, Send, runtime, starting, slots, booting
<1>0. TypeOK
  BY DEF DesktopInv
<1>a. /\ Message("stop", t) \in Requests /\ boot = "ready"
      /\ requests' = Append(requests, Message("stop", t))
  BY <1>0 DEF DesktopInv, StartsHaveSessions, TypeOK, Message, Requests
<1>d. /\ Len(requests) \in Nat /\ DOMAIN requests = 1 .. Len(requests)
      /\ DOMAIN requests' = 1 .. Len(requests) + 1
      /\ \A i \in 1 .. Len(requests) : requests'[i] = requests[i]
      /\ requests'[Len(requests) + 1] = Message("stop", t)
      /\ ToSet(requests') = ToSet(requests) \cup {Message("stop", t)}
  BY <1>0, <1>a, Appended DEF TypeOK
<1>1. TypeOK'
  BY <1>0, <1>a, <1>d DEF DesktopInv, TypeOK, Phases, Pending, Entered
<1>2. StartsHaveSessions'
  BY <1>0, <1>a, <1>d DEF DesktopInv, StartsHaveSessions, TypeOK
<1>3. ProcessesAreStarts'
  BY <1>0, <1>a, <1>d DEF DesktopInv, ProcessesAreStarts, Unasked, TypeOK
<1>4. ShownAreOld'
  BY <1>0, <1>a, <1>d DEF DesktopInv, ShownAreOld, Old, Pending, Entered, TypeOK
<1>5. StartsAreSingle'
  BY <1>0, <1>a, <1>d DEF DesktopInv, StartsAreSingle, RequestsAreSingle, AnswersAreSingle,
     SpawnsAreSingle, IsAnswer, Requests, Frames, Message, TypeOK
<1>6. SlotsInOrder'
  BY <1>0, <1>a, <1>d DEF DesktopInv, SlotsInOrder, FirstHasSlot, HasSlot,
     StartersAreQueued, SettlersAreFirst, Spawning, Agent, TypeOK
<1>7. BootIsQuiet'
  BY <1>0, <1>a, <1>d DEF DesktopInv, BootIsQuiet, Pending, Entered, Message, TypeOK
<1>8. ListedAreOld'
  BY <1>0, <1>a, <1>d DEF DesktopInv, ListedAreOld, Old, Pending, Entered, Frames, TypeOK
<1>9. EntriesAreEarly'
  BY <1>0, <1>a, <1>d DEF DesktopInv, EntriesAreEarly, Entered, StartsHaveSessions, TypeOK
<1>10. ExitsFollow'
  BY <1>0, <1>a, <1>d DEF DesktopInv, ExitsFollow, FramesEnd, ShownEnd, Ends, TypeOK
<1>11. EntriesNameTerminals'
  BY <1>0, <1>a, <1>d DEF DesktopInv, EntriesNameTerminals, Entered, TypeOK
<1>12. AskedAreUnderWay'
  BY <1>0, <1>a, <1>d DEF DesktopInv, AskedAreUnderWay, Message, TypeOK
<1> QED BY <1>1, <1>2, <1>3, <1>4, <1>5, <1>6, <1>7, <1>8, <1>9, <1>10, <1>11,
   <1>12 DEF DesktopInv

LEMMA StopTimerStep ==
  ASSUME DesktopInv, NEW t \in Terminals, StopTimer(t)
  PROVE  DesktopInv'
<1> USE DesktopAssumption DEF StopTimer, Phase, Send, runtime, starting, slots, booting
<1>0. TypeOK
  BY DEF DesktopInv
<1>a. /\ call[t] = "stopping" /\ call' = [call EXCEPT ![t] = "lapsed"] /\ session[t] \in Sessions
      /\ replaces[t] \in Terminals /\ boot = "ready"
      /\ Message("stop", replaces[t]) \in Requests
      /\ requests' = Append(requests, Message("stop", replaces[t]))
  BY <1>0 DEF DesktopInv, StartsHaveSessions, TypeOK, ShownAreOld, Message, Requests,
     BootIsQuiet, Pending
<1>b. t \notin shown /\ t \notin found
  BY <1>a, <1>0 DEF DesktopInv, ShownAreOld, Old, Pending, Entered
<1>d. /\ Len(requests) \in Nat /\ DOMAIN requests = 1 .. Len(requests)
      /\ DOMAIN requests' = 1 .. Len(requests) + 1
      /\ \A i \in 1 .. Len(requests) : requests'[i] = requests[i]
      /\ requests'[Len(requests) + 1] = Message("stop", replaces[t])
      /\ ToSet(requests') = ToSet(requests) \cup {Message("stop", replaces[t])}
  BY <1>0, <1>a, Appended DEF TypeOK
<1>1. TypeOK'
  BY <1>0, <1>a, <1>b, <1>d DEF DesktopInv, TypeOK, Phases, Pending, Entered
<1>2. StartsHaveSessions'
  BY <1>0, <1>a, <1>b, <1>d DEF DesktopInv, StartsHaveSessions, TypeOK
<1>3. ProcessesAreStarts'
  BY <1>0, <1>a, <1>b, <1>d DEF DesktopInv, ProcessesAreStarts, Unasked, TypeOK
<1>4. ShownAreOld'
  BY <1>0, <1>a, <1>b, <1>d DEF DesktopInv, ShownAreOld, Old, Pending, Entered, TypeOK
<1>5. StartsAreSingle'
  BY <1>0, <1>a, <1>b, <1>d DEF DesktopInv, StartsAreSingle, RequestsAreSingle,
     AnswersAreSingle, SpawnsAreSingle, IsAnswer, Requests, Frames, Message, TypeOK
<1>6. SlotsInOrder'
  BY <1>0, <1>a, <1>b, <1>d DEF DesktopInv, SlotsInOrder, FirstHasSlot, HasSlot,
     StartersAreQueued, SettlersAreFirst, Spawning, Agent, TypeOK
<1>7. BootIsQuiet'
  BY <1>0, <1>a, <1>b, <1>d DEF DesktopInv, BootIsQuiet, Pending, Entered, Message, TypeOK
<1>8. ListedAreOld'
  BY <1>0, <1>a, <1>b, <1>d DEF DesktopInv, ListedAreOld, Old, Pending, Entered, Frames, TypeOK
<1>9. EntriesAreEarly'
  BY <1>0, <1>a, <1>b, <1>d DEF DesktopInv, EntriesAreEarly, Entered, StartsHaveSessions,
     TypeOK
<1>10. ExitsFollow'
  BY <1>0, <1>a, <1>b, <1>d DEF DesktopInv, ExitsFollow, FramesEnd, ShownEnd, Ends, TypeOK
<1>11. EntriesNameTerminals'
  BY <1>0, <1>a, <1>b, <1>d DEF DesktopInv, EntriesNameTerminals, Entered, TypeOK
<1>12. AskedAreUnderWay'
  BY <1>0, <1>a, <1>b, <1>d DEF DesktopInv, AskedAreUnderWay, Message, TypeOK
<1> QED BY <1>1, <1>2, <1>3, <1>4, <1>5, <1>6, <1>7, <1>8, <1>9, <1>10, <1>11,
   <1>12 DEF DesktopInv

LEMMA ProcessEndsStep ==
  ASSUME DesktopInv, NEW t \in Terminals, ProcessEnds(t)
  PROVE  DesktopInv'
<1> USE DesktopAssumption DEF ProcessEnds, Reply, Running, runtime, starting, slots, booting
<1>0. TypeOK
  BY DEF DesktopInv
<1>a. /\ process[t] = "running" /\ process' = [process EXCEPT ![t] = "ended"]
      /\ Message("exit", t) \in Frames /\ frames' = Append(frames, Message("exit", t))
  BY DEF ProcessEnds, Reply, Running, Message, Frames
<1>d. /\ Len(frames) \in Nat /\ DOMAIN frames = 1 .. Len(frames)
      /\ DOMAIN frames' = 1 .. Len(frames) + 1
      /\ \A i \in 1 .. Len(frames) : frames'[i] = frames[i]
      /\ frames'[Len(frames) + 1] = Message("exit", t)
      /\ ToSet(frames') = ToSet(frames) \cup {Message("exit", t)}
  BY <1>0, <1>a, Appended DEF TypeOK
<1>1. TypeOK'
  BY <1>0, <1>a, <1>d DEF DesktopInv, TypeOK, Phases, Pending, Entered
<1>2. StartsHaveSessions'
  BY <1>0, <1>a, <1>d DEF DesktopInv, StartsHaveSessions, TypeOK
<1>b. \A u \in Terminals : process'[u] # "none" <=> process[u] # "none"
  BY <1>0, <1>a DEF TypeOK
<1>3. ProcessesAreStarts'
  <2>1. /\ \A u \in Terminals : process'[u] # "none" => call[u] \notin Unasked
        /\ ProcessesAreStarts
    BY <1>b DEF DesktopInv, ProcessesAreStarts
  <2>2. Message("exit", t).terminal = t
    BY DEF Message
  <2> QED BY <1>0, <1>a, <1>b, <2>1, <2>2, ProcessesAreStartsPushed
<1>4. ShownAreOld'
  BY <1>0, <1>a, <1>d DEF DesktopInv, ShownAreOld, Old, Pending, Entered, TypeOK
<1>5. StartsAreSingle'
  BY <1>0, <1>a, <1>d DEF DesktopInv, StartsAreSingle, RequestsAreSingle, AnswersAreSingle,
     SpawnsAreSingle, IsAnswer, Requests, Frames, Message, TypeOK
<1>6. SlotsInOrder'
  BY <1>0, <1>a, <1>d DEF DesktopInv, SlotsInOrder, FirstHasSlot, HasSlot,
     StartersAreQueued, SettlersAreFirst, Spawning, Agent, TypeOK
<1>7. BootIsQuiet'
  BY <1>0, <1>a, <1>d DEF DesktopInv, BootIsQuiet, Pending, Entered, Message, TypeOK
<1>8. ListedAreOld'
  <2>1. Message("exit", t).kind # "listed" /\ ListedAreOld
    BY DEF Message, DesktopInv
  <2> QED BY <1>0, <1>a, <1>b, <2>1, ListedAreOldPushed
<1>9. EntriesAreEarly'
  BY <1>0, <1>a, <1>d DEF DesktopInv, EntriesAreEarly, Entered, StartsHaveSessions, TypeOK
<1>10. ExitsFollow'
  <2>1. \A u \in Terminals : process[u] = "running" =>
          process'[u] = "running" \/ Message("exit", t) = Message("exit", u)
    BY <1>0, <1>a DEF TypeOK
  <2>2. Message("exit", t).kind \notin {"started", "listed"} /\ ExitsFollow
    BY DEF Message, DesktopInv
  <2> QED BY <1>0, <1>a, <2>1, <2>2, ExitsFollowPushed
<1>11. EntriesNameTerminals'
  BY <1>0, <1>a, <1>d DEF DesktopInv, EntriesNameTerminals, Entered, TypeOK
<1>12. AskedAreUnderWay'
  BY <1>0, <1>a, <1>d DEF DesktopInv, AskedAreUnderWay, Message, TypeOK
<1> QED BY <1>1, <1>2, <1>3, <1>4, <1>5, <1>6, <1>7, <1>8, <1>9, <1>10, <1>11,
   <1>12 DEF DesktopInv
(* The Runtime takes a request from the front.                             *)
LEMMA StartTaken ==
  ASSUME DesktopInv, NEW t \in Terminals, requests # <<>>,
         Head(requests) = Message("start", t), requests' = Tail(requests)
  PROVE  /\ call[t] = "asked" /\ boot = "ready" /\ process[t] = "none" /\ t \notin spawning
         /\ \A i \in DOMAIN frames : IsAnswer(frames[i]) => frames[i].terminal # t
         /\ requests' \in Seq(Requests)
         /\ ToSet(requests) = ToSet(requests') \cup {Message("start", t)}
         /\ \A i \in DOMAIN requests' :
              requests'[i] = requests[i + 1] /\ i + 1 \in DOMAIN requests
         /\ \A i \in DOMAIN requests' : requests'[i].kind = "start" =>
              /\ requests'[i].terminal \in Terminals \ {t}
              /\ \A j \in DOMAIN requests' : requests'[j] = requests'[i] => j = i
<1>0. TypeOK
  BY DEF DesktopInv
<1>b. /\ Len(requests) \in Nat \ {0} /\ DOMAIN requests = 1 .. Len(requests)
      /\ DOMAIN requests' = 1 .. Len(requests) - 1
      /\ \A i \in 1 .. Len(requests) - 1 :
           i + 1 \in 1 .. Len(requests) /\ requests'[i] = requests[i + 1]
      /\ Head(requests) = requests[1] /\ ToSet(requests) = ToSet(requests') \cup {requests[1]}
      /\ requests' \in Seq(Requests)
  BY <1>0, Popped DEF TypeOK
<1>t. \A i \in DOMAIN requests : requests[i] \in Requests
  BY <1>0 DEF TypeOK
<1>d. /\ call[t] = "asked" /\ process[t] = "none" /\ t \notin spawning /\ boot = "ready"
      /\ requests[1].kind = "start" /\ requests[1].terminal = t
      /\ \A i \in DOMAIN frames : IsAnswer(frames[i]) => frames[i].terminal # t
  <2>1. requests[1].kind = "start" /\ requests[1].terminal = t /\ 1 \in DOMAIN requests
    BY <1>b DEF Message
  <2>2. /\ call[t] = "asked" /\ process[t] = "none" /\ t \notin spawning
        /\ \A i \in DOMAIN frames : IsAnswer(frames[i]) => frames[i].terminal # t
    BY <2>1 DEF DesktopInv, StartsAreSingle, RequestsAreSingle, SpawnsAreSingle
  <2> QED BY <2>1, <2>2 DEF DesktopInv, BootIsQuiet, Pending, Entered
<1>1. ASSUME NEW i \in DOMAIN requests', requests'[i].kind = "start"
      PROVE  requests'[i].terminal \in Terminals \ {t}
  <2>1. requests'[i] = requests[i + 1] /\ i + 1 \in DOMAIN requests /\ i + 1 # 1
        /\ 1 \in DOMAIN requests
    BY <1>b
  <2>2. requests[i + 1].terminal \in Terminals
    BY <1>t, <1>1, <2>1 DEF Requests
  <2>3. requests[i + 1] # requests[1]
    BY <1>d, <2>1 DEF DesktopInv, StartsAreSingle, RequestsAreSingle
  <2>4. \A r \in Requests : r.kind = "start" => r = Message("start", r.terminal)
    BY DEF Requests, Message
  <2>5. requests[i + 1] \in Requests /\ requests[1] \in Requests
    BY <1>t, <2>1
  <2> QED BY <1>d, <1>1, <2>1, <2>2, <2>3, <2>4, <2>5
<1>2. ASSUME NEW i \in DOMAIN requests', requests'[i].kind = "start",
             NEW j \in DOMAIN requests', requests'[j] = requests'[i]
      PROVE  j = i
  <2>1. /\ requests[i + 1] = requests[j + 1] /\ requests[i + 1].kind = "start"
        /\ i + 1 \in DOMAIN requests /\ j + 1 \in DOMAIN requests /\ i \in Nat /\ j \in Nat
    BY <1>b, <1>2
  <2>2. j + 1 = i + 1
    BY <2>1 DEF DesktopInv, StartsAreSingle, RequestsAreSingle
  <2> QED BY <2>1, <2>2
<1> QED BY <1>b, <1>d, <1>1, <1>2

LEMMA RefusedStep ==
  ASSUME DesktopInv, NEW t \in Terminals, requests # <<>>,
         Head(requests) = Message("start", t), requests' = Tail(requests),
         frames' = Append(frames, Message("refused", t)),
         UNCHANGED <<runtime, starting, entry, shown, processes, slots, booting, missed,
                     overwritten>>
  PROVE  DesktopInv'
<1> USE DesktopAssumption DEF runtime, starting, slots, booting
<1>0. TypeOK
  BY DEF DesktopInv
<1>a. Message("refused", t) \in Frames
  BY DEF Message, Frames
<1>b. /\ call[t] = "asked" /\ boot = "ready" /\ process[t] = "none" /\ t \notin spawning
      /\ \A i \in DOMAIN frames : IsAnswer(frames[i]) => frames[i].terminal # t
      /\ requests' \in Seq(Requests)
      /\ ToSet(requests) = ToSet(requests') \cup {Message("start", t)}
      /\ \A i \in DOMAIN requests' : requests'[i] = requests[i + 1] /\ i + 1 \in DOMAIN requests
      /\ \A i \in DOMAIN requests' : requests'[i].kind = "start" =>
           /\ requests'[i].terminal \in Terminals \ {t}
           /\ \A j \in DOMAIN requests' : requests'[j] = requests'[i] => j = i
  BY StartTaken
<1>c. /\ Len(frames) \in Nat /\ DOMAIN frames = 1 .. Len(frames)
      /\ DOMAIN frames' = 1 .. Len(frames) + 1 /\ frames' \in Seq(Frames)
      /\ \A i \in 1 .. Len(frames) : frames'[i] = frames[i]
      /\ frames'[Len(frames) + 1] = Message("refused", t)
      /\ ToSet(frames') = ToSet(frames) \cup {Message("refused", t)}
  BY <1>0, <1>a, Appended DEF TypeOK
<1>t. /\ \A i \in DOMAIN requests : requests[i] \in Requests
      /\ \A i \in DOMAIN frames : frames[i] \in Frames
  BY <1>0 DEF TypeOK
<1>1. TypeOK'
  BY <1>0, <1>b, <1>c DEF TypeOK
<1>2. StartsHaveSessions'
  BY <1>0, <1>a, <1>b, <1>c, <1>t DEF DesktopInv, StartsHaveSessions, TypeOK
<1>3. ProcessesAreStarts'
  <2>1. /\ \A u \in Terminals : process'[u] # "none" => call[u] \notin Unasked
        /\ ProcessesAreStarts
    BY DEF DesktopInv, ProcessesAreStarts, Unasked
  <2>2. Message("refused", t).terminal = t /\ Message("refused", t).kind = "refused"
    BY DEF Message
  <2> QED BY <1>0, <1>a, <2>1, <2>2, ProcessesAreStartsPushed
<1>4. ShownAreOld'
  BY <1>0, <1>a, <1>b, <1>c, <1>t DEF DesktopInv, ShownAreOld, Old, Pending, Entered, TypeOK
<1>5. StartsAreSingle'
  <2>1. RequestsAreSingle /\ AnswersAreSingle /\ SpawnsAreSingle
    BY DEF DesktopInv, StartsAreSingle
  <2>2. RequestsAreSingle'
    BY <1>b, <1>c, <2>1 DEF RequestsAreSingle, IsAnswer, Message
  <2>3. AnswersAreSingle'
    BY <1>b, <1>c, <2>1 DEF AnswersAreSingle, IsAnswer, Message
  <2>4. SpawnsAreSingle'
    BY <1>b, <1>c, <2>1 DEF SpawnsAreSingle, IsAnswer, Message
  <2> QED BY <2>2, <2>3, <2>4 DEF StartsAreSingle
<1>6. SlotsInOrder'
  BY <1>0, <1>a, <1>b, <1>c, <1>t DEF DesktopInv, SlotsInOrder, FirstHasSlot, HasSlot,
     StartersAreQueued, SettlersAreFirst, Spawning, Agent, TypeOK
<1>7. BootIsQuiet'
  BY <1>0, <1>a, <1>b, <1>c, <1>t DEF DesktopInv, BootIsQuiet, Pending, Entered, Message, TypeOK
<1>8. ListedAreOld'
  <2>1. Message("refused", t).kind # "listed" /\ ListedAreOld
    BY DEF Message, DesktopInv
  <2> QED BY <1>0, <1>a, <2>1, ListedAreOldPushed
<1>9. EntriesAreEarly'
  BY <1>0, <1>a, <1>b, <1>c, <1>t DEF DesktopInv, EntriesAreEarly, Entered, StartsHaveSessions,
     TypeOK
<1>10. ExitsFollow'
  <2>1. /\ Message("refused", t).kind = "refused" /\ Message("refused", t).terminal = t
        /\ ExitsFollow
    BY DEF Message, DesktopInv
  <2> QED BY <1>0, <1>a, <2>1, ExitsFollowPushed
<1>11. EntriesNameTerminals'
  BY <1>0, <1>a, <1>b, <1>c, <1>t DEF DesktopInv, EntriesNameTerminals, Entered, TypeOK
<1>12. AskedAreUnderWay'
  BY <1>0, <1>a, <1>b, <1>c, <1>t DEF DesktopInv, AskedAreUnderWay, Message, TypeOK
<1> QED BY <1>1, <1>2, <1>3, <1>4, <1>5, <1>6, <1>7, <1>8, <1>9, <1>10, <1>11,
   <1>12 DEF DesktopInv

LEMMA SpawnBegunStep ==
  ASSUME DesktopInv, NEW t \in Terminals, requests # <<>>,
         Head(requests) = Message("start", t), requests' = Tail(requests),
         spawning' = spawning \cup {t},
         UNCHANGED <<process, killed, bySession, frames, starting, entry, shown, processes,
                     slots, booting, missed, overwritten>>
  PROVE  DesktopInv'
<1> USE DesktopAssumption DEF runtime, starting, slots, booting
<1>0. TypeOK
  BY DEF DesktopInv
<1>b. /\ call[t] = "asked" /\ boot = "ready" /\ process[t] = "none"
      /\ \A i \in DOMAIN frames : IsAnswer(frames[i]) => frames[i].terminal # t
      /\ requests' \in Seq(Requests)
      /\ ToSet(requests) = ToSet(requests') \cup {Message("start", t)}
      /\ \A i \in DOMAIN requests' : requests'[i] = requests[i + 1] /\ i + 1 \in DOMAIN requests
      /\ \A i \in DOMAIN requests' : requests'[i].kind = "start" =>
           /\ requests'[i].terminal \in Terminals \ {t}
           /\ \A j \in DOMAIN requests' : requests'[j] = requests'[i] => j = i
  BY StartTaken
<1>t. /\ \A i \in DOMAIN requests : requests[i] \in Requests
      /\ \A i \in DOMAIN frames : frames[i] \in Frames
  BY <1>0 DEF TypeOK
<1>1. TypeOK'
  BY <1>0, <1>b DEF TypeOK
<1>2. StartsHaveSessions'
  BY <1>0, <1>b, <1>t DEF DesktopInv, StartsHaveSessions, TypeOK
<1>3. ProcessesAreStarts'
  BY DEF DesktopInv, ProcessesAreStarts
<1>4. ShownAreOld'
  BY <1>0, <1>b, <1>t DEF DesktopInv, ShownAreOld, Old, Pending, Entered, TypeOK
<1>5. StartsAreSingle'
  <2>1. RequestsAreSingle /\ AnswersAreSingle /\ SpawnsAreSingle
    BY DEF DesktopInv, StartsAreSingle
  <2>2. RequestsAreSingle'
    BY <1>b, <2>1 DEF RequestsAreSingle, IsAnswer
  <2>3. AnswersAreSingle'
    BY <2>1 DEF AnswersAreSingle, IsAnswer
  <2>4. SpawnsAreSingle'
    BY <1>b, <2>1 DEF SpawnsAreSingle, IsAnswer
  <2> QED BY <2>2, <2>3, <2>4 DEF StartsAreSingle
<1>6. SlotsInOrder'
  BY <1>0, <1>b, <1>t DEF DesktopInv, SlotsInOrder, FirstHasSlot, HasSlot,
     StartersAreQueued, SettlersAreFirst, Spawning, Agent, TypeOK
<1>7. BootIsQuiet'
  BY <1>0, <1>b, <1>t DEF DesktopInv, BootIsQuiet, Pending, Entered, Message, TypeOK
<1>8. ListedAreOld'
  BY DEF DesktopInv, ListedAreOld, Old
<1>9. EntriesAreEarly'
  BY <1>0, <1>b, <1>t DEF DesktopInv, EntriesAreEarly, Entered, StartsHaveSessions,
     TypeOK
<1>10. ExitsFollow'
  BY DEF DesktopInv, ExitsFollow, FramesEnd, ShownEnd, Ends
<1>11. EntriesNameTerminals'
  BY <1>0, <1>b, <1>t DEF DesktopInv, EntriesNameTerminals, Entered, TypeOK
<1>12. AskedAreUnderWay'
  BY <1>0, <1>b, <1>t DEF DesktopInv, AskedAreUnderWay, Message, TypeOK
<1> QED BY <1>1, <1>2, <1>3, <1>4, <1>5, <1>6, <1>7, <1>8, <1>9, <1>10, <1>11,
   <1>12 DEF DesktopInv

(* The end of a spawn, with the answer or with nobody to answer.           *)
LEMMA SpawnAnsweredStep ==
  ASSUME DesktopInv, NEW t \in spawning, NEW kind \in {"started", "refused"},
         call[t] = "asked", spawning' = spawning \ {t},
         frames' = Append(frames, Message(kind, t)),
         process' = IF kind = "started" THEN [process EXCEPT ![t] = "running"] ELSE process,
         bySession' \subseteq Sessions,
         UNCHANGED <<killed, requests, starting, entry, shown, processes, slots, booting,
                     missed, overwritten>>
  PROVE  DesktopInv'
<1> USE DesktopAssumption DEF runtime, starting, slots, booting
<1>0. TypeOK
  BY DEF DesktopInv
<1>a. /\ t \in Terminals /\ Message(kind, t) \in Frames
      /\ Message(kind, t).kind = kind /\ Message(kind, t).terminal = t
  BY <1>0 DEF Message, Frames, TypeOK
<1>b. /\ process[t] = "none"
      /\ \A i \in DOMAIN requests : requests[i].kind = "start" => requests[i].terminal # t
      /\ \A i \in DOMAIN frames : IsAnswer(frames[i]) => frames[i].terminal # t
  BY DEF DesktopInv, StartsAreSingle, SpawnsAreSingle
<1>c. /\ Len(frames) \in Nat /\ DOMAIN frames = 1 .. Len(frames)
      /\ DOMAIN frames' = 1 .. Len(frames) + 1 /\ frames' \in Seq(Frames)
      /\ \A i \in 1 .. Len(frames) : frames'[i] = frames[i]
      /\ frames'[Len(frames) + 1] = Message(kind, t)
      /\ ToSet(frames') = ToSet(frames) \cup {Message(kind, t)}
  BY <1>0, <1>a, Appended DEF TypeOK
<1>e. /\ \A u \in Terminals \ {t} : process'[u] = process[u]
      /\ kind = "started" => process'[t] = "running"
      /\ process' \in [Terminals -> {"none", "running", "ended"}]
  BY <1>0, <1>a DEF TypeOK
<1>1. TypeOK'
  BY <1>0, <1>c, <1>e DEF TypeOK
<1>2. StartsHaveSessions'
  BY <1>0, <1>a, <1>b, <1>c, <1>e DEF DesktopInv, StartsHaveSessions, TypeOK
<1>3. ProcessesAreStarts'
  <2>1. /\ \A u \in Terminals : process'[u] # "none" => call[u] \notin Unasked
        /\ \A u \in Terminals : process[u] # "none" => process'[u] # "none"
        /\ ProcessesAreStarts
    BY <1>b, <1>e DEF DesktopInv, ProcessesAreStarts, Unasked
  <2> QED BY <1>0, <1>a, <1>e, <2>1, ProcessesAreStartsPushed
<1>4. ShownAreOld'
  BY <1>0, <1>a, <1>b, <1>c, <1>e DEF DesktopInv, ShownAreOld, Old, Pending, Entered, TypeOK
<1>5. StartsAreSingle'
  <2>1. /\ RequestsAreSingle /\ AnswersAreSingle /\ SpawnsAreSingle
        /\ \A i \in DOMAIN requests : requests[i].kind = "start" => requests[i].terminal \in Terminals
    BY <1>0 DEF DesktopInv, StartsAreSingle, TypeOK, Requests
  <2>2. RequestsAreSingle'
    BY <1>a, <1>b, <1>c, <1>e, <2>1 DEF RequestsAreSingle, IsAnswer
  <2>3. AnswersAreSingle'
    BY <1>a, <1>b, <1>c, <2>1 DEF AnswersAreSingle, IsAnswer
  <2>4. SpawnsAreSingle'
    BY <1>0, <1>a, <1>c, <1>e, <2>1 DEF SpawnsAreSingle, IsAnswer, TypeOK
  <2> QED BY <2>2, <2>3, <2>4 DEF StartsAreSingle
<1>6. SlotsInOrder'
  BY <1>0, <1>a, <1>b, <1>c, <1>e DEF DesktopInv, SlotsInOrder, FirstHasSlot, HasSlot,
     StartersAreQueued, SettlersAreFirst, Spawning, Agent, TypeOK
<1>7. BootIsQuiet'
  <2>1. boot = "ready"
    BY <1>a DEF DesktopInv, BootIsQuiet, Pending, Entered
  <2> QED BY <1>a, <1>c, <2>1 DEF DesktopInv, BootIsQuiet
<1>8. ListedAreOld'
  <2>1. ListedAreOld /\ \A u \in Terminals : process[u] # "none" => process'[u] # "none"
    BY <1>b, <1>e DEF DesktopInv
  <2> QED BY <1>0, <1>a, <2>1, ListedAreOldPushed
<1>9. EntriesAreEarly'
  BY <1>0, <1>a, <1>b, <1>c, <1>e DEF DesktopInv, EntriesAreEarly, Entered, StartsHaveSessions,
     TypeOK
<1>10. ExitsFollow'
  <2>1. ExitsFollow /\ \A u \in Terminals : process[u] = "running" => process'[u] = "running"
    BY <1>b, <1>e DEF DesktopInv
  <2> QED BY <1>0, <1>a, <1>e, <2>1, ExitsFollowPushed
<1>11. EntriesNameTerminals'
  BY <1>0, <1>a, <1>b, <1>c, <1>e DEF DesktopInv, EntriesNameTerminals, Entered, TypeOK
<1>12. AskedAreUnderWay'
  BY <1>0, <1>a, <1>b, <1>c, <1>e DEF DesktopInv, AskedAreUnderWay, Message, TypeOK
<1> QED BY <1>1, <1>2, <1>3, <1>4, <1>5, <1>6, <1>7, <1>8, <1>9, <1>10, <1>11,
   <1>12 DEF DesktopInv

LEMMA SpawnForgottenStep ==
  ASSUME DesktopInv, NEW t \in spawning, call[t] # "asked", spawning' = spawning \ {t},
         process' = process \/ process' = [process EXCEPT ![t] = "running"],
         bySession' \subseteq Sessions,
         UNCHANGED <<killed, requests, frames, starting, entry, shown, processes, slots,
                     booting, missed, overwritten>>
  PROVE  DesktopInv'
<1> USE DesktopAssumption DEF runtime, starting, slots, booting
<1>0. TypeOK
  BY DEF DesktopInv
<1>a. t \in Terminals /\ call[t] = "failed" /\ process[t] = "none"
  BY <1>0 DEF DesktopInv, StartsAreSingle, SpawnsAreSingle, TypeOK
<1>b. /\ \A u \in Terminals \ {t} : process'[u] = process[u]
      /\ process'[t] \in {"none", "running"}
      /\ process' \in [Terminals -> {"none", "running", "ended"}]
  BY <1>0, <1>a DEF TypeOK
<1>c. \A u \in Terminals : /\ process[u] # "none" => process'[u] # "none"
                           /\ process[u] = "running" => process'[u] = "running"
  BY <1>a, <1>b
<1>f. frames' = frames
  OBVIOUS
<1>t. \A i \in DOMAIN frames : frames[i] \in Frames
  BY <1>0 DEF TypeOK
<1>1. TypeOK'
  BY <1>0, <1>b DEF TypeOK
<1>2. StartsHaveSessions'
  BY <1>0, <1>a, <1>b DEF DesktopInv, StartsHaveSessions, TypeOK
<1>3. ProcessesAreStarts'
  <2>1. ProcessesAreStarts
    BY DEF DesktopInv
  <2>2. \A i \in DOMAIN frames : frames[i].kind \in {"started", "exit"} =>
          frames[i].terminal \in Terminals
    BY <1>t DEF Frames
  <2> QED BY <1>a, <1>b, <1>c, <2>1, <2>2 DEF ProcessesAreStarts, Unasked
<1>4. ShownAreOld'
  BY <1>0, <1>c DEF DesktopInv, ShownAreOld, Old, TypeOK
<1>5. StartsAreSingle'
  <2>1. /\ RequestsAreSingle /\ AnswersAreSingle /\ SpawnsAreSingle
        /\ \A i \in DOMAIN requests : requests[i].kind = "start" =>
             requests[i].terminal \in Terminals \ {t}
    BY <1>0 DEF DesktopInv, StartsAreSingle, SpawnsAreSingle, TypeOK, Requests
  <2>2. RequestsAreSingle'
    BY <1>b, <2>1 DEF RequestsAreSingle, IsAnswer
  <2>3. AnswersAreSingle'
    BY <2>1 DEF AnswersAreSingle, IsAnswer
  <2>4. SpawnsAreSingle'
    BY <1>0, <1>b, <2>1 DEF SpawnsAreSingle, IsAnswer, TypeOK
  <2> QED BY <2>2, <2>3, <2>4 DEF StartsAreSingle
<1>6. SlotsInOrder'
  BY <1>0, <1>a, <1>b DEF DesktopInv, SlotsInOrder, FirstHasSlot, HasSlot,
     StartersAreQueued, SettlersAreFirst, Spawning, Agent, TypeOK
<1>7. BootIsQuiet'
  BY DEF DesktopInv, BootIsQuiet
<1>8. ListedAreOld'
  <2>1. ASSUME NEW i \in DOMAIN frames, frames[i].kind = "listed", NEW u \in frames[i].terminal
        PROVE  Old(u)'
    <3>1. u \in Terminals
      BY <1>0, <2>1, FrameTerminals
    <3>2. Old(u)
      BY <2>1 DEF DesktopInv, ListedAreOld
    <3> QED BY <1>c, <3>1, <3>2 DEF Old
  <2> QED BY <1>f, <2>1 DEF ListedAreOld
<1>9. EntriesAreEarly'
  BY <1>0, <1>a, <1>b DEF DesktopInv, EntriesAreEarly, Entered, StartsHaveSessions,
     TypeOK
<1>10. ExitsFollow'
  <2>1. ASSUME NEW u \in Terminals, NEW i \in Nat, Ends(u, i)
        PROVE  Ends(u, i)'
    <3>1. process[u] = "running" => process'[u] = "running"
      BY <1>c
    <3> QED BY <1>f, <2>1, <3>1 DEF Ends
  <2>2. \A i \in DOMAIN frames : i \in Nat
    BY <1>0 DEF TypeOK
  <2>3. FramesEnd'
    BY <1>c, <1>t, <2>1, <2>2 DEF DesktopInv, ExitsFollow, FramesEnd, Ends, Frames
  <2>4. ShownEnd'
    BY <1>0, <2>1 DEF DesktopInv, ExitsFollow, ShownEnd, TypeOK
  <2> QED BY <2>3, <2>4 DEF ExitsFollow
<1>11. EntriesNameTerminals'
  BY <1>0, <1>a, <1>b DEF DesktopInv, EntriesNameTerminals, Entered, TypeOK
<1>12. AskedAreUnderWay'
  BY <1>0, <1>a, <1>b DEF DesktopInv, AskedAreUnderWay, Message, TypeOK
<1> QED BY <1>1, <1>2, <1>3, <1>4, <1>5, <1>6, <1>7, <1>8, <1>9, <1>10, <1>11,
   <1>12 DEF DesktopInv

LEMMA SpawnEndsStep ==
  ASSUME DesktopInv, NEW t \in Terminals, SpawnEnds(t)
  PROVE  DesktopInv'
<1>1. session[t] \in Sessions
  BY DEF SpawnEnds, DesktopInv, StartsAreSingle, SpawnsAreSingle, StartsHaveSessions, TypeOK
<1>2. bySession' \subseteq Sessions
  BY <1>1 DEF SpawnEnds, DesktopInv, TypeOK
<1>3. CASE call[t] = "asked"
  BY <1>2, <1>3, SpawnAnsweredStep DEF SpawnEnds, Reply
<1>4. CASE call[t] # "asked"
  BY <1>2, <1>4, SpawnForgottenStep DEF SpawnEnds
<1> QED BY <1>3, <1>4

LEMMA StopHandledStep ==
  ASSUME DesktopInv, requests # <<>>, requests' = Tail(requests),
         killed' \subseteq Terminals,
         UNCHANGED <<process, spawning, bySession, frames, starting, entry, shown, processes,
                     slots, booting, missed, overwritten>>,
         Head(requests).kind = "stop"
  PROVE  DesktopInv'
<1> USE DesktopAssumption DEF runtime, starting, slots, booting
<1>0. TypeOK
  BY DEF DesktopInv
<1>b. /\ Len(requests) \in Nat \ {0} /\ DOMAIN requests = 1 .. Len(requests)
      /\ DOMAIN requests' = 1 .. Len(requests) - 1
      /\ \A i \in 1 .. Len(requests) - 1 : i + 1 \in 1 .. Len(requests) /\ requests'[i] = requests[i + 1]
      /\ Head(requests) = requests[1] /\ ToSet(requests) = ToSet(requests') \cup {requests[1]}
  BY <1>0, Popped DEF TypeOK
<1>t. /\ \A i \in DOMAIN requests : requests[i] \in Requests
      /\ \A i \in DOMAIN frames : frames[i] \in Frames
  BY <1>0 DEF TypeOK
<1>1. TypeOK'
  BY <1>0, <1>b, <1>t DEF DesktopInv, TypeOK, Phases, Pending, Entered
<1>2. StartsHaveSessions'
  BY <1>0, <1>b, <1>t DEF DesktopInv, StartsHaveSessions, TypeOK
<1>3. ProcessesAreStarts'
  BY <1>0, <1>b, <1>t DEF DesktopInv, ProcessesAreStarts, Unasked, TypeOK
<1>4. ShownAreOld'
  BY <1>0, <1>b, <1>t DEF DesktopInv, ShownAreOld, Old, Pending, Entered, TypeOK
<1>5. StartsAreSingle'
  BY <1>0, <1>b, <1>t DEF DesktopInv, StartsAreSingle, RequestsAreSingle, AnswersAreSingle,
     SpawnsAreSingle, IsAnswer, Requests, Frames, Message, TypeOK
<1>6. SlotsInOrder'
  BY <1>0, <1>b, <1>t DEF DesktopInv, SlotsInOrder, FirstHasSlot, HasSlot,
     StartersAreQueued, SettlersAreFirst, Spawning, Agent, TypeOK
<1>7. BootIsQuiet'
  <2>1. \A i \in DOMAIN requests' : requests'[i] = requests[i + 1] /\ i + 1 \in DOMAIN requests
    BY <1>b
  <2>2. boot = "listing" => \A i, j \in DOMAIN requests' : i = j
    <3> SUFFICES ASSUME boot = "listing", NEW i \in DOMAIN requests', NEW j \in DOMAIN requests'
                 PROVE  i = j
      OBVIOUS
    <3>1. i + 1 = j + 1 /\ i \in Nat /\ j \in Nat
      BY <1>b DEF DesktopInv, BootIsQuiet
    <3> QED BY <3>1
  <2> QED BY <1>0, <2>1, <2>2 DEF DesktopInv, BootIsQuiet, TypeOK
<1>8. ListedAreOld'
  BY <1>0, <1>b, <1>t DEF DesktopInv, ListedAreOld, Old, Pending, Entered, Frames, TypeOK
<1>9. EntriesAreEarly'
  BY <1>0, <1>b, <1>t DEF DesktopInv, EntriesAreEarly, Entered, StartsHaveSessions, TypeOK
<1>10. ExitsFollow'
  BY <1>0, <1>b, <1>t DEF DesktopInv, ExitsFollow, FramesEnd, ShownEnd, Ends, TypeOK
<1>11. EntriesNameTerminals'
  BY <1>0, <1>b, <1>t DEF DesktopInv, EntriesNameTerminals, Entered, TypeOK
<1>12. AskedAreUnderWay'
  BY <1>0, <1>b, <1>t DEF DesktopInv, AskedAreUnderWay, Message, TypeOK
<1> QED BY <1>1, <1>2, <1>3, <1>4, <1>5, <1>6, <1>7, <1>8, <1>9, <1>10, <1>11,
   <1>12 DEF DesktopInv

LEMMA ListedStep ==
  ASSUME DesktopInv, requests # <<>>, requests' = Tail(requests),
         Head(requests).kind = "list",
         frames' = Append(frames, Message("listed", Running)),
         UNCHANGED <<runtime, starting, entry, shown, processes, slots, booting, missed,
                     overwritten>>
  PROVE  DesktopInv'
<1> USE DesktopAssumption DEF runtime, starting, slots, booting
<1>0. TypeOK
  BY DEF DesktopInv
<1>a. Message("listed", Running) \in Frames
  BY DEF Message, Frames, Running
<1>b. /\ Len(requests) \in Nat \ {0} /\ DOMAIN requests = 1 .. Len(requests)
      /\ DOMAIN requests' = 1 .. Len(requests) - 1
      /\ \A i \in 1 .. Len(requests) - 1 : i + 1 \in 1 .. Len(requests) /\ requests'[i] = requests[i + 1]
      /\ Head(requests) = requests[1] /\ ToSet(requests) = ToSet(requests') \cup {requests[1]}
  BY <1>0, Popped DEF TypeOK
<1>c. /\ Len(frames) \in Nat /\ DOMAIN frames = 1 .. Len(frames)
      /\ DOMAIN frames' = 1 .. Len(frames) + 1
      /\ \A i \in 1 .. Len(frames) : frames'[i] = frames[i]
      /\ frames'[Len(frames) + 1] = Message("listed", Running)
      /\ ToSet(frames') = ToSet(frames) \cup {Message("listed", Running)}
  BY <1>0, <1>a, Appended DEF TypeOK
<1>d. /\ boot = "listing" /\ requests' = <<>>
      /\ \A u \in Terminals : call[u] \notin Pending
  <2>1. boot = "listing"
    BY <1>b, SMTT(30) DEF DesktopInv, BootIsQuiet
  <2>2. Len(requests) = 1
    BY <1>b, <2>1 DEF DesktopInv, BootIsQuiet
  <2>3. requests' = <<>>
    BY <1>0, <1>b, <2>2 DEF TypeOK
  <2> QED BY <2>1, <2>3 DEF DesktopInv, BootIsQuiet
<1>e. \A u \in Running : Old(u)
  BY <1>d DEF DesktopInv, ProcessesAreStarts, Unasked, Old, Running, Pending, Entered
<1>t. /\ \A i \in DOMAIN requests : requests[i] \in Requests
      /\ \A i \in DOMAIN frames : frames[i] \in Frames
  BY <1>0 DEF TypeOK
<1>1. TypeOK'
  BY <1>0, <1>a, <1>b, <1>c, <1>d, <1>t DEF DesktopInv, TypeOK, Phases, Pending, Entered
<1>2. StartsHaveSessions'
  BY <1>0, <1>a, <1>b, <1>c, <1>d, <1>t DEF DesktopInv, StartsHaveSessions, TypeOK
<1>3. ProcessesAreStarts'
  <2>1. /\ \A u \in Terminals : process'[u] # "none" => call[u] \notin Unasked
        /\ ProcessesAreStarts
    BY DEF DesktopInv, ProcessesAreStarts
  <2>2. Message("listed", Running).kind = "listed"
    BY DEF Message
  <2> QED BY <1>0, <1>a, <2>1, <2>2, ProcessesAreStartsPushed
<1>4. ShownAreOld'
  BY <1>0, <1>a, <1>b, <1>c, <1>d, <1>t DEF DesktopInv, ShownAreOld, Old, Pending, Entered,
     TypeOK
<1>5. StartsAreSingle'
  BY <1>0, <1>a, <1>b, <1>c, <1>d, <1>t DEF DesktopInv, StartsAreSingle, RequestsAreSingle,
     AnswersAreSingle, SpawnsAreSingle, IsAnswer, Requests, Frames, Message, TypeOK
<1>6. SlotsInOrder'
  BY <1>0, <1>a, <1>b, <1>c, <1>d, <1>t DEF DesktopInv, SlotsInOrder, FirstHasSlot,
     HasSlot, StartersAreQueued, SettlersAreFirst, Spawning, Agent, TypeOK
<1>7. BootIsQuiet'
  BY <1>0, <1>a, <1>b, <1>c, <1>d, <1>t DEF DesktopInv, BootIsQuiet, Pending, Entered,
     Message, TypeOK
<1>8. ListedAreOld'
  <2>1. ListedAreOld /\ Message("listed", Running).terminal = Running
    BY DEF DesktopInv, Message
  <2> QED BY <1>0, <1>a, <1>e, <2>1, ListedAreOldPushed
<1>9. EntriesAreEarly'
  BY <1>0, <1>a, <1>b, <1>c, <1>d, <1>t DEF DesktopInv, EntriesAreEarly, Entered,
     StartsHaveSessions, TypeOK
<1>10. ExitsFollow'
  <2>1. /\ Message("listed", Running).kind = "listed"
        /\ \A u \in Message("listed", Running).terminal : process'[u] = "running"
        /\ ExitsFollow
    BY DEF Message, DesktopInv, Running
  <2> QED BY <1>0, <1>a, <2>1, ExitsFollowPushed
<1>11. EntriesNameTerminals'
  BY <1>0, <1>a, <1>b, <1>c, <1>d, <1>t DEF DesktopInv, EntriesNameTerminals, Entered,
     TypeOK
<1>12. AskedAreUnderWay'
  BY <1>0, <1>a, <1>b, <1>c, <1>d, <1>t DEF DesktopInv, AskedAreUnderWay, Message, TypeOK
<1> QED BY <1>1, <1>2, <1>3, <1>4, <1>5, <1>6, <1>7, <1>8, <1>9, <1>10, <1>11,
   <1>12 DEF DesktopInv

LEMMA HandleStep == ASSUME DesktopInv, Handle PROVE DesktopInv'
<1> DEFINE request == Head(requests)
<1>1. request \in Requests /\ requests # <<>> /\ requests' = Tail(requests)
  BY Popped DEF Handle, DesktopInv, TypeOK
<1>2. CASE request.kind = "start"
  <2>1. request.terminal \in Terminals /\ request = Message("start", request.terminal)
    BY <1>1, <1>2 DEF Requests, Message
  <2>2. HandleStart(request.terminal) /\ UNCHANGED <<process, killed>>
    BY <1>2 DEF Handle
  <2> QED BY <1>1, <2>1, <2>2, RefusedStep, SpawnBegunStep DEF Handle, HandleStart, Reply,
     runtime
<1>3. CASE request.kind = "stop"
  <2>1. killed' \subseteq Terminals
    BY <1>3 DEF Handle, DesktopInv, TypeOK, Running, runtime
  <2> QED BY <1>1, <1>3, <2>1, StopHandledStep DEF Handle
<1>4. CASE request.kind = "list"
  <2>1. /\ Reply("listed", Running) /\ UNCHANGED <<process, killed, spawning, bySession>>
        /\ UNCHANGED <<starting, entry, shown, processes, slots, booting, missed, overwritten>>
    BY <1>4 DEF Handle
  <2>2. UNCHANGED runtime
    BY <2>1 DEF runtime
  <2> QED BY <1>1, <1>4, <2>1, <2>2, ListedStep DEF Reply
<1> QED BY <1>1, <1>2, <1>3, <1>4 DEF Requests

(* The desktop takes a frame from the front.                               *)
LEMMA AnsweredStep ==
  ASSUME DesktopInv, frames # <<>>, frames' = Tail(frames),
         NEW t \in Terminals, NEW phase \in {"answered", "refused"},
         frames[1] = Message(IF phase = "answered" THEN "started" ELSE "refused", t),
         call' = [call EXCEPT ![t] = phase],
         UNCHANGED <<runtime, requests, session, replaces, slots, current, launches,
                     overwritten, entry, shown, processes, boot, found, missed>>
  PROVE  DesktopInv'
<1> USE DesktopAssumption DEF runtime, starting, slots, booting
<1>0. TypeOK
  BY DEF DesktopInv
<1>b. /\ Len(frames) \in Nat \ {0} /\ DOMAIN frames = 1 .. Len(frames)
      /\ DOMAIN frames' = 1 .. Len(frames) - 1
      /\ \A i \in 1 .. Len(frames) - 1 : i + 1 \in 1 .. Len(frames) /\ frames'[i] = frames[i + 1]
      /\ Head(frames) = frames[1] /\ ToSet(frames) = ToSet(frames') \cup {frames[1]}
  BY <1>0, Popped DEF TypeOK
<1>t. /\ \A i \in DOMAIN requests : requests[i] \in Requests
      /\ \A i \in DOMAIN frames : frames[i] \in Frames
  BY <1>0 DEF TypeOK
<1>c. /\ IsAnswer(frames[1]) /\ frames[1].terminal = t
      /\ frames[1].kind # "listed" /\ frames[1].kind # "exit"
      /\ phase = "answered" => frames[1].kind = "started"
  BY DEF IsAnswer, Message
<1>d. call[t] = "asked" /\ boot = "ready"
  <2>1. 1 \in DOMAIN frames
    BY <1>b
  <2>2. call[t] = "asked"
    BY <1>c, <2>1 DEF DesktopInv, StartsAreSingle, AnswersAreSingle
  <2> QED BY <2>2 DEF DesktopInv, BootIsQuiet, Pending, Entered
<1>e. \A u \in Terminals : frames[1] # Message("exit", u)
  BY <1>c DEF Message
<1>1. TypeOK'
  BY <1>0, <1>b, <1>t, <1>c, <1>d DEF DesktopInv, TypeOK, Phases, Pending, Entered
<1>2. StartsHaveSessions'
  BY <1>0, <1>b, <1>t, <1>c, <1>d DEF DesktopInv, StartsHaveSessions, TypeOK
<1>3. ProcessesAreStarts'
  BY <1>0, <1>b, <1>t, <1>c, <1>d DEF DesktopInv, ProcessesAreStarts, Unasked, TypeOK
<1>4. ShownAreOld'
  BY <1>0, <1>b, <1>t, <1>c, <1>d DEF DesktopInv, ShownAreOld, Old, Pending, Entered, TypeOK
<1>5. StartsAreSingle'
  <2>1. /\ RequestsAreSingle /\ AnswersAreSingle /\ 1 \in DOMAIN frames
        /\ \A i \in DOMAIN requests : requests[i].kind = "start" =>
             requests[i].terminal \in Terminals \ {t}
    BY <1>b, <1>c, <1>t DEF DesktopInv, StartsAreSingle, RequestsAreSingle, Requests
  <2>2. ASSUME NEW i \in DOMAIN frames', IsAnswer(frames'[i])
        PROVE  /\ frames'[i] = frames[i + 1] /\ i + 1 \in DOMAIN frames /\ i \in Nat
               /\ frames'[i].terminal \in Terminals \ {t}
    <3>1. frames'[i] = frames[i + 1] /\ i + 1 \in DOMAIN frames /\ i + 1 # 1 /\ i \in Nat
      BY <1>b
    <3>2. frames[i + 1].terminal \in Terminals
      BY <1>t, <2>2, <3>1 DEF Frames, IsAnswer
    <3> QED BY <1>c, <2>1, <2>2, <3>1, <3>2 DEF AnswersAreSingle
  <2>3. RequestsAreSingle'
    <3>1. \A j \in DOMAIN frames' : frames'[j] = frames[j + 1] /\ j + 1 \in DOMAIN frames
      BY <1>b
    <3> QED BY <1>0, <2>1, <3>1 DEF RequestsAreSingle, TypeOK
  <2>4. AnswersAreSingle'
    <3>1. ASSUME NEW i \in DOMAIN frames', IsAnswer(frames'[i]),
                 NEW j \in DOMAIN frames', IsAnswer(frames'[j]),
                 frames'[j].terminal = frames'[i].terminal
          PROVE  j = i
      <4>1. i + 1 = j + 1
        BY <2>1, <2>2, <3>1 DEF AnswersAreSingle
      <4> QED BY <2>2, <3>1, <4>1
    <3>2. ASSUME NEW i \in DOMAIN frames', IsAnswer(frames'[i])
          PROVE  call'[frames'[i].terminal] = "asked"
      BY <1>0, <2>1, <2>2, <3>2 DEF AnswersAreSingle, TypeOK
    <3> QED BY <3>1, <3>2 DEF AnswersAreSingle, IsAnswer
  <2>5. SpawnsAreSingle'
    <3>1. SpawnsAreSingle /\ t \notin spawning /\ spawning \subseteq Terminals
      BY <1>0, <1>c, <2>1 DEF DesktopInv, StartsAreSingle, SpawnsAreSingle, TypeOK
    <3>2. \A j \in DOMAIN frames' : frames'[j] = frames[j + 1] /\ j + 1 \in DOMAIN frames
      BY <1>b
    <3> QED BY <1>0, <3>1, <3>2 DEF SpawnsAreSingle, IsAnswer, TypeOK
  <2> QED BY <2>3, <2>4, <2>5 DEF StartsAreSingle
<1>6. SlotsInOrder'
  BY <1>0, <1>b, <1>t, <1>c, <1>d DEF DesktopInv, SlotsInOrder, FirstHasSlot, HasSlot,
     StartersAreQueued, SettlersAreFirst, Spawning, Agent, TypeOK
<1>7. BootIsQuiet'
  BY <1>0, <1>b, <1>t, <1>c, <1>d DEF DesktopInv, BootIsQuiet, Pending, Entered, Message,
     TypeOK
<1>8. ListedAreOld'
  BY <1>0, <1>b, <1>t, <1>c, <1>d DEF DesktopInv, ListedAreOld, Old, Pending, Entered, Frames, TypeOK
<1>9. EntriesAreEarly'
  BY <1>0, <1>b, <1>t, <1>c, <1>d DEF DesktopInv, EntriesAreEarly, Entered,
     StartsHaveSessions, TypeOK
<1>10. ExitsFollow'
  <2>1. FramesEnd'
    BY <1>0, FramesEndPopped DEF DesktopInv, ExitsFollow
  <2>2. \A u \in Terminals : Ends(u, 0) => Ends(u, 0)'
    BY <1>0, <1>e, EndsLater
  <2>3. phase = "answered" => Ends(t, 0)'
    <3>1. phase = "answered" => Ends(t, 1)
      BY <1>b, <1>c DEF DesktopInv, ExitsFollow, FramesEnd
    <3>2. 1 \in 1 .. Len(frames) /\ 1 - 1 = 0
      BY <1>b
    <3> QED BY <1>0, <3>1, <3>2, EndsLater
  <2>4. \A u \in Terminals \ {t} : call'[u] = call[u]
    BY <1>0 DEF TypeOK
  <2>5. call'[t] = phase /\ t \notin found \cup shown
    BY <1>0, <1>d DEF TypeOK, DesktopInv, ShownAreOld, Old, Pending, Entered
  <2>6. ShownEnd'
    BY <2>2, <2>3, <2>4, <2>5 DEF DesktopInv, ExitsFollow, ShownEnd
  <2> QED BY <2>1, <2>6 DEF ExitsFollow
<1>11. EntriesNameTerminals'
  BY <1>0, <1>b, <1>t, <1>c, <1>d DEF DesktopInv, EntriesNameTerminals, Entered, TypeOK
<1>12. AskedAreUnderWay'
  BY <1>0, <1>b, <1>t, <1>c, <1>d, SMTT(30) DEF DesktopInv, AskedAreUnderWay, Message, TypeOK
<1> QED BY <1>1, <1>2, <1>3, <1>4, <1>5, <1>6, <1>7, <1>8, <1>9, <1>10, <1>11,
   <1>12 DEF DesktopInv

LEMMA ListDeliveredStep ==
  ASSUME DesktopInv, frames # <<>>, frames' = Tail(frames),
         frames[1].kind = "listed", boot' = "adopting", found' = frames[1].terminal,
         UNCHANGED <<runtime, requests, session, replaces, slots, current, launches,
                     overwritten, call, entry, shown, processes, missed>>
  PROVE  DesktopInv'
<1> USE DesktopAssumption DEF runtime, starting, slots, booting
<1>0. TypeOK
  BY DEF DesktopInv
<1>b. /\ Len(frames) \in Nat \ {0} /\ DOMAIN frames = 1 .. Len(frames)
      /\ DOMAIN frames' = 1 .. Len(frames) - 1
      /\ \A i \in 1 .. Len(frames) - 1 : i + 1 \in 1 .. Len(frames) /\ frames'[i] = frames[i + 1]
      /\ Head(frames) = frames[1] /\ ToSet(frames) = ToSet(frames') \cup {frames[1]}
  BY <1>0, Popped DEF TypeOK
<1>t. /\ \A i \in DOMAIN requests : requests[i] \in Requests
      /\ \A i \in DOMAIN frames : frames[i] \in Frames
  BY <1>0 DEF TypeOK
<1>c. /\ boot = "listing" /\ shown = {} /\ found = {} /\ current = None /\ requests = <<>>
      /\ \A u \in Terminals : call[u] \notin Pending
      /\ \A i \in DOMAIN frames' : frames'[i].kind # "listed"
      /\ found' \subseteq Terminals /\ \A u \in found' : Old(u)
  <2>1. boot = "listing" /\ 1 \in DOMAIN frames
    BY <1>b DEF DesktopInv, BootIsQuiet
  <2>2. found = {} /\ shown = {} /\ requests = <<>>
    BY <2>1 DEF DesktopInv, BootIsQuiet
  <2>3. current = None
    BY <1>0, <2>2 DEF TypeOK
  <2>4. \A i \in DOMAIN frames' : frames'[i].kind # "listed"
    <3> SUFFICES ASSUME NEW i \in DOMAIN frames', frames'[i].kind = "listed" PROVE FALSE
      OBVIOUS
    <3>1. i + 1 \in DOMAIN frames /\ frames[i + 1].kind = "listed" /\ i + 1 # 1
      BY <1>b
    <3> QED BY <2>1, <3>1 DEF DesktopInv, BootIsQuiet
  <2>5. found' \subseteq Terminals /\ \A u \in found' : Old(u)
    BY <1>t, <2>1 DEF Frames, DesktopInv, ListedAreOld
  <2> QED BY <2>1, <2>2, <2>3, <2>4, <2>5 DEF DesktopInv, BootIsQuiet
<1>1. TypeOK'
  BY <1>0, <1>b, <1>t, <1>c DEF DesktopInv, TypeOK, Phases, Pending, Entered
<1>2. StartsHaveSessions'
  BY <1>0, <1>b, <1>t, <1>c DEF DesktopInv, StartsHaveSessions, TypeOK
<1>3. ProcessesAreStarts'
  BY <1>0, <1>b, <1>t, <1>c DEF DesktopInv, ProcessesAreStarts, Unasked, TypeOK
<1>4. ShownAreOld'
  BY <1>c DEF DesktopInv, ShownAreOld, Old
<1>5. StartsAreSingle'
  BY <1>0, <1>b, <1>t, <1>c DEF DesktopInv, StartsAreSingle, RequestsAreSingle,
     AnswersAreSingle, SpawnsAreSingle, IsAnswer, Requests, Frames, Message, TypeOK
<1>6. SlotsInOrder'
  BY <1>0, <1>b, <1>t, <1>c DEF DesktopInv, SlotsInOrder, FirstHasSlot, HasSlot,
     StartersAreQueued, SettlersAreFirst, Spawning, Agent, TypeOK
<1>7. BootIsQuiet'
  BY <1>0, <1>b, <1>t, <1>c DEF DesktopInv, BootIsQuiet, Pending, Entered, Message, TypeOK
<1>8. ListedAreOld'
  BY <1>c DEF ListedAreOld
<1>9. EntriesAreEarly'
  BY <1>0, <1>b, <1>t, <1>c DEF DesktopInv, EntriesAreEarly, Entered, StartsHaveSessions,
     TypeOK
<1>10. ExitsFollow'
  <2>1. FramesEnd'
    BY <1>0, FramesEndPopped DEF DesktopInv, ExitsFollow
  <2>2. \A u \in found' : Ends(u, 0)'
    <3>1. \A u \in found' : Ends(u, 1)
      BY <1>b DEF DesktopInv, ExitsFollow, FramesEnd
    <3>2. 1 \in 1 .. Len(frames) /\ 1 - 1 = 0
      BY <1>b
    <3> QED BY <1>0, <1>c, <3>1, <3>2, EndsLater
  <2>3. \A u \in Terminals : call[u] # "answered"
    BY <1>c DEF Pending, Entered
  <2> QED BY <1>c, <2>1, <2>2, <2>3 DEF ExitsFollow, ShownEnd
<1>11. EntriesNameTerminals'
  BY <1>0, <1>b, <1>t, <1>c DEF DesktopInv, EntriesNameTerminals, Entered, TypeOK
<1>12. AskedAreUnderWay'
  BY <1>0, <1>b, <1>t, <1>c DEF DesktopInv, AskedAreUnderWay, Message, TypeOK
<1> QED BY <1>1, <1>2, <1>3, <1>4, <1>5, <1>6, <1>7, <1>8, <1>9, <1>10, <1>11,
   <1>12 DEF DesktopInv

LEMMA ExitShownStep ==
  ASSUME DesktopInv, frames # <<>>, frames' = Tail(frames),
         NEW t \in processes \cap shown, frames[1] = Message("exit", t), HandleExit(t),
         processes' = processes \ {t},
         call' = [c \in Terminals |-> IF c \in Waiting(t) THEN "freed" ELSE call[c]],
         UNCHANGED <<runtime, requests, session, replaces, slots, current, launches,
                     overwritten, boot, found, missed>>
  PROVE  DesktopInv'
<1> USE DesktopAssumption DEF HandleExit, runtime, starting, slots, booting
<1>0. TypeOK
  BY DEF DesktopInv
<1>b. /\ Len(frames) \in Nat \ {0} /\ DOMAIN frames = 1 .. Len(frames)
      /\ DOMAIN frames' = 1 .. Len(frames) - 1
      /\ \A i \in 1 .. Len(frames) - 1 : i + 1 \in 1 .. Len(frames) /\ frames'[i] = frames[i + 1]
      /\ Head(frames) = frames[1] /\ ToSet(frames) = ToSet(frames') \cup {frames[1]}
  BY <1>0, Popped DEF TypeOK
<1>t. /\ \A i \in DOMAIN requests : requests[i] \in Requests
      /\ \A i \in DOMAIN frames : frames[i] \in Frames
  BY <1>0 DEF TypeOK
<1>c. /\ t \in Terminals /\ session[t] \in Sessions /\ t \notin found /\ Old(t)
      /\ frames[1].kind = "exit" /\ frames[1].terminal = t
  <2>1. t \in Terminals /\ t \notin found /\ Old(t)
    BY <1>0 DEF TypeOK, DesktopInv, ShownAreOld
  <2> QED BY <1>0, <2>1 DEF TypeOK, DesktopInv, StartsHaveSessions, Old, Message
<1>d. \A u \in Terminals :
        \/ call'[u] = call[u]
        \/ call[u] = "stopping" /\ call'[u] = "freed" /\ replaces[u] = t
  BY DEF Waiting
<1>1. TypeOK'
  BY <1>0, <1>b, <1>t, <1>c, <1>d DEF DesktopInv, TypeOK, Phases, Pending, Entered
<1>2. StartsHaveSessions'
  BY <1>0, <1>b, <1>t, <1>c, <1>d DEF DesktopInv, StartsHaveSessions, TypeOK
<1>3. ProcessesAreStarts'
  BY <1>0, <1>b, <1>t, <1>c, <1>d DEF DesktopInv, ProcessesAreStarts, Unasked, TypeOK
<1>4. ShownAreOld'
  BY <1>0, <1>b, <1>t, <1>c, <1>d DEF DesktopInv, ShownAreOld, Old, Pending, Entered, TypeOK
<1>5. StartsAreSingle'
  <2>1. \A u \in Terminals : call'[u] = "asked" <=> call[u] = "asked"
    BY <1>d
  <2>2. \A i \in DOMAIN frames' : /\ frames'[i] = frames[i + 1] /\ i + 1 \in DOMAIN frames
                                 /\ i \in Nat /\ (i + 1) - 1 = i
    BY <1>b
  <2>3. RequestsAreSingle'
    BY <1>t, <2>1, <2>2 DEF DesktopInv, StartsAreSingle, RequestsAreSingle, Requests
  <2>4. ASSUME NEW i \in DOMAIN frames', IsAnswer(frames'[i])
        PROVE  call'[frames'[i].terminal] = "asked"
    BY <1>t, <2>1, <2>2, <2>4 DEF DesktopInv, StartsAreSingle, AnswersAreSingle, IsAnswer,
       Frames
  <2>5. ASSUME NEW i \in DOMAIN frames', IsAnswer(frames'[i]),
               NEW j \in DOMAIN frames', IsAnswer(frames'[j]),
               frames'[j].terminal = frames'[i].terminal
        PROVE  j = i
    <3>1. j + 1 = i + 1
      BY <2>2, <2>5 DEF DesktopInv, StartsAreSingle, AnswersAreSingle
    <3> QED BY <2>2, <3>1
  <2>6. SpawnsAreSingle'
    <3>1. SpawnsAreSingle /\ \A u \in spawning : u \in Terminals /\ call'[u] = call[u]
      BY <1>0, <1>d DEF DesktopInv, StartsAreSingle, SpawnsAreSingle, TypeOK
    <3>2. ASSUME NEW u \in spawning, NEW i \in DOMAIN frames', IsAnswer(frames'[i])
          PROVE  frames'[i].terminal # u
      <4>1. IsAnswer(frames[i + 1]) /\ i + 1 \in DOMAIN frames
        BY <2>2, <3>2 DEF IsAnswer
      <4>2. frames[i + 1].terminal # u
        BY <3>1, <4>1 DEF SpawnsAreSingle
      <4> QED BY <2>2, <4>2
    <3>3. ASSUME NEW u \in spawning
          PROVE  /\ call'[u] \in {"asked", "failed"} /\ process'[u] = "none"
                 /\ \A i \in DOMAIN requests' :
                      requests'[i].kind = "start" => requests'[i].terminal # u
      BY <3>1 DEF SpawnsAreSingle
    <3>4. spawning' = spawning
      OBVIOUS
    <3> QED BY <3>2, <3>3, <3>4 DEF SpawnsAreSingle, IsAnswer
  <2> QED BY <2>3, <2>4, <2>5, <2>6 DEF StartsAreSingle, AnswersAreSingle, IsAnswer
<1>6. SlotsInOrder'
  <2>1. \A u \in Terminals :
          /\ \A phase \in Spawning \cup {"queued", "done"} : call'[u] = phase <=> call[u] = phase
          /\ call'[u] \in Spawning <=> call[u] \in Spawning
    BY <1>d DEF Spawning
  <2>2. \A p \in Providers : \A i \in DOMAIN queue[p] : queue[p][i] \in Terminals
    BY <1>0 DEF TypeOK
  <2>3. FirstHasSlot'
    BY <2>1, <2>2 DEF DesktopInv, SlotsInOrder, FirstHasSlot, HasSlot, Agent
  <2>4. StartersAreQueued'
    BY <2>1 DEF DesktopInv, SlotsInOrder, StartersAreQueued, Agent
  <2>5. SettlersAreFirst'
    BY <1>0, <2>1 DEF DesktopInv, SlotsInOrder, SettlersAreFirst, Agent, TypeOK
  <2> QED BY <2>3, <2>4, <2>5 DEF SlotsInOrder
<1>7. BootIsQuiet'
  BY <1>0, <1>b, <1>t, <1>c, <1>d DEF DesktopInv, BootIsQuiet, Pending, Entered, Message,
     TypeOK
<1>8. ListedAreOld'
  <2>1. \A u \in Terminals : Old(u) => Old(u)'
    BY <1>d DEF Old, Pending, Entered
  <2>2. \A i \in DOMAIN frames' : frames'[i] = frames[i + 1] /\ i + 1 \in DOMAIN frames
    BY <1>b
  <2> QED BY <1>t, <2>1, <2>2 DEF DesktopInv, ListedAreOld, Frames
<1>9. EntriesAreEarly'
  <2>1. \A u \in Terminals : call'[u] \in Entered <=> call[u] \in Entered
    BY <1>d DEF Entered
  <2>2. \A s \in Sessions : entry'[s] = IF s = session[t] THEN None ELSE entry[s]
    BY <1>0, <1>c DEF TypeOK
  <2>3. session[t] \notin overwritten => entry[session[t]] = t
    BY <1>c DEF DesktopInv, EntriesNameTerminals
  <2>4. call[t] \notin Entered
    BY <1>c DEF Old, Pending
  <2>5. \A u \in Terminals : call[u] \in Entered /\ session[u] \notin overwritten =>
          entry[session[u]] = u /\ session[u] # session[t] /\ session[u] \in Sessions
    BY <1>0, <2>3, <2>4 DEF DesktopInv, EntriesAreEarly, StartsHaveSessions, Entered, TypeOK
  <2> QED BY <2>1, <2>2, <2>5 DEF DesktopInv, EntriesAreEarly
<1>10. ExitsFollow'
  <2>1. FramesEnd'
    BY <1>0, FramesEndPopped DEF DesktopInv, ExitsFollow
  <2>2. \A u \in Terminals \ {t} : Ends(u, 0) => Ends(u, 0)'
    <3>1. \A u \in Terminals \ {t} : frames[1] # Message("exit", u)
      BY <1>c DEF Message
    <3> QED BY <1>0, <3>1, EndsLater
  <2>3. t \notin shown' \cup found /\ call'[t] # "answered"
    BY <1>c, <1>d DEF Old, Pending, Entered
  <2>4. \A u \in Terminals : call'[u] = "answered" => call[u] = "answered"
    BY <1>d
  <2>5. current # None => current \in processes' \cup missed
    BY <1>0, <1>c DEF DesktopInv, ExitsFollow, ShownEnd, TypeOK
  <2> QED BY <2>1, <2>2, <2>3, <2>4, <2>5 DEF DesktopInv, ExitsFollow, ShownEnd
<1>11. EntriesNameTerminals'
  <2>1. \A u \in Terminals : call'[u] \in Entered <=> call[u] \in Entered
    BY <1>d DEF Entered
  <2>2. \A s \in Sessions : entry'[s] = IF s = session[t] THEN None ELSE entry[s]
    BY <1>0, <1>c DEF TypeOK
  <2>3. session[t] \notin overwritten => entry[session[t]] = t
    BY <1>c DEF DesktopInv, EntriesNameTerminals
  <2>4. \A s \in Sessions \ {session[t]} : entry[s] # t
    BY <1>c, DesktopAssumption DEF DesktopInv, EntriesAreEarly
  <2> QED BY <1>0, <1>c, <2>1, <2>2, <2>3, <2>4 DEF DesktopInv, EntriesNameTerminals, TypeOK
<1>12. AskedAreUnderWay'
  BY <1>0, <1>b, <1>t, <1>c, <1>d DEF DesktopInv, AskedAreUnderWay, Message, TypeOK
<1> QED BY <1>1, <1>2, <1>3, <1>4, <1>5, <1>6, <1>7, <1>8, <1>9, <1>10, <1>11,
   <1>12 DEF DesktopInv

LEMMA ExitMissedStep ==
  ASSUME DesktopInv, frames # <<>>, frames' = Tail(frames),
         NEW t \in Terminals, t \notin processes \cap shown, frames[1] = Message("exit", t),
         processes' = processes \ {t}, missed' = missed \cup ({t} \cap Unheard),
         UNCHANGED <<runtime, requests, session, replaces, slots, current, launches,
                     overwritten, call, entry, shown, boot, found>>
  PROVE  DesktopInv'
<1> USE DesktopAssumption DEF Unheard, runtime, starting, slots, booting
<1>0. TypeOK
  BY DEF DesktopInv
<1>b. /\ Len(frames) \in Nat \ {0} /\ DOMAIN frames = 1 .. Len(frames)
      /\ DOMAIN frames' = 1 .. Len(frames) - 1
      /\ \A i \in 1 .. Len(frames) - 1 : i + 1 \in 1 .. Len(frames) /\ frames'[i] = frames[i + 1]
      /\ Head(frames) = frames[1] /\ ToSet(frames) = ToSet(frames') \cup {frames[1]}
  BY <1>0, Popped DEF TypeOK
<1>t. /\ \A i \in DOMAIN requests : requests[i] \in Requests
      /\ \A i \in DOMAIN frames : frames[i] \in Frames
  BY <1>0 DEF TypeOK
<1>c. frames[1].kind = "exit" /\ frames[1].terminal = t
  BY DEF Message
<1>1. TypeOK'
  BY <1>0, <1>b, <1>t, <1>c DEF DesktopInv, TypeOK, Phases, Pending, Entered
<1>2. StartsHaveSessions'
  BY <1>0, <1>b, <1>t, <1>c DEF DesktopInv, StartsHaveSessions, TypeOK
<1>3. ProcessesAreStarts'
  BY <1>0, <1>b, <1>t, <1>c DEF DesktopInv, ProcessesAreStarts, Unasked, TypeOK
<1>4. ShownAreOld'
  BY <1>0, <1>b, <1>t, <1>c DEF DesktopInv, ShownAreOld, Old, Pending, Entered, TypeOK
<1>5. StartsAreSingle'
  BY <1>0, <1>b, <1>t, <1>c DEF DesktopInv, StartsAreSingle, RequestsAreSingle,
     AnswersAreSingle, SpawnsAreSingle, IsAnswer, Requests, Frames, Message, TypeOK
<1>6. SlotsInOrder'
  BY <1>0, <1>b, <1>t, <1>c DEF DesktopInv, SlotsInOrder, FirstHasSlot, HasSlot,
     StartersAreQueued, SettlersAreFirst, Spawning, Agent, TypeOK
<1>7. BootIsQuiet'
  BY <1>0, <1>b, <1>t, <1>c, SMTT(30) DEF DesktopInv, BootIsQuiet, Pending, Entered, Message, TypeOK
<1>8. ListedAreOld'
  BY <1>0, <1>b, <1>t, <1>c DEF DesktopInv, ListedAreOld, Old, Pending, Entered, Frames, TypeOK
<1>9. EntriesAreEarly'
  BY <1>0, <1>b, <1>t, <1>c DEF DesktopInv, EntriesAreEarly, Entered, StartsHaveSessions,
     TypeOK
<1>10. ExitsFollow'
  <2>1. FramesEnd'
    BY <1>0, FramesEndPopped DEF DesktopInv, ExitsFollow
  <2>2. \A u \in Terminals \ {t} : Ends(u, 0) => Ends(u, 0)'
    <3>1. \A u \in Terminals \ {t} : frames[1] # Message("exit", u)
      BY <1>c DEF Message
    <3> QED BY <1>0, <3>1, EndsLater
  <2>3. call[t] = "answered" \/ t \in found \cup shown => t \in missed'
    BY DEF DesktopInv, ShownAreOld
  <2>4. current # None => current \in processes' \cup missed'
    BY <1>0 DEF DesktopInv, ExitsFollow, ShownEnd, TypeOK
  <2> QED BY <2>1, <2>2, <2>3, <2>4 DEF DesktopInv, ExitsFollow, ShownEnd
<1>11. EntriesNameTerminals'
  BY <1>0, <1>b, <1>t, <1>c DEF DesktopInv, EntriesNameTerminals, Entered, TypeOK
<1>12. AskedAreUnderWay'
  BY <1>0, <1>b, <1>t, <1>c DEF DesktopInv, AskedAreUnderWay, Message, TypeOK
<1> QED BY <1>1, <1>2, <1>3, <1>4, <1>5, <1>6, <1>7, <1>8, <1>9, <1>10, <1>11,
   <1>12 DEF DesktopInv

LEMMA DeliverStep == ASSUME DesktopInv, Deliver PROVE DesktopInv'
<1>1. frames[1] \in Frames /\ Head(frames) = frames[1] /\ frames # <<>> /\ frames' = Tail(frames)
  BY Popped DEF Deliver, DesktopInv, TypeOK
<1> DEFINE t == frames[1].terminal
<1>2. CASE frames[1].kind \in {"started", "refused"}
  <2>1. /\ t \in Terminals
        /\ frames[1] = Message(frames[1].kind, t)
    BY <1>2, <1>1 DEF Frames, Message
  <2>2. Answered(t, IF frames[1].kind = "started" THEN "answered" ELSE "refused")
    BY <1>1, <1>2 DEF Deliver
  <2> QED BY <1>1, <1>2, <2>1, <2>2, AnsweredStep DEF Deliver, Answered, Phase
<1>3. CASE frames[1].kind = "exit"
  <2>1. t \in Terminals /\ frames[1] = Message("exit", t)
    BY <1>3, <1>1 DEF Frames, Message
  <2>2. Exited(t)
    BY <1>1, <1>3 DEF Deliver
  <2> QED BY <1>1, <1>3, <2>1, <2>2, ExitShownStep, ExitMissedStep DEF Deliver, Exited
<1>4. CASE frames[1].kind = "listed"
  BY <1>1, <1>4, ListDeliveredStep DEF Deliver
<1> QED BY <1>1, <1>2, <1>3, <1>4 DEF Frames

LEMMA RelaunchStep ==
  ASSUME DesktopInv, Relaunch
  PROVE  DesktopInv'
<1> USE DesktopAssumption DEF Relaunch, runtime, starting, slots, booting
<1>0. TypeOK
  BY DEF DesktopInv
<1>a. /\ DOMAIN frames' = {} /\ DOMAIN requests' = {1} /\ requests'[1] = Message("list", None)
      /\ frames' = <<>> /\ Message("list", None) \in Requests
  BY DEF Message, Requests
<1>b. \A u \in Terminals :
        /\ call'[u] \notin Pending
        /\ call'[u] = call[u] \/ (call[u] \in Pending /\ call'[u] = "failed")
  BY DEF Pending, Entered
<1>1. TypeOK'
  BY <1>0, <1>a, <1>b DEF DesktopInv, TypeOK, Phases, Pending, Entered
<1>2. StartsHaveSessions'
  BY <1>b DEF DesktopInv, StartsHaveSessions, Pending, Entered
<1>3. ProcessesAreStarts'
  BY <1>0, <1>a, <1>b DEF DesktopInv, ProcessesAreStarts, Unasked, TypeOK
<1>4. ShownAreOld'
  BY <1>0, <1>a, <1>b DEF DesktopInv, ShownAreOld, Old, Pending, Entered, TypeOK
<1>5. StartsAreSingle'
  BY <1>0, <1>a, <1>b DEF DesktopInv, StartsAreSingle, RequestsAreSingle, AnswersAreSingle,
     SpawnsAreSingle, IsAnswer, Requests, Frames, Message, TypeOK
<1>6. SlotsInOrder'
  <2>1. \A u \in Terminals : call'[u] \notin Spawning \cup {"queued"}
    BY <1>b DEF Pending, Entered, Spawning
  <2>2. \A p \in Providers : DOMAIN queue'[p] = {}
    OBVIOUS
  <2> QED BY <2>1, <2>2
      DEF SlotsInOrder, FirstHasSlot, StartersAreQueued, SettlersAreFirst
<1>7. BootIsQuiet'
  BY <1>0, <1>a, <1>b DEF DesktopInv, BootIsQuiet, Pending, Entered, Message, TypeOK
<1>8. ListedAreOld'
  BY <1>0, <1>a, <1>b DEF DesktopInv, ListedAreOld, Old, Pending, Entered, Frames, TypeOK
<1>9. EntriesAreEarly'
  <2>1. \A u \in Terminals : call'[u] \notin Entered
    BY <1>b DEF Pending
  <2> QED BY <2>1 DEF EntriesAreEarly
<1>10. ExitsFollow'
  <2>1. \A u \in Terminals : call'[u] # "answered"
    BY <1>b DEF Pending, Entered
  <2> QED BY <1>a, <2>1 DEF ExitsFollow, FramesEnd, ShownEnd
<1>11. EntriesNameTerminals'
  BY <1>0, <1>a, <1>b DEF DesktopInv, EntriesNameTerminals, Entered, TypeOK
<1>12. AskedAreUnderWay'
  <2>1. \A u \in Terminals : call'[u] # "asked"
    BY <1>b DEF Pending, Entered
  <2> QED BY <2>1 DEF AskedAreUnderWay
<1> QED BY <1>1, <1>2, <1>3, <1>4, <1>5, <1>6, <1>7, <1>8, <1>9, <1>10, <1>11,
   <1>12 DEF DesktopInv

LEMMA DesktopNext == DesktopInv /\ [Next]_vars => DesktopInv'
<1> SUFFICES ASSUME DesktopInv, [Next]_vars PROVE DesktopInv'
  OBVIOUS
<1>1. ASSUME NEW t \in Terminals, NEW s \in Sessions, Start(t, s) \/ Restart(t, s)
      PROVE  DesktopInv'
  BY <1>1, StartStep, RestartStep
<1>2. ASSUME NEW t \in Terminals,
             Stop(t) \/ StopTimer(t) \/ Look(t) \/ Enter(t) \/ Queue(t) \/ Turn(t)
      PROVE  DesktopInv'
  BY <1>2, StopStep, StopTimerStep, LookStep, EnterStep, QueueStep, TurnStep
<1>3. ASSUME NEW t \in Terminals,
             \/ Attach(t) \/ Fail(t) \/ Settle(t)
             \/ SpawnEnds(t) \/ ProcessEnds(t) \/ AdoptProcess(t) \/ AdoptTerminal(t)
      PROVE  DesktopInv'
  BY <1>3, AttachStep, FailStep, SettleStep, SpawnEndsStep, ProcessEndsStep,
     AdoptProcessStep, AdoptTerminalStep
<1>4. CASE Handle \/ Deliver \/ Relaunch \/ Rehydrated
  BY <1>4, HandleStep, DeliverStep, RelaunchStep, RehydratedStep
<1>5. CASE UNCHANGED vars
  <2> USE <1>5 DEF vars, runtime, starting, slots, booting, DesktopInv
  <2>1. TypeOK' /\ StartsHaveSessions' /\ ProcessesAreStarts'
    BY DEF TypeOK, StartsHaveSessions, ProcessesAreStarts
  <2>2. ShownAreOld' /\ StartsAreSingle' /\ BootIsQuiet'
    BY DEF ShownAreOld, Old, StartsAreSingle, RequestsAreSingle, AnswersAreSingle,
       SpawnsAreSingle, BootIsQuiet
  <2>3. SlotsInOrder'
    BY DEF SlotsInOrder, FirstHasSlot, HasSlot, StartersAreQueued, SettlersAreFirst, Agent
  <2>4. ListedAreOld' /\ EntriesAreEarly'
    BY DEF ListedAreOld, Old, EntriesAreEarly
  <2>5. ExitsFollow'
    BY DEF ExitsFollow, FramesEnd, ShownEnd, Ends
  <2>6. EntriesNameTerminals' /\ AskedAreUnderWay'
    BY DEF EntriesNameTerminals, AskedAreUnderWay
  <2> QED BY <2>1, <2>2, <2>3, <2>4, <2>5, <2>6
<1> QED BY <1>1, <1>2, <1>3, <1>4, <1>5 DEF Next

LEMMA DesktopInvariant == Spec => []DesktopInv
BY DesktopInit, DesktopNext, PTL DEF Spec

-----------------------------------------------------------------------------
(* Every variable of the desktop, the Runtime and the socket stays in its  *)
(* range; what TLC checks for a few terminals holds for any number.        *)
THEOREM DesktopTyping == Spec => []TypeOK
BY DesktopInvariant, PTL DEF DesktopInv

(* acquireAgentSpawnSlot and releaseAgentSpawnSlot keep the spawns of one  *)
(* provider apart, whatever else the desktop starts, stops and restarts.   *)
THEOREM SpawnsStayApart == Spec => []AgentSpawnsAreApart
<1>1. DesktopInv => AgentSpawnsAreApart
  <2> SUFFICES ASSUME DesktopInv,
                      NEW t \in Terminals, call[t] \in Spawning \/ t \in settling,
                      NEW u \in Terminals, call[u] \in Spawning \/ u \in settling,
                      Agent(t) = Agent(u), Agent(t) # None
               PROVE  t = u
    BY DEF AgentSpawnsAreApart
  <2>1. queue[Agent(t)][1] = t
    BY DEF DesktopInv, SlotsInOrder, StartersAreQueued, SettlersAreFirst
  <2>2. queue[Agent(u)][1] = u
    BY DEF DesktopInv, SlotsInOrder, StartersAreQueued, SettlersAreFirst
  <2> QED BY <2>1, <2>2
<1> QED BY <1>1, DesktopInvariant, PTL

(* A start that has asked the Runtime has its spawn or its answer coming,  *)
(* and one that waits for its slot waits behind a start that will release  *)
(* it.                                                                     *)
THEOREM StartsGetOn == Spec => []NoStartIsStuck
<1>1. DesktopInv => NoStartIsStuck
  <2> SUFFICES ASSUME DesktopInv, NEW t \in Terminals
               PROVE  /\ call[t] = "asked" =>
                           Message("start", t) \in ToSet(requests) \/ t \in spawning
                             \/ {Message("started", t), Message("refused", t)}
                                  \cap ToSet(frames) # {}
                      /\ call[t] = "queued" =>
                           LET first == Head(queue[Agent(t)]) IN
                           call[first] \in Spawning \cup {"queued"} \/ first \in settling
    BY DEF NoStartIsStuck
  <2>1. ASSUME call[t] = "asked"
        PROVE  Message("start", t) \in ToSet(requests) \/ t \in spawning
                 \/ {Message("started", t), Message("refused", t)} \cap ToSet(frames) # {}
    BY <2>1 DEF DesktopInv, AskedAreUnderWay
  <2>2. ASSUME call[t] = "queued"
        PROVE  LET first == Head(queue[Agent(t)]) IN
               call[first] \in Spawning \cup {"queued"} \/ first \in settling
    <3>1. /\ Agent(t) \in Providers
          /\ \E i \in DOMAIN queue[Agent(t)] : queue[Agent(t)][i] = t
      BY <2>2, AgentIsProvided DEF DesktopInv, SlotsInOrder, StartersAreQueued
    <3>2. queue[Agent(t)] \in Seq(Terminals) /\ queue[Agent(t)] # <<>>
      BY <3>1 DEF DesktopInv, TypeOK
    <3>3. 1 \in DOMAIN queue[Agent(t)] /\ Head(queue[Agent(t)]) = queue[Agent(t)][1]
      BY <3>2, Popped
    <3>4. HasSlot(Agent(t), 1)
      BY <3>1, <3>3 DEF DesktopInv, SlotsInOrder, FirstHasSlot
    <3> QED BY <3>3, <3>4 DEF HasSlot
  <2> QED BY <2>1, <2>2
<1> QED BY <1>1, DesktopInvariant, PTL

(* sessionToTerminal and the Sessions of the running terminals agree.      *)
THEOREM EntriesStayTrue == Spec => []EntriesNameTerminals
BY DesktopInvariant, PTL DEF DesktopInv

(* What the desktop shows as running runs, or its exit is on its way to a  *)
(* listener, unless it is one of the exits known to be missed.             *)
THEOREM ShownTerminalsEnd == Spec => []NoGhosts
<1>1. DesktopInv => NoGhosts
  <2> SUFFICES ASSUME DesktopInv, NEW t \in shown, process[t] # "running", t \notin missed
               PROVE  t \in ExitsComing
    BY DEF NoGhosts
  <2>1. t \in Terminals
    BY DEF DesktopInv, TypeOK
  <2>2. Ends(t, 0)
    BY <2>1 DEF DesktopInv, ExitsFollow, ShownEnd
  <2>3. PICK j \in DOMAIN frames : frames[j] = Message("exit", t)
    BY <2>2 DEF Ends
  <2> QED BY <2>3 DEF ExitsComing, ToSet, Message
<1> QED BY <1>1, DesktopInvariant, PTL

(* The rest of restart never returns the terminal that it was to replace   *)
(* and whose exit it has seen.                                             *)
THEOREM RestartsReplaceTheirTerminals == Spec => RestartsReplace
<1>1. DesktopInv /\ [Next]_vars =>
        [\A t \in Terminals : call[t] = "freed" /\ call'[t] = "returned"
           => entry[session[t]] # replaces[t]]_vars
  <2> SUFFICES ASSUME DesktopInv, Next, NEW t \in Terminals,
                      call[t] = "freed", call'[t] = "returned"
               PROVE  entry[session[t]] # replaces[t]
    OBVIOUS
  <2>1. entry[session[t]] \in shown
    <3>1. TypeOK
      BY DEF DesktopInv
    <3> QED BY <3>1 DEF Next, Start, Restart, WaitForExit, Stop, StopTimer, Look, Enter,
       Queue,
         Turn, Ask, Phase, Attach, Fail, Settle, SpawnEnds, ProcessEnds, AdoptProcess, AdoptTerminal,
         Handle, Deliver, Answered, Exited, Relaunch, Rehydrated, starting, TypeOK
  <2> QED BY <2>1 DEF DesktopInv, ShownAreOld
<1> QED BY <1>1, DesktopInvariant, PTL DEF Spec, RestartsReplace
=============================================================================
