--------------------------- MODULE TerminalHistory ---------------------------
(***************************************************************************)
(* The output a Runtime retains of its terminals, so that a client can     *)
(* rebuild a screen (TerminalHistoryBuffer.ts, and what it needs of        *)
(* TerminalHistorySanitizer.ts).                                           *)
(*                                                                         *)
(* A text is its length and the positions of its line breaks.  Its         *)
(* characters matter only as control sequences: an output may end in the   *)
(* middle of one, which is held back until it is complete, and a complete  *)
(* one may be a query, which is not retained.  Sizes of a screen are       *)
(* opaque.                                                                 *)
(*                                                                         *)
(* A Set of JavaScript is in the order of insertion: a chunk is stamped    *)
(* with the number of the event that brought it (at), a resize with its    *)
(* number, and the first element is the one with the least stamp.  The     *)
(* counts of lines, bytes and chunks are kept as the code keeps them, by   *)
(* adding and subtracting; the properties compare them with what is there. *)
(***************************************************************************)
EXTENDS Naturals, Sequences, FiniteSets

CONSTANTS Terminals, Sessions,
          Sizes, UnitSize,        \* sizes of a screen; 1 x 1
          Outputs,                \* what a process may write at a time
          LineLimits,             \* what setLineLimit may be called with
          Multiplier,             \* GLOBAL_RETENTION_MULTIPLIER
          MaxBytes, MaxTotalBytes,
          MaxEvents, MaxCalls     \* bounds of an instance: events, other calls and gaps

Texts == {text \in [length: Nat, breaks: SUBSET Nat] : text.breaks \subseteq 1 .. text.length}

ASSUME HistoryAssumption ==
  /\ \A out \in Outputs :
       /\ out \in [closes: {"no", "kept", "stripped"}, length: Nat, breaks: SUBSET Nat, half: Nat]
       /\ out.breaks \subseteq 1 .. out.length
  /\ LineLimits \subseteq Nat \ {0} /\ LineLimits # {}
  /\ Multiplier \in Nat \ {0}
  /\ MaxBytes \in Nat /\ MaxTotalBytes \in Nat

VARIABLES
  buffer,      \* [states, order, bytes, lines]: the maps and totals of the class
  lineLimit,   \* maxLinesPerTerminal, which the other limits follow
  log,         \* history: what each terminal wrote and how it was resized since it was registered
  events, calls

historyVars == <<buffer, lineLimit, log, events, calls>>

----------------------------------------------------------------------------
(* Texts.                                                                  *)

Empty == [length |-> 0, breaks |-> {}]
IsEmpty(text) == text.length = 0

TextFrom(text, p) ==
  [length |-> text.length - p,
   breaks |-> {q - p : q \in {q \in text.breaks : q > p}}]

(* indexAfterLineBreaks: where the text goes on after its first n lines.   *)
AfterLines(text, n) ==
  CHOOSE p \in text.breaks : Cardinality({q \in text.breaks : q <= p}) = n

(* a control sequence of n bytes in front of a text                        *)
WithPrefix(n, text) ==
  [length |-> n + text.length, breaks |-> {n + q : q \in text.breaks}]

(* sanitizeTerminalHistoryChunk: what of an output is visible, given the   *)
(* bytes held back, and what is held back next.  Inside a sequence nothing *)
(* is visible before its end.                                              *)
Sanitize(held, out) ==
  IF held > 0 /\ out.closes = "no"
  THEN [text |-> Empty, pending |-> held + out.length + out.half]
  ELSE [text |-> WithPrefix(IF out.closes = "kept" THEN held ELSE 0,
                            [length |-> out.length, breaks |-> out.breaks]),
        pending |-> out.half]

----------------------------------------------------------------------------
(* Operators on the buffer.                                                *)

(* The sum of w[x] over S, as the number of points below the graph of w.   *)
Points(S, w) == UNION {{x} \X (1 .. w[x]) : x \in S}
Total(S, w) == Cardinality(Points(S, w))

Less(a, b) == IF a > b THEN a - b ELSE 0    \* Math.max(0, a - b)
Oldest(S) == CHOOSE x \in S : \A y \in S : x.at <= y.at

AllChunks(b) == UNION {b.states[t].chunks : t \in Terminals}
StateLines(s) ==
  s.lineBreaks + (IF s.textChunks > 0 /\ ~s.endsWithNewline THEN 1 ELSE 0)

(* Fault: the resizes right after the first output are pruned with it.     *)
BugPruneResizesTooFar(s) ==
  [s EXCEPT !.resizes = {r \in @ : s.chunks # {} /\ r.afterSeq > Oldest(s.chunks).seq}]

PruneResizes(s) ==
  [s EXCEPT !.resizes = {r \in @ : s.chunks # {} /\ r.afterSeq >= Oldest(s.chunks).seq}]

(* The state without the chunk; one with text counts as one, and without   *)
(* any the tail is no line.                                                *)
Forget(s, chunk) ==
  LET left == IF IsEmpty(chunk.text) THEN s.textChunks ELSE Less(s.textChunks, 1) IN
  [s EXCEPT !.chunks = @ \ {chunk},
            !.textChunks = left,
            !.endsWithNewline = left # 0 /\ @]

(* What the end of trimLeadingLines and evictChunk have in common: the     *)
(* owner's new state, and the totals less what it has lost.                *)
Settle(b, t, s, bytes, gone) ==
  [states |-> [b.states EXCEPT ![t] = PruneResizes([s EXCEPT !.truncated = TRUE])],
   order |-> b.order \ gone,
   bytes |-> Less(b.bytes, bytes),
   lines |-> Less(b.lines, StateLines(b.states[t]) - StateLines(s))]

(* Fault: the state's line breaks are not reduced with the chunk's.        *)
BugEvictKeepsLineBreaks(b, chunk) ==
  LET t == chunk.terminal IN
  Settle(b, t, Forget([b.states[t] EXCEPT !.bytes = Less(@, chunk.bytes)], chunk),
         chunk.bytes, {chunk.at})

Evict(b, chunk) ==
  LET t == chunk.terminal
      counted == [b.states[t] EXCEPT !.bytes = Less(@, chunk.bytes),
                                     !.lineBreaks = Less(@, chunk.lineBreaks)]
  IN  Settle(b, t, Forget(counted, chunk), chunk.bytes, {chunk.at})

Trim(b, chunk, n) ==
  LET t == chunk.terminal
      cut == AfterLines(chunk.text, n)
      kept == [chunk EXCEPT !.text = TextFrom(@, cut), !.bytes = Less(@, cut),
                            !.lineBreaks = Less(@, n)]
      counted == [b.states[t] EXCEPT !.bytes = Less(@, cut),
                                     !.lineBreaks = Less(@, n)]
  IN  IF IsEmpty(kept.text)
      THEN Settle(b, t, Forget(counted, chunk), cut, {chunk.at})
      ELSE Settle(b, t, [counted EXCEPT !.chunks = (@ \ {chunk}) \cup {kept}], cut, {})

(* One round of a limit's loop: trim the oldest chunk when that alone      *)
(* brings the lines down, evict it otherwise.                              *)
Shed(b, chunk, lines, limit) ==
  LET excess == Less(lines, limit) IN
  IF excess > 0 /\ chunk.lineBreaks >= excess
  THEN Trim(b, chunk, excess)
  ELSE Evict(b, chunk)

OverOwn(s, limit) ==
  /\ s.chunks # {}
  /\ StateLines(s) > limit \/ s.bytes > MaxBytes \/ Cardinality(s.chunks) > limit

OverAll(b, limit) ==
  /\ b.order # {}
  /\ \/ b.lines > limit * Multiplier
     \/ b.bytes > MaxTotalBytes
     \/ Cardinality(b.order) > limit * Multiplier

(* The loops over the limits of the terminals ts, whose order does not     *)
(* matter, and then over the totals.                                       *)
Round(b, ts, limit) ==
  IF \E t \in ts : OverOwn(b.states[t], limit)
  THEN LET s == b.states[CHOOSE t \in ts : OverOwn(b.states[t], limit)]
       IN  Shed(b, Oldest(s.chunks), StateLines(s), limit)
  ELSE IF OverAll(b, limit)
  THEN Shed(b, Oldest({c \in AllChunks(b) : c.at \in b.order}), b.lines, limit * Multiplier)
  ELSE b

(* Every round takes a chunk or a byte, so these are enough of them.       *)
Enforce(b, ts, limit) ==
  LET after[n \in Nat] == IF n = 0 THEN b ELSE Round(after[n - 1], ts, limit)
  IN  after[Cardinality(b.order) + b.bytes]

----------------------------------------------------------------------------
Registered == {t \in Terminals : buffer.states[t].registered}

NewState(session, size) ==
  [registered |-> TRUE, session |-> session, size |-> size, chunks |-> {},
   resizes |-> {}, bytes |-> 0, lineBreaks |-> 0, textChunks |-> 0,
   endsWithNewline |-> FALSE, lastSeq |-> 0, truncated |-> FALSE, pending |-> 0]

Absent == [NewState("none", UnitSize) EXCEPT !.registered = FALSE]

Without(b, t) ==
  LET s == b.states[t] IN
  [states |-> [b.states EXCEPT ![t] = Absent],
   order |-> b.order \ {c.at : c \in s.chunks},
   bytes |-> Less(b.bytes, Total(s.chunks, [c \in s.chunks |-> c.bytes])),
   lines |-> Less(b.lines, StateLines(s))]

NewResize(t, size) ==
  [at |-> Cardinality(log[t].resizes) + 1, afterSeq |-> buffer.states[t].lastSeq, size |-> size]

Resized(t, size) ==
  LET s == buffer.states[t] IN
  IF size = s.size THEN s
  ELSE [s EXCEPT !.size = size,
                 !.resizes = IF s.chunks = {} THEN @ ELSE @ \cup {NewResize(t, size)}]

EmptyBuffer == [states |-> [t \in Terminals |-> Absent], order |-> {}, bytes |-> 0, lines |-> 0]
NoLog == [outputs |-> {}, refused |-> {}, resizes |-> {}]

HistoryInit ==
  /\ buffer = EmptyBuffer
  /\ lineLimit \in LineLimits
  /\ log = [t \in Terminals |-> NoLog]
  /\ events = 0 /\ calls = 0

LogResize(t, size) ==
  log' = IF size = buffer.states[t].size THEN log
         ELSE [log EXCEPT ![t].resizes = @ \cup {NewResize(t, size)}]

Call == calls < MaxCalls /\ calls' = calls + 1 /\ UNCHANGED events

Register(t, session, size) ==
  /\ Call
  /\ LET s == buffer.states[t] IN
     IF s.registered /\ s.session = session
     THEN /\ buffer' = [buffer EXCEPT !.states[t] = Resized(t, size)]
          /\ LogResize(t, size)
     ELSE /\ buffer' = [(IF s.registered THEN Without(buffer, t) ELSE buffer)
                          EXCEPT !.states[t] = NewState(session, size)]
          /\ log' = [log EXCEPT ![t] = NoLog]
  /\ UNCHANGED lineLimit

ResizeTerminal(t, size) ==
  /\ Call
  /\ t \in Registered
  /\ buffer' = [buffer EXCEPT !.states[t] = Resized(t, size)]
  /\ LogResize(t, size)
  /\ UNCHANGED lineLimit

SetLineLimit(next) ==
  /\ Call
  /\ next # lineLimit
  /\ lineLimit' = next
  /\ buffer' = Enforce(buffer, Registered, next)
  /\ UNCHANGED log

(* Fault: an output too large to keep is dropped in silence.               *)
BugTooLargeIsSilent(s) == s
Refuse(s) == [s EXCEPT !.truncated = TRUE]

(* The chunk joins its terminal and the global order.                      *)
Retain(b, t, seq, text) ==
  LET s == b.states[t]
      chunk == [at |-> events + 1, terminal |-> t, seq |-> seq, text |-> text,
                bytes |-> text.length, lineBreaks |-> Cardinality(text.breaks),
                size |-> s.size]
      grown == [s EXCEPT !.chunks = @ \cup {chunk},
                         !.bytes = @ + chunk.bytes,
                         !.lineBreaks = @ + chunk.lineBreaks,
                         !.textChunks = IF IsEmpty(text) THEN @ ELSE @ + 1,
                         !.endsWithNewline = IF IsEmpty(text) THEN @
                                             ELSE text.length \in text.breaks]
  IN  [states |-> [b.states EXCEPT ![t] = grown],
       order |-> b.order \cup {chunk.at},
       bytes |-> b.bytes + chunk.bytes,
       lines |-> b.lines + (StateLines(grown) - StateLines(s))]

(* append for an event of the terminal's session that is newer than the    *)
(* last one; gap events before it have been missed.  Other events change   *)
(* nothing.  Only what follows an unfinished control sequence can end it.  *)
AppendOutput(t, session, gap, out) ==
  LET known == buffer.states[t]
      before == IF known.registered THEN known ELSE NewState(session, UnitSize)
      seq == before.lastSeq + 1 + gap
      clean == Sanitize(before.pending, out)
      heard == [before EXCEPT !.lastSeq = seq, !.pending = clean.pending,
                              !.truncated = @ \/ (before.lastSeq > 0 /\ gap > 0)]
      fits == clean.text.length <= MaxBytes /\ clean.text.length <= MaxTotalBytes
      b == [buffer EXCEPT !.states[t] = IF fits THEN heard ELSE Refuse(heard)]
  IN  /\ events < MaxEvents /\ events' = events + 1
      /\ calls + gap <= MaxCalls /\ calls' = calls + gap
      /\ before.session = session
      /\ out.closes # "no" => before.pending > 0
      /\ buffer' = IF fits THEN Enforce(Retain(b, t, seq, clean.text), {t}, lineLimit) ELSE b
      /\ log' = IF fits
                THEN [log EXCEPT ![t].outputs =
                        @ \cup {[seq |-> seq, text |-> clean.text]}]
                ELSE [log EXCEPT ![t].refused = @ \cup {seq}]
      /\ UNCHANGED lineLimit

RemoveTerminal(t) ==
  /\ Call
  /\ t \in Registered
  /\ buffer' = Without(buffer, t)
  /\ log' = [log EXCEPT ![t] = NoLog]
  /\ UNCHANGED lineLimit

ClearHistory ==
  /\ Call
  /\ buffer' = EmptyBuffer
  /\ log' = [t \in Terminals |-> NoLog]
  /\ UNCHANGED lineLimit

----------------------------------------------------------------------------
(* replayPlan: the size to start with, and the resizes at the offsets of   *)
(* the data where they happened.  A resize to the size in force is not     *)
(* part of a plan, hence Push.                                             *)

Push(plan, size) ==
  IF size = plan.size THEN plan
  ELSE [plan EXCEPT !.size = size,
                    !.resizes = Append(@, [offset |-> plan.offset, size |-> size])]

(* One round of its loops: the next resize when its output is written, or  *)
(* all output is; else the next chunk.  None is due before the first chunk.*)
Play(plan) ==
  IF plan.left # {} /\ (plan.chunks = {} \/ Oldest(plan.left).afterSeq <= plan.seq)
  THEN LET resize == Oldest(plan.left)
       IN  [Push(plan, resize.size) EXCEPT !.left = @ \ {resize}]
  ELSE IF plan.chunks # {}
  THEN LET chunk == Oldest(plan.chunks)
       IN  [Push(plan, chunk.size) EXCEPT !.chunks = @ \ {chunk}, !.seq = chunk.seq,
                                          !.offset = @ + chunk.text.length]
  ELSE plan

Replay(s) ==
  LET start == IF s.chunks = {} THEN s.size ELSE Oldest(s.chunks).size
      plan == [size |-> start, resizes |-> <<>>, offset |-> 0, seq |-> 0,
               chunks |-> s.chunks, left |-> s.resizes]
      after[n \in Nat] == IF n = 0 THEN plan ELSE Play(after[n - 1])
      ended == Push(after[Cardinality(s.chunks) + Cardinality(s.resizes)], s.size)
  IN  [start |-> start, resizes |-> ended.resizes]

(* The data is the chunks' texts, one after the other.                     *)
Snapshot(t) ==
  LET s == buffer.states[t] IN
  [session |-> s.session, size |-> s.size,
   data |-> {[seq |-> c.seq, text |-> c.text] : c \in s.chunks},
   fromSeq |-> IF s.chunks = {} THEN s.lastSeq + 1 ELSE Oldest(s.chunks).seq,
   toSeq |-> s.lastSeq, truncated |-> s.truncated, byteLength |-> s.bytes,
   replay |-> Replay(s)]

----------------------------------------------------------------------------
HistoryNext ==
  \/ \E t \in Terminals, session \in Sessions, size \in Sizes : Register(t, session, size)
  \/ \E t \in Terminals, size \in Sizes : ResizeTerminal(t, size)
  \/ \E next \in LineLimits : SetLineLimit(next)
  \/ \E t \in Terminals, session \in Sessions, gap \in 0 .. 1, out \in Outputs :
       AppendOutput(t, session, gap, out)
  \/ \E t \in Terminals : RemoveTerminal(t)
  \/ ClearHistory

HistorySpec == HistoryInit /\ [][HistoryNext]_historyVars

----------------------------------------------------------------------------
(* What is retained, counted from the texts: a last line without a break   *)
(* is a line.                                                              *)
Lengths(S) == Total(S, [c \in S |-> c.text.length])
Breaks(S) == Total(S, [c \in S |-> Cardinality(c.text.breaks)])
LastWithText(S, c) ==
  c \in S /\ ~IsEmpty(c.text) /\ \A d \in S : d.at > c.at => IsEmpty(d.text)
EndsInLine(S) == \E c \in S : LastWithText(S, c) /\ c.text.length \notin c.text.breaks
Lines(S) == Breaks(S) + (IF EndsInLine(S) THEN 1 ELSE 0)

(***************************************************************************)
(* The counts of a terminal are those of the text it retains, a last line  *)
(* without a break included; the totals are the sums over the terminals;   *)
(* and the global order holds exactly the retained chunks, each terminal's *)
(* in its own order.                                                       *)
(***************************************************************************)
CountsAreSums ==
  /\ \A t \in Registered :
       LET s == buffer.states[t] IN
       /\ s.bytes = Lengths(s.chunks)
       /\ s.lineBreaks = Breaks(s.chunks)
       /\ StateLines(s) = Lines(s.chunks)
       /\ \A c, d \in s.chunks : c.at < d.at <=> c.seq < d.seq
  /\ buffer.bytes = Total(Terminals, [t \in Terminals |-> Lengths(buffer.states[t].chunks)])
  /\ buffer.lines = Total(Terminals, [t \in Terminals |-> Lines(buffer.states[t].chunks)])
  /\ buffer.order = {c.at : c \in AllChunks(buffer)}
  /\ \A c, d \in AllChunks(buffer) : c.at = d.at => c = d
  /\ \A c \in AllChunks(buffer) : c.terminal \in Registered

(* Between two calls no limit is exceeded, after a lowered limit as well.  *)
LimitsHold ==
  /\ \A t \in Registered :
       LET chunks == buffer.states[t].chunks IN
       /\ Lines(chunks) <= lineLimit
       /\ Lengths(chunks) <= MaxBytes
       /\ Cardinality(chunks) <= lineLimit
  /\ Total(Terminals, [t \in Terminals |-> Lines(buffer.states[t].chunks)])
       <= lineLimit * Multiplier
  /\ Total(Terminals, [t \in Terminals |-> Lengths(buffer.states[t].chunks)])
       <= MaxTotalBytes
  /\ Cardinality(AllChunks(buffer)) <= lineLimit * Multiplier

HistoryTypeOK ==
  /\ lineLimit \in LineLimits /\ buffer.bytes \in Nat /\ buffer.lines \in Nat
  /\ \A t \in Registered :
       LET s == buffer.states[t] IN
       /\ s.session \in Sessions /\ s.size \in Sizes \cup {UnitSize}
       /\ {s.bytes, s.lineBreaks, s.textChunks, s.lastSeq, s.pending} \subseteq Nat
       /\ {s.truncated, s.endsWithNewline} \subseteq BOOLEAN

(***************************************************************************)
(* The books of the history balance: after every call the four counts of   *)
(* each terminal and the two totals are sums over what is really retained, *)
(* and no limit is exceeded, although trimming and eviction, of a terminal *)
(* and of the oldest one overall, reach into the same chunks               *)
(* (enforceTerminalLimits, enforceGlobalLimits, evictChunk,                *)
(* trimLeadingLines, remove).                                              *)
(***************************************************************************)
BooksBalance == HistoryTypeOK /\ CountsAreSums /\ LimitsHold

(***************************************************************************)
(* A snapshot is a suffix of what the terminal has written: whole outputs, *)
(* of which the first may lack its first lines, with none left out in      *)
(* between but those that were refused, up to the last event; and unless   *)
(* it says that it is truncated nothing at all is missing from it (append, *)
(* snapshot).                                                              *)
(***************************************************************************)
SnapshotsAreSuffixes ==
  \A t \in Registered :
    LET snap == Snapshot(t)
        out == log[t].outputs
        heard == {e.seq : e \in out} \cup log[t].refused
    IN  /\ \A p \in snap.data : \E e \in out :
             /\ p.seq = e.seq
             /\ \/ p.text = e.text
                \/ /\ p.seq = snap.fromSeq
                   /\ \E cut \in e.text.breaks : p.text = TextFrom(e.text, cut)
        /\ \A p, q \in snap.data : p.seq = q.seq => p = q
        /\ \A e \in out : e.seq >= snap.fromSeq => \E p \in snap.data : p.seq = e.seq
        /\ \A p \in snap.data : p.seq \in snap.fromSeq .. snap.toSeq
        /\ heard \subseteq 1 .. snap.toSeq
        /\ snap.toSeq \in heard \cup {0}
        /\ ~snap.truncated =>
             /\ log[t].refused = {}
             /\ snap.data = out
             /\ \A i, j \in heard : i .. j \subseteq heard

(* The elements of S, in the order of their stamps.                        *)
Sorted(S) ==
  [i \in 1 .. Cardinality(S) |->
     CHOOSE x \in S : Cardinality({y \in S : y.at <= x.at}) = i]

(***************************************************************************)
(* A replay resizes the screen where the terminal was resized: the plan of *)
(* a snapshot holds exactly the resizes since the first retained output,   *)
(* each at the offset of the retained data at which it happened, in the    *)
(* order they happened (resize, pruneResizes, replayPlan).  An output that *)
(* was refused as too large has no place in the data, so a terminal with   *)
(* one since then is excepted, until older output is gone.                 *)
(***************************************************************************)
ReplayFollowsResizes ==
  \A t \in Registered :
    LET chunks == buffer.states[t].chunks
        made == Sorted({r \in log[t].resizes : \E c \in chunks : c.seq <= r.afterSeq})
    IN  (\A n \in log[t].refused, c \in chunks : n < c.seq) =>
          Snapshot(t).replay.resizes =
            [i \in DOMAIN made |->
               [offset |-> Lengths({c \in chunks : c.seq <= made[i].afterSeq}),
                size |-> made[i].size]]

=============================================================================
