--------------------------- MODULE PresentedOutput ---------------------------
(***************************************************************************)
(* What a client promises about the presentations of one terminal, without *)
(* sessions, snapshots, demand or connections: an attached viewer sees the *)
(* output of the PTY from its start up to some point, and that point never *)
(* goes back while the viewer stays attached.                              *)
(*                                                                         *)
(* TerminalOutputProofs shows that TerminalPresentation implements         *)
(* it.                                                                     *)
(***************************************************************************)
EXTENDS Naturals, Sequences

CONSTANTS
    Viewers,  \* possible attachments
    Chunks    \* what a PTY may write at once

VARIABLES
    written,   \* the output of the PTY
    attached,  \* the viewers that are there
    seen       \* seen[v]: the output v shows

vars == <<written, attached, seen>>

Init ==
    /\ written = <<>>
    /\ attached = {}
    /\ seen = [v \in Viewers |-> <<>>]

Write(c) ==
    /\ written' = Append(written, c)
    /\ UNCHANGED <<attached, seen>>

\* A viewer comes, and sees nothing yet.
Attach(v) ==
    /\ v \notin attached
    /\ attached' = attached \cup {v}
    /\ seen' = [seen EXCEPT ![v] = <<>>]
    /\ UNCHANGED written

Detach(v) ==
    /\ v \in attached
    /\ attached' = attached \ {v}
    /\ UNCHANGED <<written, seen>>

\* A viewer sees more of the output: no less than before, and nothing else.
See(v) ==
    /\ v \in attached
    /\ \E n \in Len(seen[v])..Len(written) :
          seen' = [seen EXCEPT ![v] = SubSeq(written, 1, n)]
    /\ UNCHANGED <<written, attached>>

Next ==
    \/ \E c \in Chunks : Write(c)
    \/ \E v \in Viewers : Attach(v) \/ Detach(v) \/ See(v)

Spec == Init /\ [][Next]_vars
=============================================================================
