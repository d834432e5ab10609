--------------------------- MODULE SessionControl ---------------------------
(***************************************************************************)
(* What the Environment Runtime promises about Session Control             *)
(* (CONTEXT.md, "Terminal Control Lease" and "Session Control"), without   *)
(* lease identities, proofs or events: a terminal has at most one          *)
(* controlling Device, every tenure gets a number of its own, and input    *)
(* reaches the PTY only within the tenure that is current.                 *)
(*                                                                         *)
(* TerminalInputLease, RuntimeHost and their proofs refer to it as the     *)
(* abstract specification.                                                 *)
(***************************************************************************)
EXTENDS Naturals

CONSTANTS
    Terminals,  \* terminal (PTY) identities
    Devices,    \* Soloe Devices, the possible controllers
    None        \* "no Device"

VARIABLES
    holder,     \* holder[t]: the Device in control of t, or None
    tenure,     \* tenure[t]: how many tenures t has had
    typed       \* typed[t]: the tenure of the last input t's PTY was given

vars == <<holder, tenure, typed>>

Init ==
    /\ holder = [t \in Terminals |-> None]
    /\ tenure = [t \in Terminals |-> 0]
    /\ typed  = [t \in Terminals |-> 0]

\* A new tenure of t begins, by claiming t or by taking it over.
Begin(t, d) ==
    /\ holder' = [holder EXCEPT ![t] = d]
    /\ tenure' = [tenure EXCEPT ![t] = @ + 1]
    /\ UNCHANGED typed

\* The tenure of t ends with nobody in control.
End(t) ==
    /\ holder[t] # None
    /\ holder' = [holder EXCEPT ![t] = None]
    /\ UNCHANGED <<tenure, typed>>

\* Every tenure ends: the Runtime shuts down.
EndAll ==
    /\ holder' = [t \in Terminals |-> None]
    /\ UNCHANGED <<tenure, typed>>

\* The controller types.
Input(t) ==
    /\ holder[t] # None
    /\ typed' = [typed EXCEPT ![t] = tenure[t]]
    /\ UNCHANGED <<holder, tenure>>

Next ==
    \/ \E t \in Terminals, d \in Devices : Begin(t, d)
    \/ \E t \in Terminals : End(t) \/ Input(t)
    \/ EndAll

Spec == Init /\ [][Next]_vars
=============================================================================
