-------------------------- MODULE MCDeviceOperations --------------------------
(***************************************************************************)
(* TLC's instance of DeviceOperations: two plans for one Checkout, in the  *)
(* pairs that compete for it or follow one another.                        *)
(***************************************************************************)
EXTENDS DeviceOperations

CONSTANTS p1, p2    \* the two elements of Plans

\* What the plans are for, whether the Checkout is there at the start, and
\* whether something may come to be in it.
Agenda ==
    \E agenda \in {
            [there |-> FALSE, kinds |-> <<"workspace", "workspace">>, worked |-> FALSE],
            [there |-> FALSE, kinds |-> <<"workspace", "align">>, worked |-> FALSE],
            [there |-> FALSE, kinds |-> <<"isolated", "cleanup">>, worked |-> TRUE],
            [there |-> TRUE, kinds |-> <<"cleanup", "promote">>, worked |-> FALSE] } :
        /\ \A k \in Checkouts : owned[k] = agenda.there
        /\ <<Kind(p1), Kind(p2)>> = agenda.kinds
        /\ arrivals = IF agenda.worked THEN 0 ELSE MaxUses

MCInit == Init /\ Agenda

MCSpec == MCInit /\ [][Next]_vars /\ WF_vars(Execute)
=============================================================================
