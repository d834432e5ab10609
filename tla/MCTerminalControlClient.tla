----------------------- MODULE MCTerminalControlClient -----------------------
(* TLC's instances of TerminalControlClient: c1 runs on d1, every other client *)
(* on d2.                                                                      *)
EXTENDS TerminalControlClient

CONSTANTS c1, c2, d1, d2

MCDeviceOf == [c \in Clients |-> IF c = c1 THEN d1 ELSE d2]

\* Sizes are interchangeable, and so are the two clients with their Devices.
Swap == (c1 :> c2 @@ c2 :> c1) @@ (d1 :> d2 @@ d2 :> d1)
Symmetric == Permutations(Sizes) \cup {Swap @@ p : p \in Permutations(Sizes)}
=============================================================================
