--------------------------- MODULE MCRuntimeHost ---------------------------
(* TLC's instances of RuntimeHost: every terminal is one of a single Session. *)
EXTENDS RuntimeHost

MCSessionOf == [t \in Terminals |-> CHOOSE s \in Sessions : TRUE]
=============================================================================
