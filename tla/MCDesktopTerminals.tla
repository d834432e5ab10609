-------------------------- MODULE MCDesktopTerminals --------------------------
(* Two Sessions with an agent of one provider, and one without an agent.  *)
EXTENDS DesktopTerminals, TLC

CONSTANTS s1, s2, s3, Agents
AgentOf == (s1 :> Agents) @@ (s2 :> Agents) @@ (s3 :> None)
Symmetry == Permutations({s1, s2}) \cup Permutations(Terminals)
=============================================================================
