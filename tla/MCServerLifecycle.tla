-------------------------- MODULE MCServerLifecycle --------------------------
(***************************************************************************)
(* ServerLifecycle for TLC: two servers on the same ports, which is also a *)
(* server that is started again, and two connections.                      *)
(***************************************************************************)
EXTENDS ServerLifecycle, TLC

CONSTANTS s1, s2, c1, c2

MCServers == {s1, s2}
MCConnections == {c1, c2}
OneServer == {s1}
OneConnection == {c1}
MCConfigs == {Protocols, {"rtsp"}}

Symmetric == Permutations(MCServers) \union Permutations(MCConnections)
=============================================================================
