------------------------------ MODULE MCServer ------------------------------
(* Two Servers and their clients; one Server for the runs that need a lone  *)
(* one.                                                                     *)
EXTENDS Server, TLC

CONSTANTS s1, s2, c1, c2

MCServers == {s1, s2}
MCOneServer == {s1}
MCNone == {}
MCConns == {c1, c2}

MCSymmetry == Permutations(MCServers) \cup Permutations(MCConns)
=============================================================================
