---------------------------- MODULE MCRelayServer ----------------------------
(* Instances of RelayServer for TLC. *)
EXTENDS RelayServer, TLC

CONSTANTS r1, r2, s1, s2, reg1, reg2, http, api, ui

RequestSymmetry == Permutations(Requests)
=============================================================================
