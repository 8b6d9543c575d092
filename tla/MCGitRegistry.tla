---------------------------- MODULE MCGitRegistry ----------------------------
(* Instances of GitRegistry for TLC. *)
EXTENDS GitRegistry, TLC

CONSTANTS p1, p2, main, v1, bad, c1, c2

History == c1 :> {c1} @@ c2 :> {c1, c2}
Branches == {<<main, c1>>, <<main, c2>>, <<c1, c2>>, <<v1, c2>>}
Releases == {<<v1, c1>>, <<v1, c2>>}
Pinned == [branch : {main}, ref : {NoName, v1, c1, bad}, force : BOOLEAN]
Processes == Permutations(Procs)
=============================================================================
