------------------------------- MODULE MCGlob -------------------------------
(***************************************************************************)
(* An instance of Glob: three urls, two of them in one bucket.             *)
(***************************************************************************)
EXTENDS Glob, TLC

CONSTANTS u1, u2, u3

Hashes == u1 :> 7 @@ u2 :> 4 @@ u3 :> 2
Symmetry == Permutations(Ends) \cup Permutations(Verbs)
=============================================================================
