------------------------------- MODULE MCVar -------------------------------
(***************************************************************************)
(* Instances of Var: sizes, hashes, and which thread registers where.      *)
(***************************************************************************)
EXTENDS Var, TLC

CONSTANTS b1, b2, t1, t2, n1, n2, char, int, end

Sizes == char :> 1 @@ int :> 3
Hashes == n1 :> 7 @@ n2 :> 4   \* in one bucket of three

(* Both threads register request variables, one those of the endpoint.      *)
Shared == Glob :> {t1, t2} @@ end :> {t1}
=============================================================================
