------------------------------- MODULE Router -------------------------------
(***************************************************************************)
(* What a program may rely on when it gives its endpoints verbs and urls   *)
(* (fra_end_url_add, src/include/fra/core.h): a request is served by the   *)
(* endpoint that was given its verb and its url first, and by none if none *)
(* was.  Giving can fail, and then changes nothing.                        *)
(***************************************************************************)
CONSTANTS Verbs, Urls, Ends, NULL

VARIABLES
  given,  \* the endpoint the program gave a verb and url first
  route   \* the endpoint that serves them

Nowhere == [v \in Verbs |-> [u \in Urls |-> NULL]]

Init == given = Nowhere /\ route = Nowhere

(* One more verb and url may have an endpoint, which it keeps ...           *)
Give ==
  \E e \in Ends, v \in Verbs, u \in Urls :
    given' = [given EXCEPT ![v][u] = IF @ = NULL THEN e ELSE @]

(* ... until the library is deinitialised.                                  *)
Forget == given' = Nowhere

Next == (Give \/ Forget) /\ route' = given'

Spec == Init /\ [][Next]_<<given, route>>
=============================================================================
