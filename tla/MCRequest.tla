----------------------------- MODULE MCRequest -----------------------------
(* The instances of Request that TLC checks: two endpoints, room for three  *)
(* objects of each kind, and the failures each question needs.              *)
EXTENDS Request

Errors == {-1, 403}
Zeroed  == {NULL}
Garbage == {NULL, Wild}

(* Any hook may refuse a request, and malloc of a request may fail; what is *)
(* left out makes the code go wrong, and has runs of its own.               *)
Refusals == {"REQ_INCOMING", "REQ_CREATED", "REQ_BEFORE_FCGX",
             "REQ_BEFORE_ENDPOINT", "REQ_NEW", "revents", "malloc_req", "param"}
FreeHooks  == {"REQ_FREE", "END_STORE_FREE"}
ShrinkFails == Refusals \cup FreeHooks
StoreHookFails == {"END_STORE_CREATED"}
Everything == HookTypes \cup CallTypes

=============================================================================
