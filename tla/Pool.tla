-------------------------------- MODULE Pool --------------------------------
(***************************************************************************)
(* What the library promises of the memory of requests and of endpoint     *)
(* stores (README.md:16 of the repository): "Malloc is then called only    *)
(* once for all the variables, when a new request comes in and there are   *)
(* no left overs from previous requests."  One pool per key; an object is  *)
(* waiting, used, or does not exist.                                       *)
(***************************************************************************)
CONSTANTS Keys, Ids

VARIABLES waiting, used   \* the objects of each key

PoolVars == <<waiting, used>>
Existing == UNION {waiting[k] \cup used[k] : k \in Keys}

Init ==
  /\ waiting = [k \in Keys |-> {}]
  /\ used = [k \in Keys |-> {}]

(* A left over of this key is used again.                                   *)
Reuse(k, x) ==
  /\ x \in waiting[k]
  /\ waiting' = [waiting EXCEPT ![k] = @ \ {x}]
  /\ used' = [used EXCEPT ![k] = @ \cup {x}]

(* Only without a left over is there a new object.                          *)
Make(k, x) ==
  /\ waiting[k] = {}
  /\ x \in Ids \ Existing
  /\ used' = [used EXCEPT ![k] = @ \cup {x}]
  /\ UNCHANGED waiting

GiveBack(k, x) ==
  /\ x \in used[k]
  /\ used' = [used EXCEPT ![k] = @ \ {x}]
  /\ waiting' = [waiting EXCEPT ![k] = @ \cup {x}]

(* An object stops existing while it is used, or while it waits.            *)
DropUsed(k, x) ==
  /\ x \in used[k]
  /\ used' = [used EXCEPT ![k] = @ \ {x}]
  /\ UNCHANGED waiting

DropWaiting(k, x) ==
  /\ x \in waiting[k]
  /\ waiting' = [waiting EXCEPT ![k] = @ \ {x}]
  /\ UNCHANGED used

Next == \E k \in Keys, x \in Ids :
  \/ Reuse(k, x) \/ Make(k, x) \/ GiveBack(k, x) \/ DropUsed(k, x) \/ DropWaiting(k, x)

Spec == Init /\ [][Next]_PoolVars
=============================================================================
