--------------------------- MODULE RequestProofs ---------------------------
(***************************************************************************)
(* Theorems about Request, for any endpoints, any addresses, any number of *)
(* connections and any error codes.                                        *)
(***************************************************************************)
EXTENDS Request, TLAPS, FiniteSetTheorems

(* What the theorems about memory assume of the failures: the code goes     *)
(* wrong when one of these calls fails, or on uninitialised memory that is  *)
(* not zero (the violated runs show how).                                   *)
Sound ==
  /\ MayFail \cap {"malloc_store", "END_STORE_CREATED", "accept"} = {}
  /\ Uninit = {NULL}

(* The growth factors of config.h: 1.618 in both cases.                     *)
Shipped == Growth >= 1000

(* A FREE hook that fails makes req_maybe_free and fra_end_free give up the *)
(* object, or the rest of the list, without freeing it.                     *)
FreeHooksSucceed == MayFail \cap {"REQ_FREE", "END_STORE_FREE"} = {}

USE DEF control, fields, reqCache, heap, storeCache, teardown, served, history

-----------------------------------------------------------------------------
(* The inductive invariant                                                  *)

(* The list of request objects is empty or has its head alone, and is empty *)
(* while the handler holds a request.  Live objects the library has lost    *)
(* (a FREE hook failed) may exist besides.                                  *)
ReqInv ==
  /\ HoldsReq => req \in reqs /\ empty_req = NULL
  /\ empty_req # NULL => empty_req \in reqs /\ req_next[empty_req] = NULL

(* The same for the stores of an endpoint that is not freed.                *)
Holds(e) == HoldsStore /\ endpoint[req] = e

StoreInv(e) ==
  /\ Holds(e) => endpoint_store[req] \in StoresOf(e) /\ store_empty[e] = NULL
  /\ store_empty[e] # NULL =>
       store_empty[e] \in StoresOf(e) /\ store_next[store_empty[e]] = NULL

(* What the request's endpoint is as the handler goes along.                *)
EndpointInv ==
  /\ pc \in {"req_created", "before_fcgx", "accept", "params", "before_endpoint",
             "route"} => endpoint[req] = NULL
  /\ pc \in {"store_set", "store_created", "req_new", "callback"} =>
       endpoint[req] \in Ends
  /\ pc \in {"give_back", "give_back_req"} => endpoint[req] \in Ends \cup {NULL}

PhaseInv ==
  /\ phase = "serving" => ends = Ends
  /\ pc \notin {"idle", "end_free", "deinit"} => phase = "serving"
  /\ pc \in {"end_free", "deinit"} => phase = "stopped"
  /\ pc = "end_free" => freeing \in ends
  /\ pc # "undefined"

Inv ==
  /\ TypeOK /\ ReqInv /\ EndpointInv /\ PhaseInv
  /\ \A e \in ends : StoreInv(e)

(* The counters: an object is counted once its CREATED hooks ran, and stays *)
(* counted when it is lost.                                                 *)
One(condition) == IF condition THEN 1 ELSE 0

ReqCount ==
  /\ IsFiniteSet(reqs)
  /\ phase = "serving" =>
       /\ empty_count = One(empty_req # NULL)
       /\ Cardinality(reqs) = all_count + One(pc = "req_created")

StoreCount(e) ==
  /\ IsFiniteSet(StoresOf(e))
  /\ phase = "serving" =>
       /\ store_empty_count[e] = One(store_empty[e] # NULL)
       /\ Cardinality(StoresOf(e)) = store_all_count[e] + One(pc = "store_created" /\ Holds(e))

CountInv == ReqCount /\ \A e \in ends : StoreCount(e)

(* Nothing is lost: every live object is on its list or in the handler.     *)
ReqLossless   == \A r \in reqs : r = empty_req \/ (HoldsReq /\ r = req)
StoreLossless(e) == \A s \in StoresOf(e) : s = store_empty[e] \/ (Holds(e) /\ s = endpoint_store[req])
Lossless == ReqLossless /\ \A e \in ends : StoreLossless(e)

(* The connection being served, and what has been said to it.               *)
AnswerInv ==
  /\ pc \in {"incoming", "get_req", "req_created", "before_fcgx", "accept", "exit"} =>
       accepted = 0 /\ answered = 0 /\ rc_ex
  /\ pc \in {"params", "before_endpoint", "route", "store_set", "store_created",
             "req_new", "callback"} => accepted = 1 /\ answered = 0 /\ rc_ex
  /\ pc \in {"incoming", "get_req", "req_created", "before_fcgx", "accept", "params",
             "before_endpoint", "route", "store_set", "store_created", "req_new",
             "callback"} => result = 0
  /\ pc \in {"give_back", "give_back_req"} =>
       IF result = -1 /\ rc_ex THEN accepted = 0 /\ answered = 0
                              ELSE accepted = 1 /\ answered = 1
  /\ pc \in {"idle", "end_free", "deinit"} =>
       \/ accepted = 1 /\ answered = 1
       \/ accepted = 0 /\ answered = 0 /\ events = 0
  /\ accepted <= 1 /\ answered <= 1
-----------------------------------------------------------------------------
(* Types                                                                    *)

(* A counter of a function of counters moves by one.                        *)
LEMMA CountSteps ==
  ASSUME NEW R, NEW f \in [R -> Int], NEW x
  PROVE  /\ [f EXCEPT ![x] = @ + 1] \in [R -> Int]
         /\ [f EXCEPT ![x] = @ - 1] \in [R -> Int]
  <1>1. CASE x \in R
    <2>1. f[x] + 1 \in Int /\ f[x] - 1 \in Int
      BY <1>1
    <2> QED BY <2>1
  <1>2. CASE x \notin R
    <2>1. [f EXCEPT ![x] = @ + 1] = f /\ [f EXCEPT ![x] = @ - 1] = f
      BY <1>2
    <2> QED BY <2>1
  <1> QED BY <1>1, <1>2

LEMMA TypeInit == Init => TypeOK
  BY UninitType, HookErrorsType, GrowthType DEF Init, TypeOK, Pcs

(* Hook types are added to what an object has seen.                         *)
LEMMA HookedSteps ==
  ASSUME hooked \in [ReqIds \cup StoreIds -> SUBSET HookTypes], NEW o,
         NEW t \in HookTypes, Completed(o, t)
  PROVE  hooked' \in [ReqIds \cup StoreIds -> SUBSET HookTypes]
  <1>1. CASE o \in ReqIds \cup StoreIds
    BY <1>1 DEF Completed
  <1>2. CASE o \notin ReqIds \cup StoreIds
    <2>1. hooked' = hooked
      BY <1>2 DEF Completed
    <2> QED BY <2>1
  <1> QED BY <1>1, <1>2

LEMMA TypeNext == TypeOK /\ [Next]_vars => TypeOK'
  <1> SUFFICES ASSUME TypeOK, [Next]_vars PROVE TypeOK'
    OBVIOUS
  <1> USE UninitType, HookErrorsType, GrowthType
      DEF TypeOK, Pcs, HookTypes, Completed, HookFails, Caused, Refuse, AfterGiveBack,
          Reset, NoCachedReq, NoCachedStore
  <1>1. CASE HandleNew
    BY <1>1 DEF HandleNew
  <1>2. CASE Incoming
    BY <1>2 DEF Incoming
  <1>3. CASE GetCachedReq
    BY <1>3 DEF GetCachedReq
  <1>4. CASE MallocReq
    BY <1>4 DEF MallocReq
  <1>5. CASE MallocReqFails
    BY <1>5 DEF MallocReqFails
  <1>6. CASE ReqCreated
    <2>1. pc' \in Pcs
      BY <1>6 DEF ReqCreated
    <2>2. all_count' \in Int
      BY <1>6 DEF ReqCreated
    <2>3. endpoint' \in [ReqIds -> Ends \cup {NULL, Wild}]
      BY <1>6 DEF ReqCreated
    <2>4. fcgx_defined' \in [ReqIds -> BOOLEAN]
      BY <1>6 DEF ReqCreated
    <2>5. hooked' \in [ReqIds \cup StoreIds -> SUBSET HookTypes]
      BY <1>6, HookedSteps DEF ReqCreated
    <2>6. UNCHANGED <<req, rc_ex, result, endpoint_store, req_next, empty_req,
                    empty_count, reqs, stores, store_empty, store_empty_count,
                    store_all_count, store_next, ends, phase, freeing, events,
                    owner, accepted, answered, cause>>
      BY <1>6 DEF ReqCreated
    <2> QED BY <2>1, <2>2, <2>3, <2>4, <2>5, <2>6
  <1>7. CASE ReqCreatedFails
    BY <1>7 DEF ReqCreatedFails
  <1>8. CASE BeforeFcgx
    BY <1>8 DEF BeforeFcgx
  <1>9. CASE Accept
    <2>1. pc' \in Pcs
      BY <1>9 DEF Accept
    <2>2. /\ accepted' \in Nat
          /\ answered' \in Nat
          /\ cause' \in Int
      BY <1>9 DEF Accept
    <2>3. fcgx_defined' \in [ReqIds -> BOOLEAN]
      BY <1>9 DEF Accept
    <2>4. UNCHANGED <<req, rc_ex, result, endpoint, endpoint_store, empty_req,
                    empty_count, all_count, req_next, reqs, stores, store_empty,
                    store_empty_count, store_all_count, store_next, ends, phase,
                    freeing, events, owner, hooked>>
      BY <1>9 DEF Accept
    <2> QED BY <2>1, <2>2, <2>3, <2>4
  <1>10. CASE AcceptFails
    BY <1>10 DEF AcceptFails
  <1>11. CASE Params
    <2>1. /\ pc' \in Pcs
          /\ rc_ex' \in BOOLEAN
          /\ result' \in {0, -1}
      BY <1>11 DEF Params
    <2>2. /\ accepted' \in Nat
          /\ answered' \in Nat
          /\ cause' \in Int
      BY <1>11 DEF Params
    <2>3. UNCHANGED <<req, endpoint, endpoint_store, fcgx_defined, empty_req,
                    empty_count, all_count, req_next, reqs, stores, store_empty,
                    store_empty_count, store_all_count, store_next, ends, phase,
                    freeing, events, owner, hooked>>
      BY <1>11 DEF Params
    <2> QED BY <2>1, <2>2, <2>3
  <1>12. CASE BeforeEndpoint
    <2>1. /\ pc' \in Pcs
          /\ rc_ex' \in BOOLEAN
          /\ result' \in {0, -1}
      BY <1>12 DEF BeforeEndpoint
    <2>2. /\ accepted' \in Nat
          /\ answered' \in Nat
          /\ cause' \in Int
      BY <1>12 DEF BeforeEndpoint
    <2>3. UNCHANGED <<req, endpoint, endpoint_store, fcgx_defined, empty_req,
                    empty_count, all_count, req_next, reqs, stores, store_empty,
                    store_empty_count, store_all_count, store_next, ends, phase,
                    freeing, events, owner, hooked>>
      BY <1>12 DEF BeforeEndpoint
    <2> QED BY <2>1, <2>2, <2>3
  <1>13. CASE Route
    <2>1. /\ pc' \in Pcs
          /\ rc_ex' \in BOOLEAN
          /\ result' \in {0, -1}
      BY <1>13 DEF Route
    <2>2. /\ accepted' \in Nat
          /\ answered' \in Nat
          /\ cause' \in Int
      BY <1>13 DEF Route
    <2>3. endpoint' \in [ReqIds -> Ends \cup {NULL, Wild}]
      BY <1>13 DEF Route
    <2>4. UNCHANGED <<req, endpoint_store, fcgx_defined, empty_req, empty_count,
                    all_count, req_next, reqs, stores, store_empty,
                    store_empty_count, store_all_count, store_next, ends, phase,
                    freeing, events, owner, hooked>>
      BY <1>13 DEF Route
    <2> QED BY <2>1, <2>2, <2>3, <2>4
  <1>14. CASE SetCachedStore
    <2>1. pc' \in Pcs
      BY <1>14 DEF SetCachedStore
    <2>2. endpoint_store' \in [ReqIds -> StoreIds \cup {NULL, Wild}]
      <3>1. endpoint_store' = [endpoint_store EXCEPT ![req] = store_empty[endpoint[req]]]
        BY <1>14 DEF SetCachedStore
      <3>2. store_empty[endpoint[req]] \in StoreIds
        BY <1>14 DEF SetCachedStore
      <3> QED BY <3>1, <3>2
    <2>3. store_empty' \in [Ends -> StoreIds \cup {NULL}]
      BY <1>14 DEF SetCachedStore
    <2>4. store_empty_count' \in [Ends -> Int]
      BY <1>14, CountSteps DEF SetCachedStore
    <2>5. UNCHANGED <<req, rc_ex, result, endpoint, fcgx_defined, empty_req,
                    empty_count, all_count, req_next, reqs, stores,
                    store_all_count, store_next, ends, phase, freeing, events,
                    owner, hooked, accepted, answered, cause>>
      BY <1>14 DEF SetCachedStore
    <2> QED BY <2>1, <2>2, <2>3, <2>4, <2>5
  <1>15. CASE MallocStore
    <2>1. /\ pc' \in Pcs
          /\ stores' \subseteq StoreIds
      BY <1>15 DEF MallocStore
    <2>2. endpoint_store' \in [ReqIds -> StoreIds \cup {NULL, Wild}]
      <3>1. PICK s \in StoreIds : endpoint_store' = [endpoint_store EXCEPT ![req] = s]
        BY <1>15 DEF MallocStore
      <3> QED BY <3>1
    <2>3. store_next' \in [StoreIds -> StoreIds \cup {NULL}]
      BY <1>15 DEF MallocStore
    <2>4. owner' \in [StoreIds -> Ends \cup {NULL}]
      BY <1>15 DEF MallocStore
    <2>5. hooked' \in [ReqIds \cup StoreIds -> SUBSET HookTypes]
      BY <1>15 DEF MallocStore
    <2>6. UNCHANGED <<req, rc_ex, result, endpoint, fcgx_defined, empty_req,
                    empty_count, all_count, req_next, reqs, store_empty,
                    store_empty_count, store_all_count, ends, phase, freeing,
                    events, accepted, answered, cause>>
      BY <1>15 DEF MallocStore
    <2> QED BY <2>1, <2>2, <2>3, <2>4, <2>5, <2>6
  <1>16. CASE MallocStoreFails
    <2>1. /\ pc' \in Pcs
          /\ rc_ex' \in BOOLEAN
          /\ result' \in {0, -1}
      BY <1>16 DEF MallocStoreFails
    <2>2. /\ accepted' \in Nat
          /\ answered' \in Nat
          /\ cause' \in Int
      BY <1>16 DEF MallocStoreFails
    <2>3. UNCHANGED <<req, endpoint, endpoint_store, fcgx_defined, empty_req,
                    empty_count, all_count, req_next, reqs, stores, store_empty,
                    store_empty_count, store_all_count, store_next, ends, phase,
                    freeing, events, owner, hooked>>
      BY <1>16 DEF MallocStoreFails
    <2> QED BY <2>1, <2>2, <2>3
  <1>17. CASE StoreCreated
    <2>1. pc' \in Pcs
      BY <1>17 DEF StoreCreated
    <2>2. store_all_count' \in [Ends -> Int]
      BY <1>17, CountSteps DEF StoreCreated
    <2>3. hooked' \in [ReqIds \cup StoreIds -> SUBSET HookTypes]
      BY <1>17, HookedSteps DEF StoreCreated
    <2>4. UNCHANGED <<req, rc_ex, result, endpoint, endpoint_store,
                    fcgx_defined, empty_req, empty_count, all_count, req_next,
                    reqs, stores, store_empty, store_empty_count, store_next,
                    ends, phase, freeing, events, owner, accepted, answered,
                    cause>>
      BY <1>17 DEF StoreCreated
    <2> QED BY <2>1, <2>2, <2>3, <2>4
  <1>18. CASE StoreCreatedFails
    <2>1. /\ pc' \in Pcs
          /\ rc_ex' \in BOOLEAN
          /\ result' \in {0, -1}
          /\ stores' \subseteq StoreIds
      BY <1>18 DEF StoreCreatedFails
    <2>2. /\ accepted' \in Nat
          /\ answered' \in Nat
          /\ cause' \in Int
      BY <1>18 DEF StoreCreatedFails
    <2>3. UNCHANGED <<req, endpoint, endpoint_store, fcgx_defined, empty_req,
                    empty_count, all_count, req_next, reqs, store_empty,
                    store_empty_count, store_all_count, store_next, ends, phase,
                    freeing, events, owner, hooked>>
      BY <1>18 DEF StoreCreatedFails
    <2> QED BY <2>1, <2>2, <2>3
  <1>19. CASE ReqNew
    <2>1. /\ pc' \in Pcs
          /\ rc_ex' \in BOOLEAN
          /\ result' \in {0, -1}
      BY <1>19 DEF ReqNew
    <2>2. /\ accepted' \in Nat
          /\ answered' \in Nat
          /\ cause' \in Int
      BY <1>19 DEF ReqNew
    <2>3. UNCHANGED <<req, endpoint, endpoint_store, fcgx_defined, empty_req,
                    empty_count, all_count, req_next, reqs, stores, store_empty,
                    store_empty_count, store_all_count, store_next, ends, phase,
                    freeing, events, owner, hooked>>
      BY <1>19 DEF ReqNew
    <2> QED BY <2>1, <2>2, <2>3
  <1>20. CASE Callback
    BY <1>20 DEF Callback
  <1>21. CASE NoStoreToGiveBack
    BY <1>21 DEF NoStoreToGiveBack
  <1>22. CASE CacheStore
    BY <1>22 DEF CacheStore
  <1>23. CASE FreeStore
    BY <1>23 DEF FreeStore
  <1>24. CASE FreeStoreFails
    BY <1>24 DEF FreeStoreFails
  <1>25. CASE CacheReq
    <2>1. /\ pc' \in Pcs
          /\ empty_req' \in ReqIds \cup {NULL}
      BY <1>25 DEF CacheReq
    <2>2. empty_count' \in Int
      BY <1>25 DEF CacheReq
    <2>3. req_next' \in [ReqIds -> ReqIds \cup {NULL}]
      BY <1>25 DEF CacheReq
    <2>4. UNCHANGED <<req, rc_ex, result, endpoint, endpoint_store,
                    fcgx_defined, all_count, reqs, stores, store_empty,
                    store_empty_count, store_all_count, store_next, ends, phase,
                    freeing, events, owner, hooked, accepted, answered, cause>>
      BY <1>25 DEF CacheReq
    <2> QED BY <2>1, <2>2, <2>3, <2>4
  <1>26. CASE FreeReq
    <2>1. /\ pc' \in Pcs
          /\ reqs' \subseteq ReqIds
      BY <1>26 DEF FreeReq
    <2>2. all_count' \in Int
      BY <1>26 DEF FreeReq
    <2>3. hooked' \in [ReqIds \cup StoreIds -> SUBSET HookTypes]
      BY <1>26, HookedSteps DEF FreeReq
    <2>4. UNCHANGED <<req, rc_ex, result, endpoint, endpoint_store,
                    fcgx_defined, empty_req, empty_count, req_next, stores,
                    store_empty, store_empty_count, store_all_count, store_next,
                    ends, phase, freeing, events, owner, accepted, answered,
                    cause>>
      BY <1>26 DEF FreeReq
    <2> QED BY <2>1, <2>2, <2>3, <2>4
  <1>27. CASE FreeReqFails
    BY <1>27 DEF FreeReqFails
  <1>28. CASE ExitRequest
    BY <1>28 DEF ExitRequest
  <1>29. CASE ExitRequestFails
    BY <1>29 DEF ExitRequestFails
  <1>30. CASE Dangling
    BY <1>30 DEF Dangling
  <1>31. CASE Stop
    BY <1>31 DEF Stop
  <1>32. CASE EndFree
    BY <1>32 DEF EndFree
  <1>33. CASE EndFreeStore
    <2>1. /\ pc' \in Pcs
          /\ result' \in {0, -1}
          /\ stores' \subseteq StoreIds
          /\ ends' \subseteq Ends
          /\ freeing' \in Ends \cup {NULL}
      BY <1>33 DEF EndFreeStore
    <2>2. store_empty' \in [Ends -> StoreIds \cup {NULL}]
      <3>1. store_empty' = [store_empty EXCEPT ![freeing] =
                              store_next[store_empty[freeing]]]
        BY <1>33 DEF EndFreeStore
      <3>2. store_next[store_empty[freeing]] \in StoreIds \cup {NULL}
        BY <1>33 DEF EndFreeStore
      <3> QED BY <3>1, <3>2
    <2>3. hooked' \in [ReqIds \cup StoreIds -> SUBSET HookTypes]
      BY <1>33 DEF EndFreeStore
    <2>4. UNCHANGED <<req, rc_ex, endpoint, endpoint_store, fcgx_defined,
                    empty_req, empty_count, all_count, req_next, reqs,
                    store_empty_count, store_all_count, store_next, phase,
                    events, owner, accepted, answered, cause>>
      BY <1>33 DEF EndFreeStore
    <2> QED BY <2>1, <2>2, <2>3, <2>4
  <1>34. CASE EndFreeDone
    BY <1>34 DEF EndFreeDone
  <1>35. CASE ReqDeinit
    BY <1>35 DEF ReqDeinit
  <1>36. CASE ReqDeinitOne
    BY <1>36 DEF ReqDeinitOne
  <1>37. CASE ReqDeinitDone
    BY <1>37 DEF ReqDeinitDone
  <1>38. CASE Ended
    BY <1>38 DEF Ended, vars
  <1>39. CASE UNCHANGED vars
    BY <1>39 DEF vars
  <1> QED
    BY <1>1, <1>2, <1>3, <1>4, <1>5, <1>6, <1>7, <1>8, <1>9, <1>10, <1>11, <1>12, <1>13, <1>14, <1>15, <1>16, <1>17, <1>18, <1>19, <1>20, <1>21, <1>22, <1>23, <1>24, <1>25, <1>26, <1>27, <1>28, <1>29, <1>30, <1>31, <1>32, <1>33, <1>34, <1>35, <1>36, <1>37, <1>38, <1>39 DEF Next, Handler, Acquire, Serve, SetStore, GiveBack, Teardown

(* TypeOK: every variable keeps its type, whatever fails.                   *)
THEOREM Typing == Spec => []TypeOK
  BY TypeInit, TypeNext, PTL DEF Spec


-----------------------------------------------------------------------------
(* Preservation of the invariant                                            *)

(* The steps the assumptions and the invariant exclude.                     *)
LEMMA NoFault ==
  ASSUME Sound
  PROVE  ~AcceptFails /\ ~ExitRequestFails /\ ~MallocStoreFails /\ ~StoreCreatedFails
  BY DEF Sound, AcceptFails, ExitRequestFails, MallocStoreFails, StoreCreatedFails, HookFails

LEMMA NoDangling ==
  ASSUME Inv
  PROVE  ~Dangling
  <1>1. pc \in HookPcs \cup {"store_set", "give_back"} => EndpointUsable(req)
    BY DEF Inv, EndpointInv, PhaseInv, HookPcs, EndpointUsable
  <1>2. ASSUME NEW e \in ends
        PROVE  store_empty[e] \in stores \cup {NULL}
    BY <1>2 DEF Inv, StoreInv, StoresOf
  <1>3. ASSUME NEW e \in ends, Holds(e)
        PROVE  endpoint_store[req] \in stores
    BY <1>3 DEF Inv, StoreInv, StoresOf
  <1>4. pc = "give_back" /\ endpoint[req] \in ends => endpoint_store[req] \in stores
    BY <1>3, PointersDistinct DEF Holds, HoldsStore, Inv, TypeOK
  <1>5. pc = "end_free" => store_empty[freeing] \in stores \cup {NULL}
    BY <1>2 DEF Inv, PhaseInv
  <1> QED BY <1>1, <1>2, <1>4, <1>5 DEF Dangling

(* What is left of Next.                                                    *)
Steps ==
  \/ HandleNew \/ Incoming \/ GetCachedReq \/ MallocReq \/ MallocReqFails
  \/ ReqCreated \/ ReqCreatedFails \/ BeforeFcgx \/ Accept \/ Params
  \/ BeforeEndpoint \/ Route \/ SetCachedStore \/ MallocStore \/ StoreCreated
  \/ ReqNew \/ Callback \/ NoStoreToGiveBack \/ CacheStore \/ FreeStore
  \/ FreeStoreFails \/ CacheReq \/ FreeReq \/ FreeReqFails
  \/ ExitRequest \/ Stop \/ EndFree \/ EndFreeStore \/ EndFreeDone
  \/ ReqDeinit \/ ReqDeinitOne \/ ReqDeinitDone

LEMMA StepCases ==
  ASSUME Inv, Sound, [Next]_vars
  PROVE  Steps \/ UNCHANGED vars
  <1>1. Next => Steps \/ UNCHANGED vars
    BY NoFault, NoDangling
    DEF Next, Steps, Handler, Acquire, Serve, SetStore, GiveBack, Teardown, Ended
  <1> QED BY <1>1

LEMMA PhaseNext ==
  ASSUME TypeOK, Inv, Sound, [Next]_vars
  PROVE  PhaseInv'
  <1> USE DEF PhaseInv, Refuse, AfterGiveBack
  <1> PhaseInv
    BY DEF Inv
  <1>0. Steps \/ UNCHANGED vars
    BY StepCases
  <1>1. CASE HandleNew
    BY <1>1 DEF HandleNew
  <1>2. CASE Incoming
    BY <1>2 DEF Incoming
  <1>3. CASE GetCachedReq
    BY <1>3 DEF GetCachedReq
  <1>4. CASE MallocReq
    BY <1>4 DEF MallocReq
  <1>5. CASE MallocReqFails
    BY <1>5 DEF MallocReqFails
  <1>6. CASE ReqCreated
    BY <1>6 DEF ReqCreated
  <1>7. CASE ReqCreatedFails
    BY <1>7 DEF ReqCreatedFails
  <1>8. CASE BeforeFcgx
    BY <1>8 DEF BeforeFcgx
  <1>9. CASE Accept
    BY <1>9 DEF Accept
  <1>10. CASE Params
    BY <1>10 DEF Params
  <1>11. CASE BeforeEndpoint
    BY <1>11 DEF BeforeEndpoint
  <1>12. CASE Route
    BY <1>12 DEF Route
  <1>13. CASE SetCachedStore
    BY <1>13 DEF SetCachedStore
  <1>14. CASE MallocStore
    BY <1>14 DEF MallocStore
  <1>15. CASE StoreCreated
    BY <1>15 DEF StoreCreated
  <1>16. CASE ReqNew
    BY <1>16 DEF ReqNew
  <1>17. CASE Callback
    BY <1>17 DEF Callback
  <1>18. CASE NoStoreToGiveBack
    BY <1>18 DEF NoStoreToGiveBack
  <1>19. CASE CacheStore
    BY <1>19 DEF CacheStore
  <1>20. CASE CacheReq
    BY <1>20 DEF CacheReq
  <1>21. CASE ExitRequest
    BY <1>21 DEF ExitRequest
  <1>22. CASE Stop
    BY <1>22 DEF Stop
  <1>23. CASE EndFree
    BY <1>23 DEF EndFree
  <1>24. CASE EndFreeStore
    BY <1>24 DEF EndFreeStore
  <1>25. CASE EndFreeDone
    BY <1>25 DEF EndFreeDone
  <1>26. CASE ReqDeinit
    BY <1>26 DEF ReqDeinit
  <1>27. CASE ReqDeinitOne
    BY <1>27 DEF ReqDeinitOne
  <1>28. CASE ReqDeinitDone
    BY <1>28 DEF ReqDeinitDone
  <1>29. CASE UNCHANGED vars
    BY <1>29 DEF vars
  <1>30. CASE FreeStore
    BY <1>30 DEF FreeStore
  <1>31. CASE FreeStoreFails
    BY <1>31 DEF FreeStoreFails
  <1>32. CASE FreeReq
    BY <1>32 DEF FreeReq
  <1>33. CASE FreeReqFails
    BY <1>33 DEF FreeReqFails
  <1> QED
    BY <1>0, <1>1, <1>2, <1>3, <1>4, <1>5, <1>6, <1>7, <1>8, <1>9, <1>10,
       <1>11, <1>12, <1>13, <1>14, <1>15, <1>16, <1>17, <1>18, <1>19, <1>20,
       <1>21, <1>22, <1>23, <1>24, <1>25, <1>26, <1>27, <1>28, <1>29, <1>30,
       <1>31, <1>32, <1>33 DEF Steps

LEMMA EndpointNext ==
  ASSUME TypeOK, Inv, Sound, [Next]_vars
  PROVE  EndpointInv'
  <1> USE DEF EndpointInv, Refuse, AfterGiveBack, Reset
  <1> EndpointInv /\ ReqInv
    BY DEF Inv
  <1> endpoint \in [ReqIds -> Ends \cup {NULL, Wild}] /\ Uninit = {NULL}
    BY DEF TypeOK, Sound
  <1> HoldsReq => req \in ReqIds
    BY DEF Inv, ReqInv, TypeOK
  <1> empty_req # NULL => empty_req \in ReqIds
    BY DEF TypeOK
  <1> USE DEF HoldsReq
  <1>0. Steps \/ UNCHANGED vars
    BY StepCases
  <1>1. CASE HandleNew
    BY <1>1 DEF HandleNew
  <1>2. CASE Incoming
    BY <1>2 DEF Incoming
  <1>3. CASE GetCachedReq
    BY <1>3 DEF GetCachedReq
  <1>4. CASE MallocReq
    BY <1>4 DEF MallocReq
  <1>5. CASE MallocReqFails
    BY <1>5 DEF MallocReqFails
  <1>6. CASE ReqCreated
    BY <1>6 DEF ReqCreated
  <1>7. CASE ReqCreatedFails
    BY <1>7 DEF ReqCreatedFails
  <1>8. CASE BeforeFcgx
    BY <1>8 DEF BeforeFcgx
  <1>9. CASE Accept
    BY <1>9 DEF Accept
  <1>10. CASE Params
    BY <1>10 DEF Params
  <1>11. CASE BeforeEndpoint
    BY <1>11 DEF BeforeEndpoint
  <1>12. CASE Route
    BY <1>12 DEF Route
  <1>13. CASE SetCachedStore
    BY <1>13 DEF SetCachedStore
  <1>14. CASE MallocStore
    BY <1>14 DEF MallocStore
  <1>15. CASE StoreCreated
    BY <1>15 DEF StoreCreated
  <1>16. CASE ReqNew
    BY <1>16 DEF ReqNew
  <1>17. CASE Callback
    BY <1>17 DEF Callback
  <1>18. CASE NoStoreToGiveBack
    BY <1>18 DEF NoStoreToGiveBack
  <1>19. CASE CacheStore
    BY <1>19 DEF CacheStore
  <1>20. CASE CacheReq
    BY <1>20 DEF CacheReq
  <1>21. CASE ExitRequest
    BY <1>21 DEF ExitRequest
  <1>22. CASE Stop
    BY <1>22 DEF Stop
  <1>23. CASE EndFree
    BY <1>23 DEF EndFree
  <1>24. CASE EndFreeStore
    BY <1>24 DEF EndFreeStore
  <1>25. CASE EndFreeDone
    BY <1>25 DEF EndFreeDone
  <1>26. CASE ReqDeinit
    BY <1>26 DEF ReqDeinit
  <1>27. CASE ReqDeinitOne
    BY <1>27 DEF ReqDeinitOne
  <1>28. CASE ReqDeinitDone
    BY <1>28 DEF ReqDeinitDone
  <1>29. CASE UNCHANGED vars
    BY <1>29 DEF vars
  <1>30. CASE FreeStore
    BY <1>30 DEF FreeStore
  <1>31. CASE FreeStoreFails
    BY <1>31 DEF FreeStoreFails
  <1>32. CASE FreeReq
    BY <1>32 DEF FreeReq
  <1>33. CASE FreeReqFails
    BY <1>33 DEF FreeReqFails
  <1> QED
    BY <1>0, <1>1, <1>2, <1>3, <1>4, <1>5, <1>6, <1>7, <1>8, <1>9, <1>10,
       <1>11, <1>12, <1>13, <1>14, <1>15, <1>16, <1>17, <1>18, <1>19, <1>20,
       <1>21, <1>22, <1>23, <1>24, <1>25, <1>26, <1>27, <1>28, <1>29, <1>30,
       <1>31, <1>32, <1>33 DEF Steps

(* Most steps leave the request objects, their list and their counters      *)
(* alone, and the handler holds what it held.                               *)
ReqQuiet ==
  /\ UNCHANGED <<reqs, empty_req, req_next, empty_count, all_count>>
  /\ HoldsReq' <=> HoldsReq
  /\ HoldsReq => req' = req
  /\ pc' = "req_created" <=> pc = "req_created"
  /\ phase' = "serving" => phase = "serving"

LEMMA ReqMoves ==
  ASSUME Inv, Sound, [Next]_vars
  PROVE  \/ ReqQuiet
         \/ GetCachedReq \/ MallocReq \/ ReqCreated \/ ReqCreatedFails \/ CacheReq
         \/ FreeReq \/ FreeReqFails \/ FreeStoreFails \/ ReqDeinitOne
  <1> USE DEF ReqQuiet, HoldsReq, Refuse
  <1>1. HandleNew \/ Incoming \/ MallocReqFails \/ BeforeFcgx \/ Accept => ReqQuiet
    BY DEF HandleNew, Incoming, MallocReqFails, BeforeFcgx, Accept
  <1>2. Params \/ BeforeEndpoint \/ Route \/ ReqNew \/ Callback => ReqQuiet
    BY DEF Params, BeforeEndpoint, Route, ReqNew, Callback
  <1>3. SetCachedStore \/ MallocStore \/ StoreCreated => ReqQuiet
    BY DEF SetCachedStore, MallocStore, StoreCreated
  <1>4. NoStoreToGiveBack \/ CacheStore \/ FreeStore => ReqQuiet
    BY DEF NoStoreToGiveBack, CacheStore, FreeStore
  <1>5. ExitRequest \/ Stop \/ EndFree \/ EndFreeDone => ReqQuiet
    BY DEF ExitRequest, Stop, EndFree, EndFreeDone
  <1>6. EndFreeStore => ReqQuiet
    BY DEF EndFreeStore
  <1>7. ReqDeinit \/ ReqDeinitDone => ReqQuiet
    BY DEF ReqDeinit, ReqDeinitDone
  <1>8. UNCHANGED vars => ReqQuiet
    BY DEF vars
  <1> HIDE DEF ReqQuiet, HoldsReq, Refuse
  <1> QED BY StepCases, <1>1, <1>2, <1>3, <1>4, <1>5, <1>6, <1>7, <1>8 DEF Steps

(* The same for the stores of the endpoints that are left.                  *)
StoreQuiet ==
  /\ UNCHANGED <<stores, owner, ends, store_empty, store_next, store_empty_count,
                 store_all_count>>
  /\ \A e \in ends :
       /\ Holds(e)' <=> Holds(e)
       /\ Holds(e) => endpoint_store'[req'] = endpoint_store[req]
       /\ pc' = "store_created" /\ Holds(e)' <=> pc = "store_created" /\ Holds(e)
  /\ phase' = "serving" => phase = "serving"

LEMMA StoreMoves ==
  ASSUME Inv, Sound, [Next]_vars
  PROVE  \/ StoreQuiet
         \/ SetCachedStore \/ MallocStore \/ StoreCreated \/ CacheStore \/ FreeStore
         \/ FreeStoreFails \/ EndFreeStore \/ EndFreeDone
  <1> USE DEF StoreQuiet, Holds, HoldsStore, Refuse, AfterGiveBack
  <1>0. /\ \A e \in ends : e # NULL
        /\ pc \in {"params", "before_endpoint", "route"} => endpoint[req] = NULL
        /\ HoldsReq => req \in ReqIds
        /\ endpoint \in [ReqIds -> Ends \cup {NULL, Wild}]
    BY PointersDistinct DEF Inv, TypeOK, EndpointInv, ReqInv
  <1>1. HandleNew \/ Incoming \/ GetCachedReq => StoreQuiet
    BY DEF HandleNew, Incoming, GetCachedReq
  <1>2. MallocReq \/ MallocReqFails \/ ReqCreated \/ ReqCreatedFails => StoreQuiet
    BY DEF MallocReq, MallocReqFails, ReqCreated, ReqCreatedFails
  <1>3. BeforeFcgx \/ Accept \/ Callback => StoreQuiet
    <2>1. BeforeFcgx => StoreQuiet
      BY <1>0, PhaseNext DEF BeforeFcgx, Inv, EndpointInv
    <2>2. Accept \/ Callback => StoreQuiet
      BY <1>0, PointersDistinct DEF Accept, Callback, Inv, EndpointInv
    <2> QED BY <2>1, <2>2
  <1>4. Params \/ BeforeEndpoint => StoreQuiet
    BY <1>0 DEF Params, BeforeEndpoint
  <1>5. Route => StoreQuiet
    BY <1>0 DEF Route
  <1>6. ReqNew => StoreQuiet
    BY <1>0 DEF ReqNew
  <1>7. NoStoreToGiveBack \/ CacheReq \/ FreeReq \/ FreeReqFails => StoreQuiet
    BY <1>0 DEF NoStoreToGiveBack, CacheReq, FreeReq, FreeReqFails
  <1>8. ExitRequest \/ Stop \/ EndFree => StoreQuiet
    BY DEF ExitRequest, Stop, EndFree
  <1>9. ReqDeinit \/ ReqDeinitOne \/ ReqDeinitDone => StoreQuiet
    BY DEF ReqDeinit, ReqDeinitOne, ReqDeinitDone
  <1>10. UNCHANGED vars => StoreQuiet
    BY DEF vars
  <1> HIDE DEF StoreQuiet, Holds, HoldsStore, Refuse, AfterGiveBack
  <1> QED BY StepCases, <1>1, <1>2, <1>3, <1>4, <1>5, <1>6, <1>7, <1>8, <1>9, <1>10 DEF Steps

LEMMA ReqNext ==
  ASSUME Inv, Sound, [Next]_vars
  PROVE  ReqInv'
  <1> USE PointersDistinct DEF ReqInv, AfterGiveBack
  <1> ReqInv
    BY DEF Inv
  <1> /\ req_next \in [ReqIds -> ReqIds \cup {NULL}]
      /\ empty_req \in ReqIds \cup {NULL}
      /\ req \in ReqIds \cup {NULL} /\ reqs \subseteq ReqIds
    BY DEF Inv, TypeOK
  <1>1. CASE ReqQuiet
    BY <1>1 DEF ReqQuiet
  <1> USE DEF HoldsReq
  <1>2. CASE GetCachedReq
    BY <1>2 DEF GetCachedReq
  <1>3. CASE MallocReq
    BY <1>3 DEF MallocReq, NoCachedReq
  <1>4. CASE ReqCreated
    BY <1>4 DEF ReqCreated
  <1>5. CASE ReqCreatedFails
    BY <1>5 DEF ReqCreatedFails
  <1>6. CASE CacheReq
    BY <1>6 DEF CacheReq
  <1>7. CASE FreeReq
    BY <1>7 DEF FreeReq
  <1>8. CASE FreeReqFails
    BY <1>8 DEF FreeReqFails
  <1>9. CASE FreeStoreFails
    BY <1>9 DEF FreeStoreFails
  <1>10. CASE ReqDeinitOne
    BY <1>10 DEF ReqDeinitOne
  <1> QED BY ReqMoves, <1>1, <1>2, <1>3, <1>4, <1>5, <1>6, <1>7, <1>8, <1>9, <1>10

LEMMA StoreNext ==
  ASSUME Inv, Sound, [Next]_vars, NEW e \in ends'
  PROVE  StoreInv(e)'
  <1> USE PointersDistinct DEF StoreInv
  <1> /\ store_next \in [StoreIds -> StoreIds \cup {NULL}]
      /\ store_empty \in [Ends -> StoreIds \cup {NULL}]
      /\ owner \in [StoreIds -> Ends \cup {NULL}]
      /\ endpoint_store \in [ReqIds -> StoreIds \cup {NULL, Wild}]
      /\ stores \subseteq StoreIds /\ ends \subseteq Ends
    BY DEF Inv, TypeOK
  <1> HoldsReq => req \in ReqIds
    BY DEF Inv, ReqInv, TypeOK
  <1>0. e \in ends /\ e \in Ends
    BY StoreMoves DEF StoreQuiet, SetCachedStore, MallocStore, StoreCreated, CacheStore,
       FreeStore, FreeStoreFails, EndFreeStore, EndFreeDone
  <1> StoreInv(e)
    BY <1>0 DEF Inv
  <1>1. CASE StoreQuiet
    BY <1>0, <1>1 DEF StoreQuiet, StoresOf
  <1> USE DEF Holds, HoldsStore, StoresOf, HoldsReq
  <1>2. CASE SetCachedStore
    <2> DEFINE d == endpoint[req]
    <2>1. /\ pc = "store_set" /\ d \in ends /\ store_empty[d] \in stores
          /\ store_empty[d] # NULL /\ pc' = "req_new"
          /\ UNCHANGED <<stores, owner, store_next, req, endpoint>>
      BY <1>2 DEF SetCachedStore
    <2>2. StoreInv(d)
      BY <2>1 DEF Inv
    <2>3. /\ endpoint_store'[req] = store_empty[d]
          /\ store_empty' = [store_empty EXCEPT ![d] = NULL]
      BY <1>2, <2>1, <2>2 DEF SetCachedStore
    <2>4. CASE e = d
      BY <1>0, <2>1, <2>2, <2>3, <2>4
    <2>5. CASE e # d
      BY <1>0, <2>1, <2>3, <2>5
    <2> QED BY <2>4, <2>5
  <1>3. CASE MallocStore
    <2> DEFINE d == endpoint[req]
    <2>1. /\ pc = "store_set" /\ d \in ends /\ store_empty[d] = NULL /\ pc' = "store_created"
          /\ UNCHANGED <<req, endpoint, store_empty>>
      BY <1>3 DEF MallocStore, NoCachedStore
    <2>2. PICK s \in StoreIds \ stores :
            /\ stores' = stores \cup {s}
            /\ store_next' = [store_next EXCEPT ![s] = NULL]
            /\ endpoint_store' = [endpoint_store EXCEPT ![req] = s]
            /\ owner' = [owner EXCEPT ![s] = d]
      BY <1>3 DEF MallocStore
    <2>3. StoresOf(e) \subseteq StoresOf(e)' /\ (e = d => s \in StoresOf(e)')
      BY <2>2
    <2>4. store_empty[e] # NULL => store_next'[store_empty[e]] = NULL
      BY <2>2
    <2> QED BY <1>0, <2>1, <2>2, <2>3, <2>4
  <1>4. CASE StoreCreated
    BY <1>0, <1>4 DEF StoreCreated
  <1>5. CASE CacheStore
    <2> DEFINE d == endpoint[req]
               s == endpoint_store[req]
    <2>1. /\ pc = "give_back" /\ d \in ends /\ s \in stores /\ pc' = "give_back_req"
          /\ UNCHANGED <<stores, owner>>
      BY <1>5 DEF CacheStore
    <2>2. StoreInv(d) /\ Holds(d)
      BY <2>1 DEF Inv
    <2>3. /\ store_next' = [store_next EXCEPT ![s] = NULL]
          /\ store_empty' = [store_empty EXCEPT ![d] = s]
          /\ s \in StoresOf(d)
      BY <1>5, <2>1, <2>2 DEF CacheStore
    <2>4. CASE e = d
      BY <1>0, <2>1, <2>3, <2>4
    <2>5. CASE e # d
      <3>1. store_empty'[e] = store_empty[e] /\ s \notin StoresOf(e)
        BY <2>3, <2>5
      <3>2. store_empty[e] # NULL => store_next'[store_empty[e]] = NULL
        BY <2>3, <3>1
      <3> QED BY <1>0, <2>1, <3>1, <3>2
    <2> QED BY <2>4, <2>5
  <1>6. CASE FreeStore
    <2> DEFINE d == endpoint[req]
               s == endpoint_store[req]
    <2>1. /\ pc = "give_back" /\ d \in ends /\ s \in stores /\ pc' = "give_back_req"
          /\ stores' = stores \ {s}
          /\ UNCHANGED <<owner, store_empty, store_next>>
      BY <1>6 DEF FreeStore
    <2>2. StoreInv(d) /\ Holds(d)
      BY <2>1 DEF Inv
    <2>3. store_empty[d] = NULL /\ s \in StoresOf(d)
      BY <2>2
    <2>4. \A f : f # d => StoresOf(f)' = StoresOf(f)
      BY <2>1, <2>3
    <2> QED BY <1>0, <2>1, <2>3, <2>4
  <1>7. CASE FreeStoreFails
    BY <1>0, <1>7 DEF FreeStoreFails, AfterGiveBack
  <1>8. CASE EndFreeStore
    <2> DEFINE s == store_empty[freeing]
    <2>1. /\ pc = "end_free" /\ freeing \in ends /\ s \in stores /\ s # NULL
          /\ pc' \in {"end_free", "idle"}
          /\ UNCHANGED <<owner, store_next>>
      BY <1>8 DEF EndFreeStore, Inv, PhaseInv
    <2>2. StoreInv(freeing)
      BY <2>1 DEF Inv
    <2>3. s \in StoresOf(freeing) /\ store_next[s] = NULL
      BY <2>1, <2>2
    <2>4. store_empty' = [store_empty EXCEPT ![freeing] = NULL]
      BY <1>8, <2>3 DEF EndFreeStore
    <2>5. stores' = stores \ {s} \/ stores' = stores
      BY <1>8 DEF EndFreeStore
    <2>6. CASE e = freeing
      BY <1>0, <2>1, <2>4, <2>6
    <2>7. CASE e # freeing
      <3>1. StoresOf(e)' = StoresOf(e) /\ store_empty'[e] = store_empty[e]
        BY <2>1, <2>3, <2>4, <2>5, <2>7
      <3> QED BY <1>0, <2>1, <3>1
    <2> QED BY <2>6, <2>7
  <1>9. CASE EndFreeDone
    BY <1>0, <1>9 DEF EndFreeDone, Inv, PhaseInv
  <1> QED BY StoreMoves, <1>1, <1>2, <1>3, <1>4, <1>5, <1>6, <1>7, <1>8, <1>9

LEMMA InvInit == Init => Inv
  <1> SUFFICES ASSUME Init PROVE Inv
    OBVIOUS
  <1>1. TypeOK
    BY TypeInit
  <1>2. ReqInv /\ EndpointInv /\ PhaseInv
    BY DEF Init, ReqInv, EndpointInv, PhaseInv, HoldsReq
  <1>3. ASSUME NEW e \in ends PROVE StoreInv(e)
    BY <1>3 DEF Init, StoreInv, Holds, HoldsStore
  <1> QED BY <1>1, <1>2, <1>3 DEF Inv

LEMMA InvNext ==
  ASSUME Sound, Inv, [Next]_vars
  PROVE  Inv'
  <1>1. TypeOK'
    BY TypeNext DEF Inv
  <1>2. ReqInv' /\ EndpointInv' /\ PhaseInv'
    BY ReqNext, EndpointNext, PhaseNext DEF Inv
  <1>3. ASSUME NEW e \in ends' PROVE StoreInv(e)'
    BY StoreNext
  <1> QED BY <1>1, <1>2, <1>3 DEF Inv

(* Inv, on which the theorems about memory rest, holds in every reachable   *)
(* state of the handler and the teardown.                                   *)
THEOREM Invariance == Sound => (Spec => []Inv)
  <1> SUFFICES ASSUME Sound PROVE Spec => []Inv
    OBVIOUS
  <1>1. Inv /\ [Next]_vars => Inv'
    BY InvNext
  <1> QED BY InvInit, <1>1, PTL DEF Spec

(* NoUndefined: as long as malloc of a store, the FRA_END_STORE_CREATED     *)
(* hooks and FCGX_Accept_r succeed, no step of the request code touches     *)
(* memory that is not a live object, whichever other hooks and calls fail   *)
(* and whatever the growth factors are.                                     *)
THEOREM MemorySafe == Sound => (Spec => []NoUndefined)
  <1>1. Inv => NoUndefined
    BY DEF Inv, PhaseInv, NoUndefined
  <1> QED BY Invariance, <1>1, PTL

-----------------------------------------------------------------------------
(* What is on the lists                                                     *)

LEMMA EmptyChain ==
  ASSUME NEW next, NEW ids, NEW head, head \notin ids
  PROVE  Chain(next, head, ids) = {}
  <1>1. Closed({}, next, head, ids)
    BY DEF Closed
  <1> QED BY <1>1 DEF Chain

LEMMA SingleChain ==
  ASSUME NEW next, NEW ids, NEW head \in ids, next[head] \notin ids
  PROVE  Chain(next, head, ids) = {head}
  <1>1. Closed({head}, next, head, ids)
    BY DEF Closed
  <1>2. \A S \in SUBSET ids : Closed(S, next, head, ids) => head \in S
    BY DEF Closed
  <1> QED BY <1>1, <1>2 DEF Chain

(* Under the invariant a list is empty or has its head alone.               *)
LEMMA ReqList == Inv => CachedReqs = IF empty_req = NULL THEN {} ELSE {empty_req}
  <1> SUFFICES ASSUME Inv PROVE CachedReqs = IF empty_req = NULL THEN {} ELSE {empty_req}
    OBVIOUS
  <1>1. TypeOK /\ NULL \notin ReqIds
    BY PointersDistinct DEF Inv
  <1>2. CASE empty_req = NULL
    BY <1>1, <1>2, EmptyChain DEF CachedReqs
  <1>3. CASE empty_req # NULL
    <2>1. empty_req \in ReqIds /\ req_next[empty_req] = NULL
      BY <1>1, <1>3 DEF Inv, ReqInv, TypeOK
    <2> QED BY <1>1, <1>3, <2>1, SingleChain DEF CachedReqs
  <1> QED BY <1>2, <1>3

LEMMA StoreList ==
  Inv => \A e \in ends :
           CachedStores(e) = IF store_empty[e] = NULL THEN {} ELSE {store_empty[e]}
  <1> SUFFICES ASSUME Inv, NEW e \in ends
               PROVE  CachedStores(e) = IF store_empty[e] = NULL THEN {} ELSE {store_empty[e]}
    OBVIOUS
  <1>1. TypeOK /\ NULL \notin StoreIds /\ e \in Ends
    BY PointersDistinct DEF Inv, TypeOK
  <1>2. CASE store_empty[e] = NULL
    BY <1>1, <1>2, EmptyChain DEF CachedStores
  <1>3. CASE store_empty[e] # NULL
    <2>1. store_empty[e] \in StoreIds /\ store_next[store_empty[e]] = NULL
      BY <1>1, <1>3 DEF Inv, StoreInv, TypeOK
    <2> QED BY <1>1, <1>3, <2>1, SingleChain DEF CachedStores
  <1> QED BY <1>2, <1>3

(* StoresOwned: a list holds live stores of its own endpoint only, and not  *)
(* the one the handler has, which is live and of the request's endpoint.    *)
THEOREM Owned == Sound => (Spec => []StoresOwned)
  <1>1. ASSUME Inv PROVE StoresOwned
    <2>1. ASSUME NEW e \in ends PROVE CachedStores(e) \subseteq StoresOf(e)
      BY <1>1, <2>1, StoreList DEF Inv, StoreInv
    <2>2. ASSUME HoldsStore
          PROVE  endpoint_store[req] \in StoresOf(endpoint[req]) \ CachedStores(endpoint[req])
      <3>1. endpoint[req] \in ends /\ Holds(endpoint[req])
        BY <1>1, <2>2 DEF Inv, EndpointInv, PhaseInv, HoldsStore, Holds
      <3> QED BY <1>1, <3>1, StoreList DEF Inv, StoreInv
    <2> QED BY <2>1, <2>2 DEF StoresOwned
  <1> QED BY Invariance, <1>1, PTL

-----------------------------------------------------------------------------
(* The counters                                                             *)

(* What an object more, or less, does to the size of a set.                 *)
LEMMA CardSteps ==
  ASSUME NEW S, IsFiniteSet(S), NEW x
  PROVE  /\ Cardinality(S) \in Nat
         /\ IsFiniteSet(S \cup {x}) /\ IsFiniteSet(S \ {x})
         /\ x \notin S => Cardinality(S \cup {x}) = Cardinality(S) + 1
         /\ x \in S => Cardinality(S \ {x}) = Cardinality(S) - 1
  BY FS_CardinalityType, FS_AddElement, FS_RemoveElement

LEMMA ReqCountNext ==
  ASSUME Inv, Inv', Sound, ReqCount, [Next]_vars
  PROVE  ReqCount'
  <1> USE DEF ReqCount, One
  <1>0. /\ \A r : /\ Cardinality(reqs) \in Nat
                  /\ IsFiniteSet(reqs \cup {r}) /\ IsFiniteSet(reqs \ {r})
                  /\ r \notin reqs => Cardinality(reqs \cup {r}) = Cardinality(reqs) + 1
                  /\ r \in reqs => Cardinality(reqs \ {r}) = Cardinality(reqs) - 1
        /\ all_count \in Int /\ empty_count \in Int
        /\ NULL \notin ReqIds /\ reqs \subseteq ReqIds
    BY CardSteps, PointersDistinct DEF Inv, TypeOK
  <1>1. CASE ReqQuiet
    BY <1>1 DEF ReqQuiet
  <1>2. CASE GetCachedReq
    <2>1. empty_req' = NULL
      BY <1>2 DEF GetCachedReq, Inv, ReqInv
    <2> QED BY <1>0, <1>2, <2>1 DEF GetCachedReq
  <1>3. CASE MallocReq
    BY <1>0, <1>3 DEF MallocReq, NoCachedReq
  <1>4. CASE ReqCreated
    BY <1>0, <1>4 DEF ReqCreated
  <1>5. CASE ReqCreatedFails
    <2>1. req \in reqs
      BY <1>5 DEF ReqCreatedFails, Inv, ReqInv, HoldsReq
    <2> QED BY <1>0, <1>5, <2>1 DEF ReqCreatedFails
  <1>6. CASE CacheReq
    <2>1. req \in reqs /\ empty_req = NULL
      BY <1>6 DEF CacheReq, Inv, ReqInv, HoldsReq
    <2> QED BY <1>0, <1>6, <2>1 DEF CacheReq, AfterGiveBack
  <1>7. CASE FreeReq
    <2>1. req \in reqs
      BY <1>7 DEF FreeReq, Inv, ReqInv, HoldsReq
    <2> QED BY <1>0, <1>7, <2>1 DEF FreeReq, AfterGiveBack
  <1>8. CASE FreeReqFails
    BY <1>8 DEF FreeReqFails, AfterGiveBack
  <1>9. CASE FreeStoreFails
    BY <1>9 DEF FreeStoreFails, AfterGiveBack
  <1>10. CASE ReqDeinitOne
    <2>1. phase' # "serving" /\ reqs' = reqs \ {empty_req}
      BY <1>10 DEF ReqDeinitOne, Inv, PhaseInv
    <2> QED BY <1>0, <2>1
  <1> QED BY ReqMoves, <1>1, <1>2, <1>3, <1>4, <1>5, <1>6, <1>7, <1>8, <1>9, <1>10

(* A step that changes the stores of at most one endpoint, by one store.    *)
LEMMA StoresFinite ==
  ASSUME Inv, Sound, [Next]_vars, NEW e \in ends', IsFiniteSet(StoresOf(e))
  PROVE  IsFiniteSet(StoresOf(e)')
  <1>0. \A s : IsFiniteSet(StoresOf(e) \cup {s}) /\ IsFiniteSet(StoresOf(e) \ {s})
    BY CardSteps
  <1> USE DEF StoresOf
  <1>1. UNCHANGED <<stores, owner>> => StoresOf(e)' = StoresOf(e)
    OBVIOUS
  <1>2. StoreQuiet \/ SetCachedStore \/ StoreCreated \/ CacheStore \/ FreeStoreFails
          \/ EndFreeDone => UNCHANGED <<stores, owner>>
    BY DEF StoreQuiet, SetCachedStore, StoreCreated, CacheStore, FreeStoreFails, EndFreeDone
  <1>3. CASE MallocStore
    <2>1. PICK s \in StoreIds \ stores :
            stores' = stores \cup {s} /\ owner' = [owner EXCEPT ![s] = endpoint[req]]
      BY <1>3 DEF MallocStore
    <2>2. owner \in [StoreIds -> Ends \cup {NULL}]
      BY DEF Inv, TypeOK
    <2>3. StoresOf(e)' = StoresOf(e) \/ StoresOf(e)' = StoresOf(e) \cup {s}
      BY <2>1, <2>2
    <2> QED BY <1>0, <2>3
  <1>4. CASE FreeStore \/ EndFreeStore
    <2>1. /\ owner' = owner
          /\ stores' = stores \/ \E s : stores' = stores \ {s}
      BY <1>4 DEF FreeStore, EndFreeStore
    <2>2. StoresOf(e)' = StoresOf(e) \/ \E s : StoresOf(e)' = StoresOf(e) \ {s}
      BY <2>1
    <2> QED BY <1>0, <2>2
  <1> QED BY StoreMoves, <1>1, <1>2, <1>3, <1>4

LEMMA StoreCountNext ==
  ASSUME Inv, Inv', Sound, NEW e \in ends', e \in ends, StoreCount(e), [Next]_vars
  PROVE  StoreCount(e)'
  <1> USE DEF One
  <1>0. /\ \A s : /\ Cardinality(StoresOf(e)) \in Nat
                  /\ s \notin StoresOf(e) =>
                       Cardinality(StoresOf(e) \cup {s}) = Cardinality(StoresOf(e)) + 1
                  /\ s \in StoresOf(e) =>
                       Cardinality(StoresOf(e) \ {s}) = Cardinality(StoresOf(e)) - 1
        /\ store_all_count \in [Ends -> Int] /\ store_empty_count \in [Ends -> Int]
        /\ store_empty \in [Ends -> StoreIds \cup {NULL}]
        /\ owner \in [StoreIds -> Ends \cup {NULL}]
        /\ NULL \notin StoreIds /\ stores \subseteq StoreIds /\ e \in Ends
    BY CardSteps, PointersDistinct DEF Inv, TypeOK, StoreCount
  <1>1. IsFiniteSet(StoresOf(e)')
    BY StoresFinite DEF StoreCount
  <1> SUFFICES ASSUME phase' = "serving"
               PROVE  /\ store_empty_count'[e] = One(store_empty'[e] # NULL)
                      /\ Cardinality(StoresOf(e)') =
                           store_all_count'[e] + One(pc' = "store_created" /\ Holds(e)')
    BY <1>1 DEF StoreCount
  <1>2. CASE StoreQuiet
    <2>1. StoresOf(e)' = StoresOf(e)
      BY <1>2 DEF StoreQuiet, StoresOf
    <2> QED BY <1>2, <2>1 DEF StoreQuiet, StoreCount
  <1>3. ~EndFreeStore /\ ~EndFreeDone
    BY DEF EndFreeStore, EndFreeDone, Inv, PhaseInv
  <1> USE DEF Holds, HoldsStore
  <1>4. CASE SetCachedStore
    <2> DEFINE d == endpoint[req]
    <2>1. /\ pc = "store_set" /\ pc' = "req_new" /\ d \in ends /\ phase = "serving"
          /\ store_empty[d] # NULL
          /\ UNCHANGED <<stores, owner, store_all_count>>
      BY <1>0, <1>4 DEF SetCachedStore
    <2>2. store_next[store_empty[d]] = NULL
      BY <2>1 DEF Inv, StoreInv
    <2>3. /\ store_empty' = [store_empty EXCEPT ![d] = NULL]
          /\ store_empty_count' = [store_empty_count EXCEPT ![d] = @ - 1]
      BY <1>4, <2>2 DEF SetCachedStore
    <2>4. StoresOf(e)' = StoresOf(e)
      BY <2>1 DEF StoresOf
    <2> QED BY <1>0, <2>1, <2>3, <2>4 DEF StoreCount
  <1>5. CASE MallocStore
    <2> DEFINE d == endpoint[req]
    <2>1. /\ pc = "store_set" /\ pc' = "store_created" /\ d \in ends /\ phase = "serving"
          /\ UNCHANGED <<req, endpoint, store_empty, store_empty_count, store_all_count>>
      BY <1>5 DEF MallocStore
    <2>2. PICK s \in StoreIds \ stores :
            stores' = stores \cup {s} /\ owner' = [owner EXCEPT ![s] = d]
      BY <1>5 DEF MallocStore
    <2>3. s \notin StoresOf(e)
      BY <2>2 DEF StoresOf
    <2>4. CASE e = d
      <3>1. StoresOf(e)' = StoresOf(e) \cup {s}
        BY <1>0, <2>2, <2>4 DEF StoresOf
      <3> QED BY <1>0, <2>1, <2>3, <2>4, <3>1 DEF StoreCount
    <2>5. CASE e # d
      <3>1. StoresOf(e)' = StoresOf(e)
        BY <1>0, <2>2, <2>5 DEF StoresOf
      <3> QED BY <1>0, <2>1, <2>5, <3>1 DEF StoreCount
    <2> QED BY <2>4, <2>5
  <1>6. CASE StoreCreated
    <2>1. /\ pc = "store_created" /\ pc' = "req_new" /\ phase = "serving"
          /\ store_all_count' = [store_all_count EXCEPT ![endpoint[req]] = @ + 1]
          /\ UNCHANGED <<stores, owner, store_empty, store_empty_count>>
      BY <1>6 DEF StoreCreated
    <2>2. StoresOf(e)' = StoresOf(e)
      BY <2>1 DEF StoresOf
    <2> QED BY <1>0, <2>1, <2>2 DEF StoreCount
  <1>7. CASE CacheStore
    <2> DEFINE d == endpoint[req]
               s == endpoint_store[req]
    <2>1. /\ pc = "give_back" /\ pc' = "give_back_req" /\ d \in ends /\ s \in stores
          /\ phase = "serving"
          /\ store_empty' = [store_empty EXCEPT ![d] = s]
          /\ store_empty_count' = [store_empty_count EXCEPT ![d] = @ + 1]
          /\ UNCHANGED <<stores, owner, store_all_count>>
      BY <1>7 DEF CacheStore
    <2>2. Holds(d)
      BY <2>1, PointersDistinct DEF Inv, TypeOK
    <2>3. store_empty[d] = NULL /\ s # NULL
      BY <1>0, <2>1, <2>2 DEF Inv, StoreInv
    <2>4. StoresOf(e)' = StoresOf(e)
      BY <2>1 DEF StoresOf
    <2> QED BY <1>0, <2>1, <2>3, <2>4 DEF StoreCount
  <1>8. CASE FreeStore
    <2> DEFINE d == endpoint[req]
               s == endpoint_store[req]
    <2>1. /\ pc = "give_back" /\ pc' = "give_back_req" /\ d \in ends
          /\ phase = "serving" /\ stores' = stores \ {s}
          /\ store_all_count' = [store_all_count EXCEPT ![d] = @ - 1]
          /\ UNCHANGED <<owner, store_empty, store_empty_count>>
      BY <1>8 DEF FreeStore
    <2>2. Holds(d)
      BY <2>1, PointersDistinct DEF Inv, TypeOK
    <2>3. s \in StoresOf(d)
      BY <2>1, <2>2 DEF Inv, StoreInv
    <2>4. CASE e = d
      <3>1. StoresOf(e)' = StoresOf(e) \ {s}
        BY <2>1 DEF StoresOf
      <3> QED BY <1>0, <2>1, <2>3, <2>4, <3>1 DEF StoreCount
    <2>5. CASE e # d
      <3>1. StoresOf(e)' = StoresOf(e)
        BY <2>1, <2>3, <2>5 DEF StoresOf
      <3> QED BY <1>0, <2>1, <2>5, <3>1 DEF StoreCount
    <2> QED BY <2>4, <2>5
  <1>9. CASE FreeStoreFails
    <2>1. /\ pc = "give_back" /\ pc' # "store_created" /\ phase = "serving"
          /\ UNCHANGED <<stores, owner, store_all_count, store_empty, store_empty_count>>
      BY <1>9 DEF FreeStoreFails, AfterGiveBack
    <2>2. StoresOf(e)' = StoresOf(e)
      BY <2>1 DEF StoresOf
    <2> QED BY <1>0, <2>1, <2>2 DEF StoreCount
  <1> QED BY StoreMoves, <1>2, <1>3, <1>4, <1>5, <1>6, <1>7, <1>8, <1>9

(* No step makes an endpoint.                                               *)
LEMMA EndsShrink ==
  ASSUME Inv, Sound, [Next]_vars
  PROVE  ends' \subseteq ends
  BY StoreMoves DEF StoreQuiet, SetCachedStore, MallocStore, StoreCreated, CacheStore,
     FreeStore, FreeStoreFails, EndFreeStore, EndFreeDone

LEMMA Counting == Sound => (Spec => [](Inv /\ CountInv))
  <1> SUFFICES ASSUME Sound PROVE Spec => [](Inv /\ CountInv)
    OBVIOUS
  <1>1. Init => CountInv
    <2> SUFFICES ASSUME Init PROVE CountInv
      OBVIOUS
    <2>1. ReqCount
      BY FS_EmptySet DEF Init, ReqCount, One
    <2>2. ASSUME NEW e \in ends PROVE StoreCount(e)
      <3>1. StoresOf(e) = {} /\ e \in Ends
        BY <2>2 DEF Init, StoresOf
      <3> QED BY <3>1, FS_EmptySet DEF Init, StoreCount, One
    <2> QED BY <2>1, <2>2 DEF CountInv
  <1>2. Inv /\ Inv' /\ CountInv /\ [Next]_vars => CountInv'
    <2> SUFFICES ASSUME Inv, Inv', CountInv, [Next]_vars PROVE CountInv'
      OBVIOUS
    <2>1. ReqCount'
      BY ReqCountNext DEF CountInv
    <2>2. ASSUME NEW e \in ends' PROVE StoreCount(e)'
      BY StoreCountNext, EndsShrink DEF CountInv
    <2> QED BY <2>1, <2>2 DEF CountInv
  <1> QED BY Invariance, <1>1, <1>2, PTL DEF Spec

(* CountsMatchHeap: the counters of req.c and of each endpoint, which decide*)
(* what req_maybe_free does, are those of the live objects, lost ones       *)
(* included, and of the lists.                                              *)
THEOREM Counted == Sound => (Spec => []CountsMatchHeap)
  <1>1. ASSUME Inv, CountInv PROVE CountsMatchHeap
    <2> SUFFICES ASSUME pc = "idle", phase = "serving"
                 PROVE  /\ all_count = Cardinality(reqs)
                        /\ empty_count = Cardinality(CachedReqs)
                        /\ \A e \in Ends :
                             /\ store_all_count[e] = Cardinality(StoresOf(e))
                             /\ store_empty_count[e] = Cardinality(CachedStores(e))
      BY DEF CountsMatchHeap
    <2>1. Cardinality({}) = 0 /\ \A x : Cardinality({x}) = 1
      BY FS_EmptySet, FS_Singleton
    <2>2. all_count = Cardinality(reqs)
      BY <1>1 DEF CountInv, ReqCount, One, Inv, TypeOK
    <2>3. empty_count = Cardinality(CachedReqs)
      BY <1>1, <2>1, ReqList DEF CountInv, ReqCount, One
    <2>4. ASSUME NEW e \in Ends
          PROVE  /\ store_all_count[e] = Cardinality(StoresOf(e))
                 /\ store_empty_count[e] = Cardinality(CachedStores(e))
      <3>1. e \in ends /\ StoreCount(e)
        BY <1>1 DEF Inv, PhaseInv, CountInv
      <3>2. store_all_count[e] = Cardinality(StoresOf(e))
        BY <1>1, <3>1 DEF StoreCount, One, Inv, TypeOK
      <3>3. store_empty_count[e] = Cardinality(CachedStores(e))
        BY <1>1, <2>1, <3>1, StoreList DEF StoreCount, One
      <3> QED BY <3>2, <3>3
    <2> QED BY <2>2, <2>3, <2>4
  <1> QED BY Counting, <1>1, PTL

(* With 1.618 an object in use is never one too many.                       *)
LEMMA InUse ==
  ASSUME Shipped, NEW all \in Nat, NEW empty \in Nat
  PROVE  ~TooManyInUse(all, empty)
  <1>1. Growth - 1000 \in Nat
    BY GrowthType DEF Shipped
  <1>2. \A d \in Nat : all * (1000 + d) = all * 1000 + all * d /\ all * d >= 0
    OBVIOUS
  <1>3. all * Growth >= all * 1000
    BY <1>1, <1>2, GrowthType
  <1> QED BY <1>3, GrowthType DEF TooManyInUse

LEMMA NeverFree ==
  ASSUME Inv, CountInv, Shipped
  PROVE  ~FreeStore /\ ~FreeStoreFails /\ ~FreeReq /\ ~FreeReqFails
  <1>2. pc = "give_back_req" => all_count \in Nat /\ empty_count = 0
    BY FS_CardinalityType DEF CountInv, ReqCount, One, Inv, ReqInv, PhaseInv, TypeOK, HoldsReq
  <1>3. pc = "give_back" /\ endpoint[req] \in ends =>
          store_all_count[endpoint[req]] \in Nat /\ store_empty_count[endpoint[req]] = 0
    <2> SUFFICES ASSUME pc = "give_back", endpoint[req] \in ends
                 PROVE  /\ store_all_count[endpoint[req]] \in Nat
                        /\ store_empty_count[endpoint[req]] = 0
      OBVIOUS
    <2> DEFINE e == endpoint[req]
    <2>1. Holds(e) /\ phase = "serving" /\ store_all_count[e] \in Int
      BY PointersDistinct DEF Inv, TypeOK, PhaseInv, Holds, HoldsStore
    <2>2. StoreInv(e) /\ StoreCount(e)
      BY DEF Inv, CountInv
    <2> QED BY <2>1, <2>2, FS_CardinalityType DEF StoreInv, StoreCount, One
  <1> QED BY InUse, <1>2, <1>3 DEF FreeStore, FreeStoreFails, FreeReq, FreeReqFails

-----------------------------------------------------------------------------
(* Nothing is lost, with the growth factors of config.h or as long as the   *)
(* FREE hooks succeed                                                       *)

LEMMA LosslessNext ==
  ASSUME Sound, Shipped \/ FreeHooksSucceed, Inv, Inv', CountInv, Lossless, [Next]_vars
  PROVE  Lossless'
  <1>1. ~FreeReqFails /\ ~FreeStoreFails
    BY NeverFree DEF FreeHooksSucceed, HookFails, FreeReqFails, FreeStoreFails
  <1>2. ReqLossless'
    <2> ReqLossless /\ ReqInv
      BY DEF Lossless, Inv
    <2> USE DEF ReqLossless, ReqInv
    <2>1. CASE ReqQuiet
      BY <2>1 DEF ReqQuiet
    <2> USE DEF HoldsReq
    <2>2. CASE GetCachedReq
      BY <2>2 DEF GetCachedReq
    <2>3. CASE MallocReq
      BY <2>3 DEF MallocReq, NoCachedReq, Inv, TypeOK
    <2>4. CASE ReqCreated
      BY <2>4 DEF ReqCreated
    <2>5. CASE ReqCreatedFails
      BY <2>5, PointersDistinct DEF ReqCreatedFails, Inv, TypeOK
    <2>6. CASE CacheReq
      BY <2>6, PointersDistinct DEF CacheReq, Inv, TypeOK
    <2>7. CASE FreeReq
      BY <2>7, PointersDistinct DEF FreeReq, Inv, TypeOK
    <2>8. CASE ReqDeinitOne
      BY <2>8 DEF ReqDeinitOne
    <2> QED BY ReqMoves, <1>1, <2>1, <2>2, <2>3, <2>4, <2>5, <2>6, <2>7, <2>8
  <1>3. ASSUME NEW e \in ends' PROVE StoreLossless(e)'
    <2>0. e \in ends /\ e \in Ends /\ StoreLossless(e) /\ StoreInv(e) /\ StoreInv(e)'
      BY EndsShrink, <1>3 DEF Lossless, Inv, TypeOK
    <2>1. CASE StoreQuiet
      <3>1. StoresOf(e)' = StoresOf(e)
        BY <2>1 DEF StoreQuiet, StoresOf
      <3> QED BY <2>0, <2>1, <3>1 DEF StoreQuiet, StoreLossless
    <2> /\ store_empty \in [Ends -> StoreIds \cup {NULL}]
        /\ owner \in [StoreIds -> Ends \cup {NULL}]
        /\ endpoint_store \in [ReqIds -> StoreIds \cup {NULL, Wild}]
        /\ stores \subseteq StoreIds /\ NULL \notin StoreIds
      BY PointersDistinct DEF Inv, TypeOK
    <2> HoldsReq => req \in ReqIds
      BY DEF Inv, ReqInv, TypeOK
    <2> USE DEF StoreLossless, Holds, HoldsStore, HoldsReq
    <2>2. CASE SetCachedStore
      <3>1. /\ pc = "store_set" /\ pc' = "req_new"
            /\ UNCHANGED <<stores, owner, req, endpoint>>
            /\ endpoint_store'[req] = store_empty[endpoint[req]]
            /\ \A f \in Ends \ {endpoint[req]} : store_empty'[f] = store_empty[f]
        BY <2>2 DEF SetCachedStore
      <3>2. StoresOf(e)' = StoresOf(e)
        BY <3>1 DEF StoresOf
      <3> QED BY <2>0, <3>1, <3>2
    <2>3. CASE MallocStore
      <3>1. /\ pc = "store_set" /\ pc' = "store_created"
            /\ UNCHANGED <<req, endpoint, store_empty>>
        BY <2>3 DEF MallocStore
      <3>2. PICK s \in StoreIds \ stores :
              /\ stores' = stores \cup {s}
              /\ owner' = [owner EXCEPT ![s] = endpoint[req]]
              /\ endpoint_store' = [endpoint_store EXCEPT ![req] = s]
        BY <2>3 DEF MallocStore
      <3>3. \A t \in StoresOf(e)' : t \in StoresOf(e) \/ (t = s /\ e = endpoint[req])
        BY <3>2 DEF StoresOf
      <3> QED BY <2>0, <3>1, <3>2, <3>3
    <2>4. CASE StoreCreated
      <3>1. /\ pc = "store_created" /\ pc' = "req_new"
            /\ UNCHANGED <<stores, owner, req, endpoint, endpoint_store, store_empty>>
        BY <2>4 DEF StoreCreated
      <3>2. StoresOf(e)' = StoresOf(e)
        BY <3>1 DEF StoresOf
      <3> QED BY <2>0, <3>1, <3>2
    <2>5. CASE CacheStore
      <3>1. /\ pc = "give_back" /\ pc' = "give_back_req"
            /\ UNCHANGED <<stores, owner>>
            /\ store_empty' = [store_empty EXCEPT ![endpoint[req]] = endpoint_store[req]]
        BY <2>5 DEF CacheStore
      <3>2. StoresOf(e)' = StoresOf(e) /\ (Holds(e) => store_empty[e] = NULL)
        BY <2>0, <3>1 DEF StoresOf, StoreInv
      <3>3. NULL \notin StoresOf(e)
        BY DEF StoresOf
      <3>4. CASE e = endpoint[req]
        <4>1. Holds(e)
          BY <2>0, <3>1, <3>4, PointersDistinct DEF Inv, TypeOK
        <4> QED BY <2>0, <3>1, <3>2, <3>3, <3>4, <4>1
      <3>5. CASE e # endpoint[req]
        BY <2>0, <3>1, <3>2, <3>5
      <3> QED BY <3>4, <3>5
    <2>6. CASE FreeStore
      <3>1. /\ pc = "give_back" /\ pc' = "give_back_req"
            /\ stores' = stores \ {endpoint_store[req]}
            /\ UNCHANGED <<owner, store_empty>>
        BY <2>6 DEF FreeStore
      <3>2. \A t \in StoresOf(e)' : t \in StoresOf(e) /\ t # endpoint_store[req]
        BY <3>1 DEF StoresOf
      <3> QED BY <2>0, <3>1, <3>2
    <2>7. CASE EndFreeStore
      <3>1. /\ pc = "end_free" /\ pc' \in {"end_free", "idle"}
            /\ store_empty' = [store_empty EXCEPT ![freeing] = store_next[store_empty[freeing]]]
            /\ owner' = owner
            /\ \/ stores' = stores \ {store_empty[freeing]}
               \/ stores' = stores /\ ends' = ends \ {freeing}
        BY <2>7 DEF EndFreeStore
      <3>2. \A t \in StoresOf(e)' : t \in StoresOf(e)
        BY <3>1 DEF StoresOf
      <3>3. CASE e = freeing
        <4>1. \A t \in StoresOf(e)' : t # store_empty[e]
          BY <1>3, <3>1, <3>3 DEF StoresOf
        <4> QED BY <2>0, <3>1, <3>2, <4>1
      <3>4. CASE e # freeing
        BY <2>0, <3>1, <3>2, <3>4
      <3> QED BY <3>3, <3>4
    <2>8. CASE EndFreeDone
      <3>1. /\ pc = "end_free" /\ pc' = "idle" /\ UNCHANGED <<stores, owner, store_empty>>
        BY <2>8 DEF EndFreeDone
      <3>2. StoresOf(e)' = StoresOf(e)
        BY <3>1 DEF StoresOf
      <3> QED BY <2>0, <3>1, <3>2
    <2> QED BY StoreMoves, <1>1, <2>1, <2>2, <2>3, <2>4, <2>5, <2>6, <2>7, <2>8
  <1> QED BY <1>2, <1>3 DEF Lossless

LEMMA NothingLost == Sound /\ (Shipped \/ FreeHooksSucceed) => (Spec => [](Inv /\ Lossless))
  <1> SUFFICES ASSUME Sound, Shipped \/ FreeHooksSucceed PROVE Spec => [](Inv /\ Lossless)
    OBVIOUS
  <1>1. Init => Lossless
    BY DEF Init, Lossless, ReqLossless, StoreLossless, StoresOf
  <1>2. Inv /\ Inv' /\ CountInv /\ Lossless /\ [Next]_vars => Lossless'
    BY LosslessNext
  <1> QED BY Counting, <1>1, <1>2, PTL DEF Spec

(* OneObject: one request object and one store per endpoint serve any       *)
(* number of connections.  With a growth factor below one, a FREE hook that *)
(* fails costs an object.                                                   *)
THEOREM BoundedMemory == Sound /\ (Shipped \/ FreeHooksSucceed) => (Spec => []OneObject)
  <1> SUFFICES ASSUME Sound, Shipped \/ FreeHooksSucceed PROVE Spec => []OneObject
    OBVIOUS
  <1>1. ASSUME Inv, Lossless PROVE OneObject
    <2>1. \A r \in reqs : r # NULL
      BY <1>1, PointersDistinct DEF Inv, TypeOK
    <2>2. ASSUME NEW r1 \in reqs, NEW r2 \in reqs PROVE r1 = r2
      BY <1>1, <2>1 DEF Lossless, ReqLossless, Inv, ReqInv
    <2>3. ASSUME NEW e \in ends, NEW s1 \in StoresOf(e), NEW s2 \in StoresOf(e) PROVE s1 = s2
      <3>1. s1 # NULL /\ s2 # NULL
        BY <1>1, PointersDistinct DEF Inv, TypeOK, StoresOf
      <3> QED BY <1>1, <3>1 DEF Lossless, StoreLossless, Inv, StoreInv
    <2> QED BY <2>2, <2>3 DEF OneObject
  <1> QED BY NothingLost, <1>1, PTL

(* What is live once everything is down: no request waits, and every store  *)
(* is of an endpoint that has not been freed.                               *)
DownInv ==
  /\ phase = "down" => empty_req = NULL
  /\ \A s \in stores : owner[s] \in ends

LEMMA DownNext ==
  ASSUME Sound, FreeHooksSucceed, Inv, Lossless, DownInv, [Next]_vars
  PROVE  DownInv'
  <1>1. (phase = "down" => empty_req = NULL)'
    <2>1. \/ UNCHANGED <<phase, empty_req>> \/ phase' # "down"
          \/ (phase' = phase /\ phase # "down") \/ ReqDeinitDone
      BY StepCases DEF Steps, vars, HandleNew, Incoming, GetCachedReq, MallocReq,
         MallocReqFails, ReqCreated, ReqCreatedFails, BeforeFcgx, Accept, Params,
         BeforeEndpoint, Route, SetCachedStore, MallocStore, StoreCreated, ReqNew,
         Callback, NoStoreToGiveBack, CacheStore, FreeStore, FreeStoreFails, CacheReq,
         FreeReq, FreeReqFails, ExitRequest, Stop, EndFree, EndFreeStore, EndFreeDone,
         ReqDeinit, ReqDeinitOne, Inv, PhaseInv
    <2> QED BY <2>1 DEF DownInv, ReqDeinitDone
  <1>2. CASE UNCHANGED <<stores, owner, ends>>
    BY <1>1, <1>2 DEF DownInv
  <1>3. CASE MallocStore
    BY <1>1, <1>3 DEF DownInv, MallocStore, Inv, TypeOK
  <1>4. CASE FreeStore
    BY <1>1, <1>4 DEF DownInv, FreeStore
  <1>5. CASE EndFreeStore
    <2>1. ~\E rc \in HookErrors : HookFails("END_STORE_FREE", rc)
      BY DEF FreeHooksSucceed, HookFails
    <2>2. stores' \subseteq stores /\ UNCHANGED <<owner, ends>>
      BY <1>5, <2>1 DEF EndFreeStore
    <2> QED BY <1>1, <2>2 DEF DownInv
  <1>6. CASE EndFreeDone
    <2>1. freeing \in ends /\ store_empty[freeing] = NULL /\ ~Holds(freeing)
      BY <1>6 DEF EndFreeDone, Inv, PhaseInv, Holds, HoldsStore
    <2>2. StoresOf(freeing) = {}
      BY <2>1, PointersDistinct DEF Lossless, StoreLossless, StoresOf, Inv, TypeOK
    <2>3. UNCHANGED <<stores, owner>> /\ ends' = ends \ {freeing}
      BY <1>6 DEF EndFreeDone
    <2> QED BY <1>1, <2>2, <2>3 DEF DownInv, StoresOf
  <1>7. StoreQuiet \/ SetCachedStore \/ StoreCreated \/ CacheStore \/ FreeStoreFails
          => UNCHANGED <<stores, owner, ends>>
    BY DEF StoreQuiet, SetCachedStore, StoreCreated, CacheStore, FreeStoreFails
  <1> QED BY StoreMoves, <1>2, <1>3, <1>4, <1>5, <1>6, <1>7

(* NoLeak: between two events every object is on its list, and once the     *)
(* endpoints are freed and the library is down none is left, if the FREE    *)
(* hooks succeed (fra_end_free gives up the rest of its list otherwise).    *)
THEOREM NothingLeaks == Sound /\ FreeHooksSucceed => (Spec => []NoLeak)
  <1> SUFFICES ASSUME Sound, FreeHooksSucceed PROVE Spec => []NoLeak
    OBVIOUS
  <1>1. Spec => [](Inv /\ Lossless /\ DownInv)
    <2>1. Init => DownInv
      BY DEF Init, DownInv
    <2>2. Inv /\ Lossless /\ DownInv /\ [Next]_vars => DownInv'
      BY DownNext
    <2> QED BY NothingLost, <2>1, <2>2, PTL DEF Spec
  <1>2. ASSUME Inv, Lossless, DownInv PROVE NoLeak
    <2>1. NULL \notin reqs /\ NULL \notin stores
      BY <1>2, PointersDistinct DEF Inv, TypeOK
    <2>2. ASSUME pc = "idle", phase = "serving"
          PROVE  /\ reqs \subseteq CachedReqs
                 /\ \A e \in Ends : StoresOf(e) \subseteq CachedStores(e)
      <3>1. reqs \subseteq CachedReqs
        BY <1>2, <2>1, <2>2, ReqList DEF Lossless, ReqLossless, HoldsReq
      <3>2. ASSUME NEW e \in Ends PROVE StoresOf(e) \subseteq CachedStores(e)
        <4>1. e \in ends /\ ~Holds(e) /\ NULL \notin StoresOf(e)
          BY <1>2, <2>1, <2>2 DEF Inv, PhaseInv, Holds, HoldsStore, StoresOf
        <4> QED BY <1>2, <4>1, StoreList DEF Lossless, StoreLossless
      <3> QED BY <3>1, <3>2
    <2>3. ASSUME phase = "down", ends = {}
          PROVE  reqs = {} /\ stores = {}
      <3>1. ~HoldsReq
        BY <1>2, <2>3 DEF Inv, PhaseInv, HoldsReq
      <3> QED BY <1>2, <2>1, <2>3, <3>1 DEF Lossless, ReqLossless, DownInv
    <2> QED BY <2>2, <2>3 DEF NoLeak
  <1> QED BY <1>1, <1>2, PTL

-----------------------------------------------------------------------------
(* The caches implement Pool                                                *)

LEMMA ReqPoolNext ==
  ASSUME Sound, Inv, Inv', [Next]_vars
  PROVE  [ReqPool!Next]_(ReqPool!PoolVars)
  <1> USE DEF ReqPool!PoolVars, ReqPool!Next
  <1> NULL \notin ReqIds /\ reqs \subseteq ReqIds
    BY PointersDistinct DEF Inv, TypeOK
  <1> DEFINE k == "request"
  <1>1. CachedReqs = IF empty_req = NULL THEN {} ELSE {empty_req}
    BY ReqList
  <1>2. CachedReqs' = IF empty_req' = NULL THEN {} ELSE {empty_req'}
    <2>1. Inv' => (CachedReqs = IF empty_req = NULL THEN {} ELSE {empty_req})'
      BY ReqList, PTL
    <2> QED BY <2>1
  <1> DEFINE W == CachedReqs
             U == reqs \ CachedReqs
  <1> HIDE DEF W, U
  <1>3. CASE UNCHANGED <<empty_req, reqs>>
    <2>1. W' = W /\ U' = U
      BY <1>1, <1>2, <1>3 DEF W, U
    <2> QED BY <2>1 DEF W, U
  <1>4. CASE GetCachedReq
    <2>1. empty_req # NULL /\ empty_req \in reqs /\ req_next[empty_req] = NULL
      BY <1>4 DEF GetCachedReq, Inv, ReqInv
    <2>2. empty_req' = NULL /\ reqs' = reqs
      BY <1>4, <2>1 DEF GetCachedReq
    <2>3. W = {empty_req} /\ W' = {} /\ U' = U \cup {empty_req}
      BY <1>1, <1>2, <2>1, <2>2 DEF W, U
    <2>4. ReqPool!Reuse(k, empty_req)
      BY <2>3 DEF ReqPool!Reuse, W, U
    <2> QED BY <2>1, <2>4
  <1>5. CASE MallocReq
    <2>1. empty_req = NULL /\ empty_req' = NULL
      BY <1>5 DEF MallocReq, NoCachedReq
    <2>2. PICK r \in ReqIds \ reqs : reqs' = reqs \cup {r}
      BY <1>5 DEF MallocReq
    <2>3. W = {} /\ U = reqs /\ W' = {} /\ U' = reqs \cup {r}
      BY <1>1, <1>2, <2>1, <2>2 DEF W, U
    <2>4. ReqPool!Make(k, r)
      BY <2>2, <2>3 DEF ReqPool!Make, ReqPool!Existing, W, U
    <2> QED BY <2>2, <2>4
  <1>6. CASE ReqCreatedFails \/ FreeReq
    <2>1. req \in reqs /\ empty_req = NULL /\ empty_req' = NULL /\ reqs' = reqs \ {req}
      BY <1>6 DEF ReqCreatedFails, FreeReq, Inv, ReqInv, HoldsReq
    <2>2. W = {} /\ req \in U /\ W' = {} /\ U' = U \ {req}
      BY <1>1, <1>2, <2>1 DEF W, U
    <2>3. ReqPool!DropUsed(k, req)
      BY <2>2 DEF ReqPool!DropUsed, W, U
    <2> QED BY <2>1, <2>3
  <1>7. CASE CacheReq
    <2>1. req \in reqs /\ empty_req = NULL /\ empty_req' = req /\ reqs' = reqs
      BY <1>7 DEF CacheReq, Inv, ReqInv, HoldsReq
    <2>2. W = {} /\ req \in U /\ W' = {req} /\ U' = U \ {req}
      BY <1>1, <1>2, <2>1 DEF W, U
    <2>3. ReqPool!GiveBack(k, req)
      BY <2>2 DEF ReqPool!GiveBack, W, U
    <2> QED BY <2>1, <2>3
  <1>8. CASE ReqDeinitOne
    <2>1. empty_req # NULL /\ empty_req \in reqs /\ req_next[empty_req] = NULL
      BY <1>8 DEF ReqDeinitOne, Inv, ReqInv
    <2>2. empty_req' = NULL /\ reqs' = reqs \ {empty_req}
      BY <1>8, <2>1 DEF ReqDeinitOne
    <2>3. W = {empty_req} /\ W' = {} /\ U' = U
      BY <1>1, <1>2, <2>1, <2>2 DEF W, U
    <2>4. ReqPool!DropWaiting(k, empty_req)
      BY <2>3 DEF ReqPool!DropWaiting, W, U
    <2> QED BY <2>1, <2>4
  <1>9. ReqQuiet \/ ReqCreated \/ FreeReqFails \/ FreeStoreFails
          => UNCHANGED <<empty_req, reqs>>
    BY DEF ReqQuiet, ReqCreated, FreeReqFails, FreeStoreFails
  <1> QED BY <1>3, <1>4, <1>5, <1>6, <1>7, <1>8, <1>9, ReqMoves

(* The pools of one endpoint, in terms of the head of its list.             *)
LEMMA StoreMapping ==
  Inv => \A e \in Ends :
    LET W == IF e \in ends THEN CachedStores(e) ELSE {} IN
    /\ e \in ends => W = (IF store_empty[e] = NULL THEN {} ELSE {store_empty[e]})
    /\ W \subseteq StoresOf(e) /\ StoresOf(e) \subseteq stores
  <1> SUFFICES ASSUME Inv, NEW e \in Ends
               PROVE  LET W == IF e \in ends THEN CachedStores(e) ELSE {} IN
                      /\ e \in ends => W = (IF store_empty[e] = NULL THEN {} ELSE {store_empty[e]})
                      /\ W \subseteq StoresOf(e) /\ StoresOf(e) \subseteq stores
    OBVIOUS
  <1>1. StoresOf(e) \subseteq stores
    BY DEF StoresOf
  <1>2. CASE e \notin ends
    BY <1>1, <1>2
  <1>3. CASE e \in ends
    <2>1. CachedStores(e) = IF store_empty[e] = NULL THEN {} ELSE {store_empty[e]}
      BY <1>3, StoreList
    <2>2. store_empty[e] # NULL => store_empty[e] \in StoresOf(e)
      BY <1>3 DEF Inv, StoreInv
    <2> QED BY <1>1, <1>3, <2>1, <2>2
  <1> QED BY <1>2, <1>3

(* A step that moves a store of one endpoint, and what follows for the      *)
(* pools, from what it does there.                                          *)
LEMMA StorePoolNext ==
  ASSUME Sound, Inv, Inv', [Next]_vars
  PROVE  [StorePool!Next]_(StorePool!PoolVars)
  <1> TypeOK /\ NULL \notin StoreIds /\ PhaseInv
    BY PointersDistinct DEF Inv
  <1> DEFINE w(e) == IF e \in ends THEN CachedStores(e) ELSE {}
             W == [e \in Ends |-> w(e)]
             U == [e \in Ends |-> StoresOf(e) \ w(e)]
             T == [e \in Ends |-> StoresOf(e)]
  <1>1. \A e \in Ends :
          /\ W[e] = IF e \in ends /\ store_empty[e] # NULL THEN {store_empty[e]} ELSE {}
          /\ W[e] \subseteq T[e] /\ T[e] \subseteq stores
    BY StoreMapping
  <1>2. \A e \in Ends :
          /\ W'[e] = IF e \in ends' /\ store_empty'[e] # NULL THEN {store_empty'[e]} ELSE {}
          /\ W'[e] \subseteq T'[e]
    <2>1. Inv' => (\A e \in Ends :
            LET V == IF e \in ends THEN CachedStores(e) ELSE {} IN
            /\ e \in ends => V = (IF store_empty[e] = NULL THEN {} ELSE {store_empty[e]})
            /\ V \subseteq StoresOf(e) /\ StoresOf(e) \subseteq stores)'
      BY StoreMapping, PTL
    <2> QED BY <2>1
  <1>3. /\ \A e \in Ends : T[e] = {s \in stores : owner[s] = e}
        /\ \A e \in Ends : T'[e] = {s \in stores' : owner'[s] = e}
    BY DEF StoresOf
  <1>4. /\ W = [e \in Ends |-> W[e]] /\ W' = [e \in Ends |-> W'[e]]
        /\ U = [e \in Ends |-> T[e] \ W[e]] /\ U' = [e \in Ends |-> T'[e] \ W'[e]]
    OBVIOUS
  (* The step of the pool is one of these, about W and U.                    *)
  <1>5. /\ ((\E e \in Ends, s \in StoreIds :
              \/ /\ s \in W[e] /\ W' = [W EXCEPT ![e] = @ \ {s}]
                 /\ U' = [U EXCEPT ![e] = @ \cup {s}] \/ U' = U
              \/ /\ W[e] = {} /\ s \notin UNION {W[f] \cup U[f] : f \in Ends}
                 /\ U' = [U EXCEPT ![e] = @ \cup {s}] /\ W' = W
              \/ /\ s \in U[e] /\ U' = [U EXCEPT ![e] = @ \ {s}]
                 /\ W' = [W EXCEPT ![e] = @ \cup {s}] \/ W' = W) => StorePool!Next)
        /\ W' = W /\ U' = U => UNCHANGED StorePool!PoolVars
    <2>1. W' = W /\ U' = U => UNCHANGED StorePool!PoolVars
      BY DEF StorePool!PoolVars
    <2> SUFFICES ASSUME NEW e \in Ends, NEW s \in StoreIds PROVE
              (\/ /\ s \in W[e] /\ W' = [W EXCEPT ![e] = @ \ {s}]
                  /\ U' = [U EXCEPT ![e] = @ \cup {s}] \/ U' = U
               \/ /\ W[e] = {} /\ s \notin UNION {W[f] \cup U[f] : f \in Ends}
                  /\ U' = [U EXCEPT ![e] = @ \cup {s}] /\ W' = W
               \/ /\ s \in U[e] /\ U' = [U EXCEPT ![e] = @ \ {s}]
                  /\ W' = [W EXCEPT ![e] = @ \cup {s}] \/ W' = W) => StorePool!Next
      BY <2>1
    <2> HIDE DEF w
    <2>2. s \in W[e] /\ W' = [W EXCEPT ![e] = @ \ {s}] /\ U' = [U EXCEPT ![e] = @ \cup {s}]
          => StorePool!Reuse(e, s)
      BY DEF StorePool!Reuse, w
    <2>3. s \in W[e] /\ W' = [W EXCEPT ![e] = @ \ {s}] /\ U' = U
          => StorePool!DropWaiting(e, s)
      BY DEF StorePool!DropWaiting, w
    <2>4. /\ W[e] = {} /\ s \notin UNION {W[f] \cup U[f] : f \in Ends}
          /\ U' = [U EXCEPT ![e] = @ \cup {s}] /\ W' = W
          => StorePool!Make(e, s)
      BY DEF StorePool!Make, StorePool!Existing, w
    <2>5. s \in U[e] /\ U' = [U EXCEPT ![e] = @ \ {s}] /\ W' = [W EXCEPT ![e] = @ \cup {s}]
          => StorePool!GiveBack(e, s)
      BY DEF StorePool!GiveBack, w
    <2>6. s \in U[e] /\ U' = [U EXCEPT ![e] = @ \ {s}] /\ W' = W => StorePool!DropUsed(e, s)
      BY DEF StorePool!DropUsed, w
    <2> QED BY <2>2, <2>3, <2>4, <2>5, <2>6 DEF StorePool!Next
  <1> HIDE DEF w, W, U, T
  <1>6. CASE UNCHANGED <<store_empty, stores, owner, ends>>
    <2>1. store_empty' = store_empty /\ stores' = stores /\ owner' = owner /\ ends' = ends
      BY <1>6
    <2>2. \A e \in Ends : W'[e] = W[e]
      BY <1>1, <1>2, <2>1
    <2>3. \A e \in Ends : T'[e] = T[e]
      BY <1>3, <2>1
    <2> QED BY <1>4, <1>5, <2>2, <2>3
  (* The two moves between waiting and used of one endpoint.                *)
  <1>7. ASSUME NEW e \in Ends, NEW s \in StoreIds, W[e] = {s}, W'[e] = {},
               \A f \in Ends : T'[f] = T[f], \A f \in Ends \ {e} : W'[f] = W[f]
        PROVE  StorePool!Next
    <2>1. T'[e] \ W'[e] = (T[e] \ W[e]) \cup {s}
      BY <1>1, <1>7
    <2>2. s \in W[e] /\ W' = [W EXCEPT ![e] = @ \ {s}] /\ U' = [U EXCEPT ![e] = @ \cup {s}]
      BY <1>4, <1>7, <2>1
    <2> QED BY <1>5, <2>2
  <1>8. CASE SetCachedStore
    <2> DEFINE e == endpoint[req]
               s == store_empty[e]
    <2>1. e \in ends /\ e \in Ends /\ s \in StoreIds /\ s # NULL /\ ~Holds(e)
      BY <1>8 DEF SetCachedStore, TypeOK, Holds, HoldsStore
    <2>2. store_next[s] = NULL
      BY <2>1 DEF Inv, StoreInv
    <2>3. /\ UNCHANGED <<stores, owner, ends>>
          /\ store_empty' = [store_empty EXCEPT ![e] = NULL]
      BY <1>8, <2>2 DEF SetCachedStore
    <2>4. store_empty'[e] = NULL /\ \A f \in Ends \ {e} : store_empty'[f] = store_empty[f]
      BY <2>1, <2>3 DEF TypeOK
    <2>5. s = store_empty[e]
      OBVIOUS
    <2> HIDE DEF e, s
    <2>6. W[e] = {s} /\ W'[e] = {}
      BY <1>1, <1>2, <2>1, <2>3, <2>4, <2>5
    <2>7. \A f \in Ends : T'[f] = T[f]
      BY <1>3, <2>3
    <2>8. \A f \in Ends \ {e} : W'[f] = W[f]
      BY <1>1, <1>2, <2>3, <2>4
    <2> QED BY <1>7, <2>1, <2>6, <2>7, <2>8
  <1>9. CASE MallocStore
    <2> DEFINE e == endpoint[req]
    <2>1. e \in ends /\ e \in Ends /\ store_empty[e] = NULL /\ ~Holds(e)
      BY <1>9 DEF MallocStore, NoCachedStore, TypeOK, Holds, HoldsStore
    <2>2. PICK s \in StoreIds \ stores :
            stores' = stores \cup {s} /\ owner' = [owner EXCEPT ![s] = e]
      BY <1>9 DEF MallocStore
    <2>3. UNCHANGED <<store_empty, ends>>
      BY <1>9 DEF MallocStore
    <2> HIDE DEF e
    <2>6. owner'[s] = e /\ \A t \in StoreIds \ {s} : owner'[t] = owner[t]
      BY <2>2 DEF TypeOK
    <2>7. stores \subseteq StoreIds
      BY DEF TypeOK
    <2>8. T'[e] = T[e] \cup {s} /\ \A f \in Ends \ {e} : T'[f] = T[f]
      <3>1. \A t \in stores : owner'[t] = owner[t] /\ t # s
        BY <2>2, <2>6, <2>7
      <3>2. T'[e] = T[e] \cup {s}
        BY <1>3, <2>1, <2>2, <2>6, <3>1
      <3>3. ASSUME NEW f \in Ends \ {e} PROVE T'[f] = T[f]
        <4>1. T'[f] = {t \in stores' : owner'[t] = f} /\ T[f] = {t \in stores : owner[t] = f}
          BY <1>3
        <4>2. T'[f] = T[f]
          BY <2>2, <2>6, <3>1, <4>1
        <4> QED BY <4>2
      <3> QED BY <3>2, <3>3
    <2>9. \A f \in Ends : W'[f] = W[f]
      BY <1>1, <1>2, <2>3
    <2>10. W[e] = {}
      BY <1>1, <2>1
    <2>11. W' = W
      BY <1>4, <2>9
    <2>12. U' = [U EXCEPT ![e] = @ \cup {s}]
      <3>1. \A f \in Ends \ {e} : T'[f] \ W'[f] = T[f] \ W[f]
        BY <2>8, <2>9
      <3>2. T'[e] \ W'[e] = (T[e] \ W[e]) \cup {s}
        BY <2>1, <2>8, <2>9, <2>10
      <3> QED BY <1>4, <2>1, <3>1, <3>2
    <2>13. \A f \in Ends : s \notin W[f] /\ s \notin U[f]
      BY <1>1, <1>4, <2>2
    <2>14. s \notin UNION {W[f] \cup U[f] : f \in Ends}
      BY <2>13
    <2> QED BY <1>5, <2>1, <2>2, <2>10, <2>11, <2>12, <2>14
  <1>10. CASE CacheStore
    <2> DEFINE e == endpoint[req]
               s == endpoint_store[req]
    <2>1. e \in ends /\ e \in Ends /\ s \in stores /\ s \in StoreIds
      BY <1>10 DEF CacheStore, TypeOK
    <2>2. store_empty[e] = NULL /\ s \in StoresOf(e) /\ s # NULL
      BY <1>10, <2>1, PointersDistinct
      DEF CacheStore, Inv, StoreInv, Holds, HoldsStore, TypeOK
    <2>3. /\ UNCHANGED <<stores, owner, ends>>
          /\ store_empty' = [store_empty EXCEPT ![e] = s]
      BY <1>10 DEF CacheStore
    <2>4. store_empty'[e] = s /\ \A f \in Ends \ {e} : store_empty'[f] = store_empty[f]
      BY <2>1, <2>3 DEF TypeOK
    <2> HIDE DEF e, s
    <2>5. W[e] = {} /\ W'[e] = {s} /\ s \in T[e]
      BY <1>1, <1>2, <2>1, <2>2, <2>3, <2>4 DEF T
    <2>6. \A f \in Ends : T'[f] = T[f]
      BY <1>3, <2>3
    <2>7. \A f \in Ends \ {e} : W'[f] = W[f]
      BY <1>1, <1>2, <2>3, <2>4
    <2>8. s \in U[e] /\ W' = [W EXCEPT ![e] = @ \cup {s}] /\ U' = [U EXCEPT ![e] = @ \ {s}]
      BY <1>4, <2>1, <2>5, <2>6, <2>7
    <2> QED BY <1>5, <2>1, <2>8
  <1>11. CASE EndFreeStore
    <2> DEFINE e == freeing
               s == store_empty[e]
    <2>1. e \in ends /\ e \in Ends /\ s \in stores /\ s \in StoreIds /\ s # NULL /\ ~Holds(e)
      BY <1>11 DEF EndFreeStore, TypeOK, PhaseInv, Holds, HoldsStore
    <2>2. store_next[s] = NULL /\ s \in StoresOf(e)
      BY <2>1 DEF Inv, StoreInv
    <2>3. UNCHANGED owner /\ store_empty' = [store_empty EXCEPT ![e] = NULL]
      BY <1>11, <2>2 DEF EndFreeStore
    <2>4. store_empty'[e] = NULL /\ \A f \in Ends \ {e} : store_empty'[f] = store_empty[f]
      BY <2>1, <2>3 DEF TypeOK
    <2>5. \/ stores' = stores \ {s} /\ ends' = ends
          \/ stores' = stores /\ ends' = ends \ {e}
      BY <1>11 DEF EndFreeStore
    <2>6. s = store_empty[e]
      OBVIOUS
    <2> HIDE DEF e, s
    <2>7. W[e] = {s} /\ W'[e] = {} /\ s \in T[e]
      BY <1>1, <1>2, <2>1, <2>2, <2>4, <2>6 DEF T
    <2>8. \A f \in Ends \ {e} : W'[f] = W[f]
      BY <1>1, <1>2, <2>4, <2>5
    <2>9. CASE stores' = stores
      <3>1. \A f \in Ends : T'[f] = T[f]
        BY <1>3, <2>3, <2>9
      <3> QED BY <1>7, <2>1, <2>7, <2>8, <3>1
    <2>10. CASE stores' = stores \ {s}
      <3>1. s \in T[e] /\ owner[s] = e
        BY <1>3, <2>1, <2>7
      <3>2. \A f \in Ends : T'[f] = T[f] \ {s}
        BY <1>3, <2>3, <2>10
      <3>3. \A f \in Ends \ {e} : s \notin T[f]
        BY <1>3, <3>1
      <3>4. W' = [W EXCEPT ![e] = @ \ {s}]
        BY <1>4, <2>1, <2>7, <2>8
      <3>5. \A f \in Ends : T'[f] \ W'[f] = T[f] \ W[f]
        BY <2>7, <2>8, <3>2, <3>3
      <3>6. U' = U
        BY <1>4, <3>5
      <3> QED BY <1>5, <2>1, <2>7, <3>4, <3>6
    <2> QED BY <2>5, <2>9, <2>10
  <1>12. CASE EndFreeDone
    <2>1. freeing \in ends /\ freeing \in Ends /\ store_empty[freeing] = NULL
      BY <1>12 DEF EndFreeDone, TypeOK, PhaseInv
    <2>2. UNCHANGED <<stores, owner, store_empty>> /\ ends' = ends \ {freeing}
      BY <1>12 DEF EndFreeDone
    <2>3. \A e \in Ends : W'[e] = W[e]
      BY <1>1, <1>2, <2>1, <2>2
    <2>4. \A e \in Ends : T'[e] = T[e]
      BY <1>3, <2>2
    <2> QED BY <1>4, <1>5, <2>3, <2>4
  <1>13. CASE FreeStore
    <2> DEFINE e == endpoint[req]
               s == endpoint_store[req]
    <2>1. e \in ends /\ e \in Ends /\ s \in stores /\ s \in StoreIds
      BY <1>13 DEF FreeStore, Inv, TypeOK
    <2>2. store_empty[e] = NULL /\ s \in StoresOf(e)
      BY <1>13, <2>1, PointersDistinct
      DEF FreeStore, Inv, StoreInv, Holds, HoldsStore, TypeOK
    <2>3. stores' = stores \ {s} /\ UNCHANGED <<owner, ends, store_empty>>
      BY <1>13 DEF FreeStore
    <2> HIDE DEF e, s
    <2>4. W[e] = {} /\ s \in T[e] /\ owner[s] = e
      BY <1>1, <1>3, <2>1, <2>2 DEF T
    <2>5. \A f \in Ends : W'[f] = W[f]
      BY <1>1, <1>2, <2>3
    <2>6. T'[e] = T[e] \ {s} /\ \A f \in Ends \ {e} : T'[f] = T[f]
      <3>1. ASSUME NEW f \in Ends PROVE T'[f] = T[f] \ {s}
        <4>1. T'[f] = {t \in stores' : owner'[t] = f} /\ T[f] = {t \in stores : owner[t] = f}
          BY <1>3
        <4> QED BY <2>3, <4>1
      <3>2. \A f \in Ends \ {e} : s \notin T[f]
        BY <1>3, <2>4
      <3> QED BY <2>1, <3>1, <3>2
    <2>7. s \in U[e] /\ W' = W /\ U' = [U EXCEPT ![e] = @ \ {s}]
      <3>1. \A f \in Ends \ {e} : T'[f] \ W'[f] = T[f] \ W[f]
        BY <2>5, <2>6
      <3>2. T'[e] \ W'[e] = (T[e] \ W[e]) \ {s} /\ s \in T[e] \ W[e]
        BY <2>1, <2>4, <2>5, <2>6
      <3> QED BY <1>4, <2>1, <2>5, <3>1, <3>2
    <2> QED BY <1>5, <2>1, <2>7
  <1>14. StoreQuiet \/ StoreCreated \/ FreeStoreFails
           => UNCHANGED <<store_empty, stores, owner, ends>>
    BY DEF StoreQuiet, StoreCreated, FreeStoreFails
  <1> QED BY <1>5, <1>6, <1>8, <1>9, <1>10, <1>11, <1>12, <1>13, <1>14, StoreMoves

(* PoolSpec: both caches make an object only when no left over waits, and   *)
(* lose none.                                                               *)
THEOREM Pooled == Sound => (Spec => PoolSpec)
  <1> SUFFICES ASSUME Sound PROVE Spec => PoolSpec
    OBVIOUS
  <1>1. Init => ReqPool!Init
    <2>1. Init => Inv
      BY InvInit
    <2> QED BY <2>1, ReqList DEF Init, ReqPool!Init
  <1>2. Init => StorePool!Init
    <2> SUFFICES ASSUME Init PROVE StorePool!Init
      OBVIOUS
    <2>1. Inv /\ \A e \in Ends : StoresOf(e) = {}
      BY InvInit DEF Init, StoresOf
    <2>2. \A e \in Ends : (IF e \in ends THEN CachedStores(e) ELSE {}) = {}
      BY <2>1, StoreMapping
    <2> QED BY <2>1, <2>2 DEF StorePool!Init
  <1>3. Inv /\ Inv' /\ [Next]_vars => [ReqPool!Next]_(ReqPool!PoolVars)
    BY ReqPoolNext
  <1>4. Inv /\ Inv' /\ [Next]_vars => [StorePool!Next]_(StorePool!PoolVars)
    BY StorePoolNext
  <1> QED BY Invariance, <1>1, <1>2, <1>3, <1>4, PTL
          DEF Spec, PoolSpec, ReqPool!Spec, StorePool!Spec
-----------------------------------------------------------------------------
(* One answer to every connection                                           *)

LEMMA RefuseAnswers ==
  ASSUME accepted = 1, answered = 0, NEW c, Refuse(c)
  PROVE  AnswerInv'
  <1>1. pc' = "give_back" /\ rc_ex' = FALSE /\ accepted' = 1 /\ answered' = 1
    BY DEF Refuse
  <1>2. ~(result' = -1 /\ rc_ex')
    BY <1>1
  <1> QED BY <1>1, <1>2 DEF AnswerInv

(* Whatever fails, and even when two lists share a store, no list has more  *)
(* than its head and no counter is too low.  That is enough for the free    *)
(* branches of req_maybe_free never to be taken with a factor of 1.618.     *)
SparseReqs ==
  /\ \A r \in ReqIds : req_next[r] = NULL
  /\ HoldsReq => req \in ReqIds /\ empty_req = NULL
  /\ all_count >= 0 /\ empty_count >= One(empty_req # NULL)

SparseStores ==
  /\ \A s \in StoreIds : store_next[s] = NULL
  /\ \A e \in Ends : /\ store_all_count[e] >= 0
                     /\ store_empty_count[e] >= One(store_empty[e] # NULL)
  /\ pc \in {"before_fcgx", "accept", "params", "before_endpoint", "route"} =>
       endpoint[req] = NULL
  /\ pc \in {"store_created", "req_new", "callback", "give_back"} =>
       \A e \in Ends : endpoint[req] = e => store_empty[e] = NULL

LEMMA SparseNeverFree ==
  ASSUME TypeOK, SparseReqs, SparseStores, Shipped
  PROVE  ~FreeStore /\ ~FreeStoreFails /\ ~FreeReq /\ ~FreeReqFails
  <1>1. all_count \in Nat /\ empty_count \in Nat
    BY DEF TypeOK, SparseReqs, One
  <1>2. \A e \in ends : store_all_count[e] \in Nat /\ store_empty_count[e] \in Nat
    BY DEF TypeOK, SparseStores, One
  <1> QED BY <1>1, <1>2, InUse DEF FreeStore, FreeStoreFails, FreeReq, FreeReqFails

LEMMA SparseReqsNext ==
  ASSUME TypeOK, SparseReqs, ~FreeReq, Next
  PROVE  SparseReqs'
  <1> USE DEF SparseReqs, One, HoldsReq
  <1>0. /\ req_next \in [ReqIds -> ReqIds \cup {NULL}] /\ empty_req \in ReqIds \cup {NULL}
        /\ all_count \in Int /\ empty_count \in Int
    BY DEF TypeOK
  <1>1. GetCachedReq => SparseReqs'
    BY <1>0 DEF GetCachedReq
  <1>2. MallocReq => SparseReqs'
    BY DEF MallocReq, NoCachedReq
  <1>3. ReqCreated => SparseReqs'
    BY <1>0 DEF ReqCreated
  <1>4. MallocReqFails \/ ReqCreatedFails => SparseReqs'
    BY DEF MallocReqFails, ReqCreatedFails
  <1>5. BeforeFcgx \/ Accept \/ AcceptFails \/ Callback => SparseReqs'
    BY DEF BeforeFcgx, Accept, AcceptFails, Callback
  <1>6. Params \/ BeforeEndpoint \/ Route \/ ReqNew => SparseReqs'
    BY DEF Params, BeforeEndpoint, Route, ReqNew, Refuse
  <1>7. SetCachedStore \/ MallocStore \/ StoreCreated => SparseReqs'
    BY DEF SetCachedStore, MallocStore, StoreCreated
  <1>8. MallocStoreFails \/ StoreCreatedFails => SparseReqs'
    BY DEF MallocStoreFails, StoreCreatedFails, Refuse
  <1>9. NoStoreToGiveBack \/ CacheStore \/ FreeStore => SparseReqs'
    BY DEF NoStoreToGiveBack, CacheStore, FreeStore
  <1>10. FreeStoreFails \/ FreeReqFails => SparseReqs'
    BY DEF FreeStoreFails, FreeReqFails, AfterGiveBack
  <1>11. CacheReq => SparseReqs'
    BY <1>0 DEF CacheReq, AfterGiveBack
  <1>12. HandleNew \/ Incoming \/ ExitRequest \/ ExitRequestFails \/ Dangling => SparseReqs'
    BY DEF HandleNew, Incoming, ExitRequest, ExitRequestFails, Dangling
  <1>13. Stop \/ EndFree \/ EndFreeDone \/ ReqDeinit \/ ReqDeinitDone => SparseReqs'
    BY DEF Stop, EndFree, EndFreeDone, ReqDeinit, ReqDeinitDone
  <1>14. EndFreeStore => SparseReqs'
    BY DEF EndFreeStore
  <1>15. ReqDeinitOne => SparseReqs'
    BY <1>0 DEF ReqDeinitOne, TypeOK
  <1>16. Ended => SparseReqs'
    BY DEF Ended, vars
  <1> HIDE DEF SparseReqs, One, HoldsReq
  <1> QED
    BY <1>1, <1>2, <1>3, <1>4, <1>5, <1>6, <1>7, <1>8, <1>9, <1>10, <1>11, <1>12,
       <1>13, <1>14, <1>15, <1>16
    DEF Next, Handler, Acquire, Serve, SetStore, GiveBack, Teardown

LEMMA SparseStoresNext ==
  ASSUME TypeOK, SparseReqs, SparseStores, ~FreeStore, Next
  PROVE  SparseStores'
  <1> USE DEF SparseStores, One
  <1>0. /\ store_next \in [StoreIds -> StoreIds \cup {NULL}]
        /\ store_empty \in [Ends -> StoreIds \cup {NULL}]
        /\ store_all_count \in [Ends -> Int] /\ store_empty_count \in [Ends -> Int]
        /\ endpoint \in [ReqIds -> Ends \cup {NULL, Wild}]
        /\ stores \subseteq StoreIds /\ ends \subseteq Ends
        /\ NULL \notin StoreIds /\ NULL \notin Ends
        /\ HoldsReq => req \in ReqIds
    BY PointersDistinct DEF TypeOK, SparseReqs
  <1>1. GetCachedReq \/ ReqCreated => SparseStores'
    BY <1>0 DEF GetCachedReq, ReqCreated, Reset, HoldsReq, TypeOK
  <1>2. MallocReq \/ MallocReqFails \/ ReqCreatedFails => SparseStores'
    BY DEF MallocReq, MallocReqFails, ReqCreatedFails
  <1>3. BeforeFcgx \/ Accept \/ AcceptFails \/ Callback => SparseStores'
    BY <1>0 DEF BeforeFcgx, Accept, AcceptFails, Callback
  <1>4. Params \/ BeforeEndpoint \/ ReqNew => SparseStores'
    BY <1>0 DEF Params, BeforeEndpoint, ReqNew, Refuse
  <1>5. Route => SparseStores'
    BY <1>0 DEF Route, Refuse
  <1>6. SetCachedStore => SparseStores'
    <2> SUFFICES ASSUME SetCachedStore PROVE SparseStores'
      OBVIOUS
    <2> DEFINE d == endpoint[req]
    <2>1. /\ pc' = "req_new" /\ d \in Ends /\ store_empty[d] # NULL
          /\ store_empty[d] \in StoreIds
          /\ store_empty_count' = [store_empty_count EXCEPT ![d] = @ - 1]
          /\ UNCHANGED <<req, endpoint, store_next, store_all_count>>
      BY <1>0 DEF SetCachedStore
    <2>2. store_empty' = [store_empty EXCEPT ![d] = NULL]
      BY <2>1 DEF SetCachedStore
    <2> HIDE DEF d
    <2>3. \A e \in Ends : store_empty_count'[e] >= One(store_empty'[e] # NULL)
      BY <1>0, <2>1, <2>2
    <2> QED BY <1>0, <2>1, <2>2, <2>3 DEF d
  <1>7. MallocStore => SparseStores'
    BY <1>0 DEF MallocStore, NoCachedStore
  <1>8. StoreCreated => SparseStores'
    BY <1>0 DEF StoreCreated
  <1>9. MallocStoreFails \/ StoreCreatedFails => SparseStores'
    BY <1>0 DEF MallocStoreFails, StoreCreatedFails, Refuse, NoCachedStore
  <1>10. CacheStore => SparseStores'
    <2> SUFFICES ASSUME CacheStore PROVE SparseStores'
      OBVIOUS
    <2>1. /\ pc = "give_back" /\ pc' = "give_back_req"
          /\ endpoint[req] \in Ends /\ endpoint_store[req] \in StoreIds
          /\ store_next' = [store_next EXCEPT ![endpoint_store[req]] = store_empty[endpoint[req]]]
          /\ store_empty' = [store_empty EXCEPT ![endpoint[req]] = endpoint_store[req]]
          /\ store_empty_count' = [store_empty_count EXCEPT ![endpoint[req]] = @ + 1]
          /\ UNCHANGED store_all_count
      BY <1>0 DEF CacheStore
    <2>2. store_empty[endpoint[req]] = NULL
      BY <2>1
    <2> QED BY <1>0, <2>1, <2>2
  <1>11. NoStoreToGiveBack \/ FreeStoreFails \/ CacheReq \/ FreeReq \/ FreeReqFails
           => SparseStores'
    BY DEF NoStoreToGiveBack, FreeStoreFails, CacheReq, FreeReq, FreeReqFails, AfterGiveBack
  <1>12. HandleNew \/ Incoming \/ ExitRequest \/ ExitRequestFails \/ Dangling
           => SparseStores'
    BY DEF HandleNew, Incoming, ExitRequest, ExitRequestFails, Dangling
  <1>13. Stop \/ EndFree \/ EndFreeDone \/ ReqDeinit \/ ReqDeinitOne \/ ReqDeinitDone
           => SparseStores'
    BY DEF Stop, EndFree, EndFreeDone, ReqDeinit, ReqDeinitOne, ReqDeinitDone
  <1>14. EndFreeStore => SparseStores'
    <2> SUFFICES ASSUME EndFreeStore PROVE SparseStores'
      OBVIOUS
    <2>1. /\ pc' \in {"end_free", "idle"}
          /\ store_next[store_empty[freeing]] = NULL
          /\ store_empty' = [store_empty EXCEPT ![freeing] = store_next[store_empty[freeing]]]
          /\ UNCHANGED <<store_next, store_all_count, store_empty_count>>
      BY <1>0 DEF EndFreeStore
    <2> QED BY <1>0, <2>1
  <1>15. Ended => SparseStores'
    BY DEF Ended, vars
  <1> HIDE DEF SparseStores, One
  <1> QED
    BY <1>1, <1>2, <1>3, <1>4, <1>5, <1>6, <1>7, <1>8, <1>9, <1>10, <1>11, <1>12,
       <1>13, <1>14, <1>15
    DEF Next, Handler, Acquire, Serve, SetStore, GiveBack, Teardown

LEMMA Sparse == Shipped => (Spec => [](SparseReqs /\ SparseStores))
  <1> SUFFICES ASSUME Shipped PROVE Spec => [](SparseReqs /\ SparseStores)
    OBVIOUS
  <1>1. Init => SparseReqs /\ SparseStores
    BY DEF Init, SparseReqs, SparseStores, HoldsReq, One
  <1>2. TypeOK /\ SparseReqs /\ SparseStores /\ [Next]_vars
          => SparseReqs' /\ SparseStores'
    <2>1. CASE UNCHANGED vars
      BY <2>1 DEF vars, SparseReqs, SparseStores, HoldsReq, One
    <2> QED BY <2>1, SparseNeverFree, SparseReqsNext, SparseStoresNext
  <1> QED BY Typing, <1>1, <1>2, PTL DEF Spec

LEMMA AnswerNext ==
  ASSUME TypeOK, TypeOK', AnswerInv, ~FreeStoreFails, ~FreeReqFails, [Next]_vars
  PROVE  AnswerInv'
  <1> USE DEF AfterGiveBack
  <1> /\ accepted \in Nat /\ answered \in Nat /\ events \in Nat
      /\ result \in {0, -1} /\ rc_ex \in BOOLEAN
    BY GrowthType DEF TypeOK
  <1>1. CASE HandleNew
    BY <1>1 DEF HandleNew, AnswerInv, Refuse, Caused, HookFails
  <1>2. CASE Incoming
    BY <1>2 DEF Incoming, AnswerInv, Refuse, Caused, HookFails
  <1>3. CASE GetCachedReq
    BY <1>3 DEF GetCachedReq, AnswerInv, Refuse, Caused, HookFails
  <1>4. CASE MallocReq
    BY <1>4 DEF MallocReq, AnswerInv, Refuse, Caused, HookFails
  <1>5. CASE MallocReqFails
    BY <1>5 DEF MallocReqFails, AnswerInv, Refuse, Caused, HookFails
  <1>6. CASE ReqCreated
    BY <1>6 DEF ReqCreated, AnswerInv, Refuse, Caused, HookFails
  <1>7. CASE ReqCreatedFails
    BY <1>7 DEF ReqCreatedFails, AnswerInv, Refuse, Caused, HookFails
  <1>8. CASE BeforeFcgx
    BY <1>8 DEF BeforeFcgx, AnswerInv, Refuse, Caused, HookFails
  <1>9. CASE Accept
    BY <1>9 DEF Accept, AnswerInv, Refuse, Caused, HookFails
  <1>10. CASE AcceptFails
    BY <1>10 DEF AcceptFails, AnswerInv, Refuse, Caused, HookFails
  <1>11. CASE Params
    <2>1. accepted = 1 /\ answered = 0 /\ result = 0 /\ rc_ex
      BY <1>11 DEF Params, AnswerInv
    <2>2. \/ pc' = "before_endpoint" /\ UNCHANGED <<rc_ex, result, accepted, answered>>
          \/ \E c \in HookErrors \cup {0} : Refuse(c)
      BY <1>11 DEF Params, AnswerInv, Refuse, Caused, HookFails
    <2> QED BY <2>1, <2>2, RefuseAnswers DEF AnswerInv
  <1>12. CASE BeforeEndpoint
    <2>1. accepted = 1 /\ answered = 0 /\ result = 0 /\ rc_ex
      BY <1>12 DEF BeforeEndpoint, AnswerInv
    <2>2. \/ pc' = "route" /\ UNCHANGED <<rc_ex, result, accepted, answered>>
          \/ \E c \in HookErrors \cup {0} : Refuse(c)
      BY <1>12 DEF BeforeEndpoint, AnswerInv, Refuse, Caused, HookFails
    <2> QED BY <2>1, <2>2, RefuseAnswers DEF AnswerInv
  <1>13. CASE Route
    <2>1. accepted = 1 /\ answered = 0 /\ result = 0 /\ rc_ex
      BY <1>13 DEF Route, AnswerInv
    <2>2. \/ pc' = "store_set" /\ UNCHANGED <<rc_ex, result, accepted, answered>>
          \/ \E c \in HookErrors \cup {0} : Refuse(c)
      BY <1>13 DEF Route, AnswerInv, Refuse, Caused, HookFails
    <2> QED BY <2>1, <2>2, RefuseAnswers DEF AnswerInv
  <1>14. CASE SetCachedStore
    BY <1>14 DEF SetCachedStore, AnswerInv, Refuse, Caused, HookFails
  <1>15. CASE MallocStore
    BY <1>15 DEF MallocStore, AnswerInv, Refuse, Caused, HookFails
  <1>16. CASE MallocStoreFails
    BY <1>16 DEF MallocStoreFails, AnswerInv, Refuse, Caused, HookFails
  <1>17. CASE StoreCreated
    BY <1>17 DEF StoreCreated, AnswerInv, Refuse, Caused, HookFails
  <1>18. CASE StoreCreatedFails
    BY <1>18 DEF StoreCreatedFails, AnswerInv, Refuse, Caused, HookFails
  <1>19. CASE ReqNew
    <2>1. accepted = 1 /\ answered = 0 /\ result = 0 /\ rc_ex
      BY <1>19 DEF ReqNew, AnswerInv
    <2>2. \/ pc' = "callback" /\ UNCHANGED <<rc_ex, result, accepted, answered>>
          \/ \E c \in HookErrors \cup {0} : Refuse(c)
      BY <1>19 DEF ReqNew, AnswerInv, Refuse, Caused, HookFails
    <2> QED BY <2>1, <2>2, RefuseAnswers DEF AnswerInv
  <1>20. CASE Callback
    BY <1>20 DEF Callback, AnswerInv, Refuse, Caused, HookFails
  <1>21. CASE NoStoreToGiveBack
    BY <1>21 DEF NoStoreToGiveBack, AnswerInv, Refuse, Caused, HookFails
  <1>22. CASE CacheStore
    BY <1>22 DEF CacheStore, AnswerInv, Refuse, Caused, HookFails
  <1>23. CASE FreeStore
    BY <1>23 DEF FreeStore, AnswerInv, Refuse, Caused, HookFails
  <1>24. CASE FreeStoreFails
    BY <1>24
  <1>25. CASE CacheReq
    BY <1>25 DEF CacheReq, AnswerInv, Refuse, Caused, HookFails
  <1>26. CASE FreeReq
    BY <1>26 DEF FreeReq, AnswerInv, Refuse, Caused, HookFails
  <1>27. CASE FreeReqFails
    BY <1>27
  <1>28. CASE ExitRequest
    BY <1>28 DEF ExitRequest, AnswerInv, Refuse, Caused, HookFails
  <1>29. CASE ExitRequestFails
    BY <1>29 DEF ExitRequestFails, AnswerInv, Refuse, Caused, HookFails
  <1>30. CASE Dangling
    BY <1>30 DEF Dangling, AnswerInv, Refuse, Caused, HookFails
  <1>31. CASE Stop
    BY <1>31 DEF Stop, AnswerInv, Refuse, Caused, HookFails
  <1>32. CASE EndFree
    BY <1>32 DEF EndFree, AnswerInv, Refuse, Caused, HookFails
  <1>33. CASE EndFreeStore
    BY <1>33 DEF EndFreeStore, AnswerInv, Refuse, Caused, HookFails
  <1>34. CASE EndFreeDone
    BY <1>34 DEF EndFreeDone, AnswerInv, Refuse, Caused, HookFails
  <1>35. CASE ReqDeinit
    BY <1>35 DEF ReqDeinit, AnswerInv, Refuse, Caused, HookFails
  <1>36. CASE ReqDeinitOne
    BY <1>36 DEF ReqDeinitOne, AnswerInv, Refuse, Caused, HookFails
  <1>37. CASE ReqDeinitDone
    BY <1>37 DEF ReqDeinitDone, AnswerInv, Refuse, Caused, HookFails
  <1>38. CASE Ended
    BY <1>38 DEF Ended, vars, AnswerInv, Refuse, Caused, HookFails
  <1>39. CASE UNCHANGED vars
    BY <1>39 DEF vars, AnswerInv, Refuse, Caused, HookFails
  <1> QED
    BY <1>1, <1>2, <1>3, <1>4, <1>5, <1>6, <1>7, <1>8, <1>9, <1>10, <1>11,
       <1>12, <1>13, <1>14, <1>15, <1>16, <1>17, <1>18, <1>19, <1>20, <1>21,
       <1>22, <1>23, <1>24, <1>25, <1>26, <1>27, <1>28, <1>29, <1>30, <1>31,
       <1>32, <1>33, <1>34, <1>35, <1>36, <1>37, <1>38, <1>39
    DEF Next, Handler, Acquire, Serve, SetStore, GiveBack, Teardown

(* OneAnswer: one connection is accepted and answered per event, whatever   *)
(* fails, with the growth factors of config.h; with any growth factors if   *)
(* no FREE hook fails.                                                      *)
THEOREM EveryConnectionAnswered == Shipped \/ FreeHooksSucceed => (Spec => []OneAnswer)
  <1> SUFFICES ASSUME Shipped \/ FreeHooksSucceed PROVE Spec => []OneAnswer
    OBVIOUS
  <1>1. Init => AnswerInv
    BY DEF Init, AnswerInv
  <1>2. AnswerInv => OneAnswer
    BY DEF AnswerInv, OneAnswer
  <1>3. CASE Shipped
    <2>1. TypeOK /\ TypeOK' /\ SparseReqs /\ SparseStores /\ AnswerInv /\ [Next]_vars
            => AnswerInv'
      BY <1>3, AnswerNext, SparseNeverFree
    <2>2. Spec => [](SparseReqs /\ SparseStores)
      BY <1>3, Sparse
    <2> QED BY Typing, <1>1, <1>2, <2>1, <2>2, PTL DEF Spec
  <1>4. CASE FreeHooksSucceed
    <2>1. ~FreeStoreFails /\ ~FreeReqFails
      BY <1>4 DEF FreeHooksSucceed, HookFails, FreeStoreFails, FreeReqFails
    <2>2. TypeOK /\ TypeOK' /\ AnswerInv /\ [Next]_vars => AnswerInv'
      BY <2>1, AnswerNext
    <2> QED BY Typing, <1>1, <1>2, <2>2, PTL DEF Spec
  <1> QED BY <1>3, <1>4

-----------------------------------------------------------------------------
(* FREE hooks before free                                                   *)

(* An object whose creation hooks are running has completed none yet, and   *)
(* where the handler holds a request there is one.                          *)
BornInv ==
  /\ HoldsReq => req \in ReqIds
  /\ pc = "req_created" => hooked[req] = {}
  /\ pc = "store_created" =>
       endpoint_store[req] \in StoreIds /\ hooked[endpoint_store[req]] = {}

(* Most steps create nothing.                                               *)
LEMMA BornStable ==
  ASSUME BornInv, pc' \notin {"req_created", "store_created"}, HoldsReq' => HoldsReq /\ req' = req
  PROVE  BornInv'
  BY DEF BornInv

LEMMA BornNext == TypeOK /\ BornInv /\ [Next]_vars => BornInv'
  <1> SUFFICES ASSUME TypeOK, BornInv, [Next]_vars PROVE BornInv'
    OBVIOUS
  <1> DEFINE Stays == /\ pc' \notin {"req_created", "store_created"}
                      /\ HoldsReq' => HoldsReq /\ req' = req
  <1> USE DEF HoldsReq, Refuse, AfterGiveBack
  <1>1. CASE GetCachedReq
    BY <1>1 DEF GetCachedReq, BornInv, TypeOK
  <1>2. CASE MallocReq
    BY <1>2 DEF MallocReq, BornInv, TypeOK
  <1>3. CASE MallocStore
    <2>1. req \in ReqIds /\ req' = req /\ pc' = "store_created"
      BY <1>3 DEF MallocStore, BornInv
    <2>2. PICK s \in StoreIds :
            /\ endpoint_store' = [endpoint_store EXCEPT ![req] = s]
            /\ hooked' = [hooked EXCEPT ![s] = {}]
      BY <1>3 DEF MallocStore
    <2>3. endpoint_store'[req] = s /\ hooked'[s] = {}
      BY <2>1, <2>2 DEF TypeOK
    <2> QED BY <2>1, <2>3 DEF BornInv
  <1>4. CASE HandleNew
    <2>1. Stays
      BY <1>4 DEF HandleNew
    <2> QED BY <2>1, BornStable
  <1>5. CASE Incoming
    <2>1. Stays
      BY <1>5 DEF Incoming
    <2> QED BY <2>1, BornStable
  <1>6. CASE MallocReqFails
    <2>1. Stays
      BY <1>6 DEF MallocReqFails
    <2> QED BY <2>1, BornStable
  <1>7. CASE ReqCreated
    <2>1. Stays
      BY <1>7 DEF ReqCreated
    <2> QED BY <2>1, BornStable
  <1>8. CASE ReqCreatedFails
    <2>1. Stays
      BY <1>8 DEF ReqCreatedFails
    <2> QED BY <2>1, BornStable
  <1>9. CASE BeforeFcgx
    <2>1. Stays
      BY <1>9 DEF BeforeFcgx
    <2> QED BY <2>1, BornStable
  <1>10. CASE Accept
    <2>1. Stays
      BY <1>10 DEF Accept
    <2> QED BY <2>1, BornStable
  <1>11. CASE AcceptFails
    <2>1. Stays
      BY <1>11 DEF AcceptFails
    <2> QED BY <2>1, BornStable
  <1>12. CASE Params
    <2>1. Stays
      BY <1>12 DEF Params
    <2> QED BY <2>1, BornStable
  <1>13. CASE BeforeEndpoint
    <2>1. Stays
      BY <1>13 DEF BeforeEndpoint
    <2> QED BY <2>1, BornStable
  <1>14. CASE Route
    <2>1. Stays
      BY <1>14 DEF Route
    <2> QED BY <2>1, BornStable
  <1>15. CASE SetCachedStore
    <2>1. Stays
      BY <1>15 DEF SetCachedStore
    <2> QED BY <2>1, BornStable
  <1>16. CASE MallocStoreFails
    <2>1. Stays
      BY <1>16 DEF MallocStoreFails
    <2> QED BY <2>1, BornStable
  <1>17. CASE StoreCreated
    <2>1. Stays
      BY <1>17 DEF StoreCreated
    <2> QED BY <2>1, BornStable
  <1>18. CASE StoreCreatedFails
    <2>1. Stays
      BY <1>18 DEF StoreCreatedFails
    <2> QED BY <2>1, BornStable
  <1>19. CASE ReqNew
    <2>1. Stays
      BY <1>19 DEF ReqNew
    <2> QED BY <2>1, BornStable
  <1>20. CASE Callback
    <2>1. Stays
      BY <1>20 DEF Callback
    <2> QED BY <2>1, BornStable
  <1>21. CASE NoStoreToGiveBack
    <2>1. Stays
      BY <1>21 DEF NoStoreToGiveBack
    <2> QED BY <2>1, BornStable
  <1>22. CASE CacheStore
    <2>1. Stays
      BY <1>22 DEF CacheStore
    <2> QED BY <2>1, BornStable
  <1>23. CASE FreeStore
    <2>1. Stays
      BY <1>23 DEF FreeStore
    <2> QED BY <2>1, BornStable
  <1>24. CASE FreeStoreFails
    <2>1. Stays
      BY <1>24 DEF FreeStoreFails
    <2> QED BY <2>1, BornStable
  <1>25. CASE CacheReq
    <2>1. Stays
      BY <1>25 DEF CacheReq
    <2> QED BY <2>1, BornStable
  <1>26. CASE FreeReq
    <2>1. Stays
      BY <1>26 DEF FreeReq
    <2> QED BY <2>1, BornStable
  <1>27. CASE FreeReqFails
    <2>1. Stays
      BY <1>27 DEF FreeReqFails
    <2> QED BY <2>1, BornStable
  <1>28. CASE ExitRequest
    <2>1. Stays
      BY <1>28 DEF ExitRequest
    <2> QED BY <2>1, BornStable
  <1>29. CASE ExitRequestFails
    <2>1. Stays
      BY <1>29 DEF ExitRequestFails
    <2> QED BY <2>1, BornStable
  <1>30. CASE Dangling
    <2>1. Stays
      BY <1>30 DEF Dangling
    <2> QED BY <2>1, BornStable
  <1>31. CASE Stop
    <2>1. Stays
      BY <1>31 DEF Stop
    <2> QED BY <2>1, BornStable
  <1>32. CASE EndFree
    <2>1. Stays
      BY <1>32 DEF EndFree
    <2> QED BY <2>1, BornStable
  <1>33. CASE EndFreeStore
    <2>1. Stays
      BY <1>33 DEF EndFreeStore
    <2> QED BY <2>1, BornStable
  <1>34. CASE EndFreeDone
    <2>1. Stays
      BY <1>34 DEF EndFreeDone
    <2> QED BY <2>1, BornStable
  <1>35. CASE ReqDeinit
    <2>1. Stays
      BY <1>35 DEF ReqDeinit
    <2> QED BY <2>1, BornStable
  <1>36. CASE ReqDeinitOne
    <2>1. Stays
      BY <1>36 DEF ReqDeinitOne
    <2> QED BY <2>1, BornStable
  <1>37. CASE ReqDeinitDone
    <2>1. Stays
      BY <1>37 DEF ReqDeinitDone
    <2> QED BY <2>1, BornStable
  <1>38. CASE UNCHANGED vars
    BY <1>38 DEF vars, BornInv
  <1> QED
    BY <1>1, <1>2, <1>3, <1>4, <1>5, <1>6, <1>7, <1>8, <1>9, <1>10,
       <1>11, <1>12, <1>13, <1>14, <1>15, <1>16, <1>17, <1>18, <1>19, <1>20,
       <1>21, <1>22, <1>23, <1>24, <1>25, <1>26, <1>27, <1>28, <1>29, <1>30,
       <1>31, <1>32, <1>33, <1>34, <1>35, <1>36, <1>37, <1>38
    DEF Next, Ended, Handler, Acquire, Serve, SetStore, GiveBack, Teardown

-----------------------------------------------------------------------------
(* The caches are never shrunk with the growth factors of config.h          *)

LEMMA KeptNext ==
  ASSUME Sound, Shipped, Inv, CountInv, BornInv, [Next]_vars
  PROVE  phase' = "serving" => Made \subseteq (reqs \cup stores)'
  <1> SUFFICES ASSUME phase' = "serving" PROVE Made \subseteq (reqs \cup stores)'
    OBVIOUS
  <1>1. ~FreeReq /\ ~FreeStore
    BY NeverFree
  <1>2. ~ReqDeinitOne /\ ~EndFreeStore
    BY DEF ReqDeinitOne, EndFreeStore, Inv, PhaseInv
  <1>3. ReqCreatedFails \/ reqs \subseteq reqs'
    BY ReqMoves, <1>1, <1>2
    DEF ReqQuiet, GetCachedReq, MallocReq, ReqCreated, CacheReq, FreeReqFails, FreeStoreFails
  <1>4. stores \subseteq stores'
    BY StoreMoves, <1>1, <1>2
    DEF StoreQuiet, SetCachedStore, MallocStore, StoreCreated, CacheStore, FreeStoreFails,
        EndFreeDone
  <1>5. CASE ReqCreatedFails
    <2>1. reqs' = reqs \ {req} /\ hooked[req] = {}
      BY <1>5 DEF ReqCreatedFails, BornInv
    <2> QED BY <1>4, <2>1 DEF Made
  <1>6. CASE reqs \subseteq reqs'
    BY <1>4, <1>6 DEF Made
  <1> QED BY <1>3, <1>5, <1>6

(* Kept: an object whose creation hooks ran lives until the server stops.   *)
THEOREM CacheKept == Sound /\ Shipped => (Spec => Kept)
  <1> SUFFICES ASSUME Sound, Shipped PROVE Spec => Kept
    OBVIOUS
  <1>1. Spec => []BornInv
    <2>1. Init => BornInv
      BY DEF Init, BornInv, HoldsReq
    <2> QED BY Typing, <2>1, BornNext, PTL DEF Spec
  <1>2. Inv /\ CountInv /\ BornInv /\ [Next]_vars =>
          [phase' = "serving" => Made \subseteq (reqs \cup stores)']_vars
    BY KeptNext
  <1> QED BY Counting, <1>1, <1>2, PTL DEF Spec, Kept

=============================================================================
