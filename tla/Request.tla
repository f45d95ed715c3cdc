------------------------------ MODULE Request ------------------------------
(***************************************************************************)
(* The life of a request: src/req.c (fra_p_req_handle_new, the cache of    *)
(* fra_req_t objects, fra_p_req_deinit) and the stores of src/end.c that   *)
(* it takes and gives back (fra_p_end_store_set, .._maybe_free,            *)
(* fra_end_free).                                                          *)
(*                                                                         *)
(* fra_glob_poll calls the handler with main_poll_lock held, so requests   *)
(* are handled one at a time: there is one program counter.  The fra_p_lock*)
(* calls are no-ops here, as they are in the library: fra_p_pthreads is 0  *)
(* (src/lock.c:2) and no code of the library ever sets it.                 *)
(*                                                                         *)
(* Objects are identifiers, pointers are identifiers, NULL or Wild (a      *)
(* value that is no object's address).  Lists are kept as the code keeps   *)
(* them, in a head and next pointers, because what can go wrong is that    *)
(* two lists, or a list and a request, hold the same object.  A step that  *)
(* follows a pointer to no live object goes to pc = "undefined" and stays. *)
(***************************************************************************)
EXTENDS Integers, FiniteSets

CONSTANTS
  Ends,        \* the fra_end_t objects the program created and gave urls
  ReqIds,      \* addresses malloc can return for a fra_req_t
  StoreIds,    \* addresses malloc can return for a fra_p_end_store_t
  NULL,
  Wild,        \* a pointer to no object
  Uninit,      \* what a pointer field of fresh malloc memory may hold
  MayFail,     \* which hooks, and which calls, may fail
  HookErrors,  \* the non-zero values a failing hook returns
  Growth,      \* FRA_CORE_WAITING_*_GROWTH_FACTOR, in thousandths
  MaxEvents    \* bound: how many connections arrive

HookTypes == {"REQ_INCOMING", "REQ_CREATED", "END_STORE_CREATED",
              "REQ_BEFORE_FCGX", "REQ_BEFORE_ENDPOINT", "REQ_NEW",
              "REQ_FREE", "END_STORE_FREE"}
CallTypes == {"revents", "malloc_req", "malloc_store", "accept", "param"}

ASSUME PointersDistinct ==
  /\ NULL \notin Ends \cup ReqIds \cup StoreIds
  /\ Wild \notin Ends \cup ReqIds \cup StoreIds \cup {NULL}
ASSUME UninitType     == Uninit \subseteq {NULL, Wild} /\ NULL \in Uninit
ASSUME MayFailType    == MayFail \subseteq HookTypes \cup CallTypes
ASSUME HookErrorsType == HookErrors \subseteq Int \ {0}
ASSUME GrowthType     == Growth \in Nat /\ MaxEvents \in Nat

VARIABLES
  pc,                \* where fra_p_req_handle_new (or a teardown call) is
  req,               \* its local req
  rc_ex,             \* its local rc_ex: does the exit path accept and refuse?
  result,            \* what it will return: 0, or -1 once on a cleanup path
  reqs,              \* live fra_req_t objects
  req_next, endpoint, endpoint_store, fcgx_defined,    \* their fields
  empty_req, empty_count, all_count,                   \* statics of req.c
  stores, store_next,                                  \* live stores, a field
  ends,              \* live endpoints
  store_empty, store_empty_count, store_all_count,     \* fields of endpoints
  phase,             \* "serving", then "stopped", then "down"
  freeing,           \* the endpoint fra_end_free is working on
  events,            \* connections that have arrived
  owner,             \* history: the endpoint a store was allocated for
  hooked,            \* history: hook types completed on an object
  accepted, answered,    \* history: connections accepted and answered so far
  cause                  \* ... in this event; the value of the hook that failed

control  == <<pc, req, rc_ex, result>>
fields   == <<endpoint, endpoint_store, fcgx_defined>>
reqCache == <<empty_req, empty_count, all_count, req_next>>
heap     == <<reqs, stores>>
storeCache == <<store_empty, store_empty_count, store_all_count, store_next>>
teardown == <<ends, phase, freeing>>
served   == <<accepted, answered, cause>>
history  == <<owner, hooked, served>>
vars == <<control, fields, reqCache, heap, storeCache, teardown, events, history>>

-----------------------------------------------------------------------------
(* The operators whose names begin with Faulty are the code with a mistake  *)
(* in it; no specification uses them.  They show that a property can fail.  *)

(* all_count - empty_count > all_count * GROWTH_FACTOR                      *)
FaultyTooManyInUse(all, empty) == all > empty
TooManyInUse(all, empty) == (all - empty) * 1000 > all * Growth

(* hook_execute: a list runs to its end, or stops at a callback that        *)
(* returned rc # 0; history keeps that value, the library drops it.         *)
HookFails(type, rc) == type \in MayFail /\ rc \in HookErrors
Caused(rc) == cause' = rc /\ UNCHANGED <<accepted, answered>>

(* cur = empty_req, e->store_empty: is there no object to use again?        *)
FaultyNoCachedReq == Cardinality(reqs) < 2
NoCachedReq == empty_req = NULL
FaultyNoCachedStore(e) == store_empty_count[e] <= 1
NoCachedStore(e) == store_empty[e] = NULL

(* reset_req                                                                *)
FaultyReset(r) ==
  fcgx_defined' = [fcgx_defined EXCEPT ![r] = FALSE] /\ UNCHANGED endpoint
Reset(r) ==
  /\ fcgx_defined' = [fcgx_defined EXCEPT ![r] = FALSE]
  /\ endpoint' = [endpoint EXCEPT ![r] = NULL]

(* fcgx_cleanup: refuse on the accepted connection, finish it, give back.   *)
FaultyRefuse(why) ==
  /\ answered' = answered + 1 /\ cause' = why /\ UNCHANGED accepted
  /\ result' = -1 /\ pc' = "give_back" /\ UNCHANGED rc_ex
Refuse(why) ==
  /\ answered' = answered + 1 /\ cause' = why /\ UNCHANGED accepted
  /\ rc_ex' = FALSE /\ result' = -1 /\ pc' = "give_back"

(* fra_p_req_hook_execute runs the endpoint's hooks first, if there is one. *)
EndpointUsable(r) == endpoint[r] \in ends \cup {NULL}

Completed(o, type) == hooked' = [hooked EXCEPT ![o] = @ \cup {type}]

Init ==
  /\ pc = "idle" /\ req = NULL /\ rc_ex = TRUE /\ result = 0
  /\ reqs = {} /\ stores = {} /\ ends = Ends
  /\ req_next = [r \in ReqIds |-> NULL]
  /\ endpoint = [r \in ReqIds |-> NULL]
  /\ endpoint_store = [r \in ReqIds |-> NULL]
  /\ fcgx_defined = [r \in ReqIds |-> FALSE]
  /\ empty_req = NULL /\ empty_count = 0 /\ all_count = 0
  /\ store_next = [s \in StoreIds |-> NULL]
  /\ store_empty = [e \in Ends |-> NULL]
  /\ store_empty_count = [e \in Ends |-> 0]
  /\ store_all_count = [e \in Ends |-> 0]
  /\ phase = "serving" /\ freeing = NULL /\ events = 0
  /\ owner = [s \in StoreIds |-> NULL]
  /\ hooked = [o \in ReqIds \cup StoreIds |-> {}]
  /\ accepted = 0 /\ answered = 0 /\ cause = 0

-----------------------------------------------------------------------------
(* fra_p_req_handle_new up to the request object                            *)

(* fra_glob_poll saw descriptor 0 ready: a connection is waiting, unless    *)
(* revents has no POLLIN.                                                   *)
HandleNew ==
  /\ pc = "idle" /\ phase = "serving" /\ events < MaxEvents
  /\ events' = events + 1
  /\ \/ pc' = "incoming" /\ result' = 0
     \/ "revents" \in MayFail /\ pc' = "exit" /\ result' = -1
  /\ rc_ex' = TRUE /\ req' = NULL
  /\ accepted' = 0 /\ answered' = 0 /\ cause' = 0
  /\ UNCHANGED <<fields, reqCache, heap, storeCache, teardown, owner, hooked>>

(* fra_p_glob_hook_execute( FRA_REQ_INCOMING )                              *)
FaultyIncoming ==
  /\ pc = "incoming"
  /\ \/ pc' = "get_req" /\ UNCHANGED <<result, served>>
     \/ \E rc \in HookErrors :
          /\ HookFails("REQ_INCOMING", rc) /\ Caused(rc)
          /\ pc' = "exit" /\ result' = rc
  /\ UNCHANGED <<req, rc_ex, fields, reqCache, heap, storeCache, teardown,
                 events, owner, hooked>>
Incoming ==
  /\ pc = "incoming"
  /\ \/ pc' = "get_req" /\ UNCHANGED <<result, served>>
     \/ /\ \E rc \in HookErrors : HookFails("REQ_INCOMING", rc) /\ Caused(rc)
        /\ pc' = "exit" /\ result' = -1
  /\ UNCHANGED <<req, rc_ex, fields, reqCache, heap, storeCache, teardown,
                 events, owner, hooked>>

(* get_req with a cached object, then reset_req.                            *)
GetCachedReq ==
  /\ pc = "get_req" /\ empty_req # NULL
  /\ req' = empty_req
  /\ empty_req' = req_next[empty_req]
  /\ empty_count' = empty_count - 1
  /\ Reset(empty_req)
  /\ pc' = "before_fcgx"
  /\ UNCHANGED <<rc_ex, result, all_count, req_next, endpoint_store, heap,
                 storeCache, teardown, events, history>>

(* get_req with an empty cache: malloc, whose memory is not initialised.    *)
MallocReq ==
  /\ pc = "get_req" /\ NoCachedReq
  /\ \E r \in ReqIds \ reqs, p \in Uninit, q \in Uninit :
       /\ req' = r
       /\ reqs' = reqs \cup {r}
       /\ endpoint' = [endpoint EXCEPT ![r] = p]
       /\ endpoint_store' = [endpoint_store EXCEPT ![r] = q]
       /\ hooked' = [hooked EXCEPT ![r] = {}]
  /\ pc' = "req_created"
  /\ UNCHANGED <<rc_ex, result, fcgx_defined, reqCache, stores, storeCache,
                 teardown, events, owner, served>>

(* malloc returns NULL: unlock_cleanup, get_req returns NULL.               *)
MallocReqFails ==
  /\ pc = "get_req" /\ NoCachedReq
  /\ "malloc_req" \in MayFail
  /\ pc' = "exit" /\ result' = -1
  /\ UNCHANGED <<req, rc_ex, fields, reqCache, heap, storeCache, teardown,
                 events, history>>

(* FRA_REQ_CREATED hooks on the new object, then reset_req.                 *)
FaultyReqCreated ==
  /\ pc = "req_created" /\ EndpointUsable(req)
  /\ Completed(req, "REQ_CREATED")
  /\ Reset(req)
  /\ pc' = "before_fcgx"
  /\ UNCHANGED <<req, rc_ex, result, endpoint_store, reqCache, heap, storeCache,
                 teardown, events, owner, served>>
ReqCreated ==
  /\ pc = "req_created" /\ EndpointUsable(req)
  /\ Completed(req, "REQ_CREATED")
  /\ all_count' = all_count + 1
  /\ Reset(req)
  /\ pc' = "before_fcgx"
  /\ UNCHANGED <<req, rc_ex, result, endpoint_store, req_next, empty_req,
                 empty_count, heap, storeCache, teardown, events, owner, served>>

(* A FRA_REQ_CREATED hook fails: cur_cleanup frees the object.              *)
ReqCreatedFails ==
  /\ pc = "req_created" /\ EndpointUsable(req)
  /\ \E rc \in HookErrors : HookFails("REQ_CREATED", rc) /\ Caused(rc)
  /\ reqs' = reqs \ {req}
  /\ req' = NULL
  /\ pc' = "exit" /\ result' = -1
  /\ UNCHANGED <<rc_ex, fields, reqCache, stores, storeCache, teardown,
                 events, owner, hooked>>

-----------------------------------------------------------------------------
(* fra_p_req_handle_new from the connection to the callback                 *)

(* FRA_REQ_BEFORE_FCGX hooks; on failure req_cleanup, with rc_ex still set. *)
FaultyBeforeFcgx ==
  /\ pc = "before_fcgx" /\ EndpointUsable(req)
  /\ \/ pc' = "accept" /\ UNCHANGED <<result, served>>
     \/ /\ \E rc \in HookErrors : HookFails("REQ_BEFORE_FCGX", rc) /\ Caused(rc)
        /\ pc' = "exit" /\ result' = -1
  /\ UNCHANGED <<req, rc_ex, fields, reqCache, heap, storeCache, teardown,
                 events, owner, hooked>>
BeforeFcgx ==
  /\ pc = "before_fcgx" /\ EndpointUsable(req)
  /\ \/ pc' = "accept" /\ UNCHANGED <<result, served>>
     \/ /\ \E rc \in HookErrors : HookFails("REQ_BEFORE_FCGX", rc) /\ Caused(rc)
        /\ pc' = "give_back" /\ result' = -1
  /\ UNCHANGED <<req, rc_ex, fields, reqCache, heap, storeCache, teardown,
                 events, owner, hooked>>

(* FCGX_Accept_r succeeds.                                                  *)
Accept ==
  /\ pc = "accept"
  /\ accepted' = accepted + 1 /\ UNCHANGED <<answered, cause>>
  /\ fcgx_defined' = [fcgx_defined EXCEPT ![req] = TRUE]
  /\ pc' = "params"
  /\ UNCHANGED <<req, rc_ex, result, endpoint, endpoint_store, reqCache, heap,
                 storeCache, teardown, events, owner, hooked>>

(* FCGX_Accept_r fails: fcgx_cleanup prints to fcgx.out, which is NULL.     *)
AcceptFails ==
  /\ pc = "accept" /\ "accept" \in MayFail
  /\ pc' = "undefined"
  /\ UNCHANGED <<req, rc_ex, result, fields, reqCache, heap, storeCache,
                 teardown, events, history>>

(* set_param and set_url: a parameter may be missing or too long.           *)
Params ==
  /\ pc = "params"
  /\ \/ pc' = "before_endpoint" /\ UNCHANGED <<rc_ex, result, served>>
     \/ "param" \in MayFail /\ Refuse(0)
  /\ UNCHANGED <<req, fields, reqCache, heap, storeCache, teardown, events,
                 owner, hooked>>

(* FRA_REQ_BEFORE_ENDPOINT hooks.                                           *)
BeforeEndpoint ==
  /\ pc = "before_endpoint" /\ EndpointUsable(req)
  /\ \/ pc' = "route" /\ UNCHANGED <<rc_ex, result, served>>
     \/ \E rc \in HookErrors : HookFails("REQ_BEFORE_ENDPOINT", rc) /\ Refuse(rc)
  /\ UNCHANGED <<req, fields, reqCache, heap, storeCache, teardown, events,
                 owner, hooked>>

(* fra_p_url_to_endpoint: an endpoint some url was added for, or none.      *)
Route ==
  /\ pc = "route"
  /\ \/ /\ \E e \in Ends : endpoint' = [endpoint EXCEPT ![req] = e]
        /\ pc' = "store_set" /\ UNCHANGED <<rc_ex, result, served>>
     \/ Refuse(0) /\ UNCHANGED endpoint
  /\ UNCHANGED <<req, endpoint_store, fcgx_defined, reqCache, heap, storeCache,
                 teardown, events, owner, hooked>>

(* fra_p_end_store_set with a cached store.                                 *)
FaultySetCachedStore ==
  LET e == endpoint[req] IN
  /\ pc = "store_set" /\ e \in ends /\ store_empty[e] \in stores
  /\ endpoint_store' = [endpoint_store EXCEPT ![req] = store_empty[e]]
  /\ store_empty_count' = [store_empty_count EXCEPT ![e] = @ - 1]
  /\ pc' = "req_new"
  /\ UNCHANGED <<req, rc_ex, result, endpoint, fcgx_defined, reqCache, heap,
                 store_empty, store_all_count, store_next, teardown, events, history>>
SetCachedStore ==
  LET e == endpoint[req]
      s == store_empty[e]
  IN
  /\ pc = "store_set" /\ e \in ends /\ s \in stores
  /\ endpoint_store' = [endpoint_store EXCEPT ![req] = s]
  /\ store_empty' = [store_empty EXCEPT ![e] = store_next[s]]
  /\ store_empty_count' = [store_empty_count EXCEPT ![e] = @ - 1]
  /\ pc' = "req_new"
  /\ UNCHANGED <<req, rc_ex, result, endpoint, fcgx_defined, reqCache, heap,
                 store_all_count, store_next, teardown, events, history>>

(* fra_p_end_store_set with no cached store: malloc.                        *)
MallocStore ==
  LET e == endpoint[req] IN
  /\ pc = "store_set" /\ e \in ends /\ NoCachedStore(e)
  /\ \E s \in StoreIds \ stores :
       /\ stores' = stores \cup {s}
       /\ store_next' = [store_next EXCEPT ![s] = NULL]
       /\ endpoint_store' = [endpoint_store EXCEPT ![req] = s]
       /\ owner' = [owner EXCEPT ![s] = e]
       /\ hooked' = [hooked EXCEPT ![s] = {}]
  /\ pc' = "store_created"
  /\ UNCHANGED <<req, rc_ex, result, endpoint, fcgx_defined, reqCache, reqs,
                 store_empty, store_empty_count, store_all_count, teardown,
                 events, served>>

(* malloc returns NULL; req->endpoint_store keeps the value it had.         *)
MallocStoreFails ==
  /\ pc = "store_set" /\ endpoint[req] \in ends /\ NoCachedStore(endpoint[req])
  /\ "malloc_store" \in MayFail /\ Refuse(0)
  /\ UNCHANGED <<req, fields, reqCache, heap, storeCache, teardown, events,
                 owner, hooked>>

(* FRA_END_STORE_CREATED hooks on the new store.                            *)
StoreCreated ==
  /\ pc = "store_created" /\ EndpointUsable(req)
  /\ Completed(endpoint_store[req], "END_STORE_CREATED")
  /\ store_all_count' = [store_all_count EXCEPT ![endpoint[req]] = @ + 1]
  /\ pc' = "req_new"
  /\ UNCHANGED <<req, rc_ex, result, fields, reqCache, heap, store_empty,
                 store_empty_count, store_next, teardown, events, owner, served>>

(* A FRA_END_STORE_CREATED hook fails: cur_cleanup frees the store, but     *)
(* req->endpoint_store still points to it.                                  *)
StoreCreatedFails ==
  /\ pc = "store_created" /\ EndpointUsable(req)
  /\ \E rc \in HookErrors : HookFails("END_STORE_CREATED", rc) /\ Refuse(rc)
  /\ stores' = stores \ {endpoint_store[req]}
  /\ UNCHANGED <<req, fields, reqCache, reqs, storeCache, teardown, events,
                 owner, hooked>>

(* FRA_REQ_NEW hooks.                                                       *)
ReqNew ==
  /\ pc = "req_new" /\ EndpointUsable(req)
  /\ \/ pc' = "callback" /\ UNCHANGED <<rc_ex, result, served>>
     \/ \E rc \in HookErrors : HookFails("REQ_NEW", rc) /\ Refuse(rc)
  /\ UNCHANGED <<req, fields, reqCache, heap, storeCache, teardown, events,
                 owner, hooked>>

(* The endpoint's callback, its return value ignored, then FCGX_Finish_r.   *)
Callback ==
  /\ pc = "callback"
  /\ answered' = answered + 1 /\ UNCHANGED <<accepted, cause>>
  /\ pc' = "give_back"
  /\ UNCHANGED <<req, rc_ex, result, fields, reqCache, heap, storeCache,
                 teardown, events, owner, hooked>>

-----------------------------------------------------------------------------
(* req_maybe_free: the store first, then the request object                 *)

(* Where the handler goes once req_maybe_free returned: on a clean path it  *)
(* returns 0; otherwise final_cleanup calls exit_request unless rc_ex is 0. *)
AfterGiveBack(res) == IF res = -1 /\ rc_ex THEN "exit" ELSE "idle"

NoStoreToGiveBack ==
  /\ pc = "give_back" /\ endpoint[req] = NULL
  /\ pc' = "give_back_req"
  /\ UNCHANGED <<req, rc_ex, result, fields, reqCache, heap, storeCache,
                 teardown, events, history>>

CacheStore ==
  LET e == endpoint[req]
      s == endpoint_store[req]
  IN
  /\ pc = "give_back" /\ e \in ends /\ s \in stores
  /\ ~TooManyInUse(store_all_count[e], store_empty_count[e])
  /\ store_next' = [store_next EXCEPT ![s] = store_empty[e]]
  /\ store_empty' = [store_empty EXCEPT ![e] = s]
  /\ store_empty_count' = [store_empty_count EXCEPT ![e] = @ + 1]
  /\ pc' = "give_back_req"
  /\ UNCHANGED <<req, rc_ex, result, fields, reqCache, heap, store_all_count,
                 teardown, events, history>>

(* FRA_END_STORE_FREE hooks, then free.                                     *)
FaultyFreeStoreListed ==
  LET e == endpoint[req]
      s == endpoint_store[req]
  IN
  /\ pc = "give_back" /\ e \in ends /\ s \in stores
  /\ TooManyInUse(store_all_count[e], store_empty_count[e])
  /\ Completed(s, "END_STORE_FREE")
  /\ stores' = stores \ {s}
  /\ store_all_count' = [store_all_count EXCEPT ![e] = @ - 1]
  /\ store_empty' = [store_empty EXCEPT ![e] = s]
  /\ pc' = "give_back_req"
  /\ UNCHANGED <<req, rc_ex, result, fields, reqCache, reqs, store_empty_count,
                 store_next, teardown, events, owner, served>>
FreeStore ==
  LET e == endpoint[req]
      s == endpoint_store[req]
  IN
  /\ pc = "give_back" /\ e \in ends /\ s \in stores
  /\ TooManyInUse(store_all_count[e], store_empty_count[e])
  /\ Completed(s, "END_STORE_FREE")
  /\ stores' = stores \ {s}
  /\ store_all_count' = [store_all_count EXCEPT ![e] = @ - 1]
  /\ pc' = "give_back_req"
  /\ UNCHANGED <<req, rc_ex, result, fields, reqCache, reqs, store_empty,
                 store_empty_count, store_next, teardown, events, owner, served>>

(* A FRA_END_STORE_FREE hook fails: -1, neither object cached nor freed.    *)
FaultyFreeStoreFails ==
  LET e == endpoint[req] IN
  /\ pc = "give_back" /\ e \in ends /\ endpoint_store[req] \in stores
  /\ TooManyInUse(store_all_count[e], store_empty_count[e])
  /\ \E rc \in HookErrors : HookFails("END_STORE_FREE", rc) /\ Caused(rc)
  /\ store_all_count' = [store_all_count EXCEPT ![e] = @ - 1]
  /\ result' = -1 /\ pc' = AfterGiveBack(-1)
  /\ UNCHANGED <<req, rc_ex, fields, reqCache, heap, store_empty,
                 store_empty_count, store_next, teardown, events, owner, hooked>>
FreeStoreFails ==
  LET e == endpoint[req] IN
  /\ pc = "give_back" /\ e \in ends /\ endpoint_store[req] \in stores
  /\ TooManyInUse(store_all_count[e], store_empty_count[e])
  /\ \E rc \in HookErrors : HookFails("END_STORE_FREE", rc) /\ Caused(rc)
  /\ result' = -1 /\ pc' = AfterGiveBack(-1)
  /\ UNCHANGED <<req, rc_ex, fields, reqCache, heap, storeCache, teardown,
                 events, owner, hooked>>

CacheReq ==
  /\ pc = "give_back_req" /\ ~TooManyInUse(all_count, empty_count)
  /\ req_next' = [req_next EXCEPT ![req] = empty_req]
  /\ empty_req' = req
  /\ empty_count' = empty_count + 1
  /\ pc' = AfterGiveBack(result)
  /\ UNCHANGED <<req, rc_ex, result, fields, all_count, heap, storeCache,
                 teardown, events, history>>

(* FRA_REQ_FREE hooks, then free.                                           *)
FreeReq ==
  /\ pc = "give_back_req" /\ TooManyInUse(all_count, empty_count)
  /\ EndpointUsable(req)
  /\ Completed(req, "REQ_FREE")
  /\ reqs' = reqs \ {req}
  /\ all_count' = all_count - 1
  /\ pc' = AfterGiveBack(result)
  /\ UNCHANGED <<req, rc_ex, result, fields, empty_req, empty_count, req_next,
                 stores, storeCache, teardown, events, owner, served>>

FreeReqFails ==
  /\ pc = "give_back_req" /\ TooManyInUse(all_count, empty_count)
  /\ EndpointUsable(req)
  /\ \E rc \in HookErrors : HookFails("REQ_FREE", rc) /\ Caused(rc)
  /\ result' = -1 /\ pc' = AfterGiveBack(-1)
  /\ UNCHANGED <<req, rc_ex, fields, reqCache, heap, storeCache, teardown,
                 events, owner, hooked>>

(* exit_request: accept a connection of its own and refuse on it.           *)
ExitRequest ==
  /\ pc = "exit"
  /\ accepted' = accepted + 1 /\ answered' = answered + 1 /\ UNCHANGED cause
  /\ pc' = "idle"
  /\ UNCHANGED <<req, rc_ex, result, fields, reqCache, heap, storeCache,
                 teardown, events, owner, hooked>>

(* Its FCGX_Accept_r fails, unchecked: it prints to a NULL fcgx.out.        *)
ExitRequestFails ==
  /\ pc = "exit" /\ "accept" \in MayFail
  /\ pc' = "undefined"
  /\ UNCHANGED <<req, rc_ex, result, fields, reqCache, heap, storeCache,
                 teardown, events, history>>

(* A step that follows a pointer to no live object.                         *)
HookPcs == {"req_created", "before_fcgx", "before_endpoint", "store_created", "req_new"}
Dangling ==
  /\ \/ pc \in HookPcs /\ ~EndpointUsable(req)
     \/ pc \in {"store_set", "give_back"} /\ ~EndpointUsable(req)
     \/ pc = "store_set" /\ endpoint[req] \in ends
        /\ store_empty[endpoint[req]] \notin stores \cup {NULL}
     \/ pc = "give_back" /\ endpoint[req] \in ends
        /\ endpoint_store[req] \notin stores
     \/ pc = "end_free" /\ store_empty[freeing] \notin stores \cup {NULL}
  /\ pc' = "undefined"
  /\ UNCHANGED <<req, rc_ex, result, fields, reqCache, heap, storeCache,
                 teardown, events, history>>

-----------------------------------------------------------------------------
(* After the poll loop: fra_end_free for each endpoint, fra_p_req_deinit    *)

Stop ==
  /\ pc = "idle" /\ phase = "serving"
  /\ phase' = "stopped" /\ req' = NULL
  /\ UNCHANGED <<pc, rc_ex, result, fields, reqCache, heap, storeCache, ends,
                 freeing, events, history>>

EndFree ==
  /\ pc = "idle" /\ phase = "stopped"
  /\ \E e \in ends : freeing' = e
  /\ pc' = "end_free"
  /\ UNCHANGED <<req, rc_ex, result, fields, reqCache, heap, storeCache, ends,
                 phase, events, history>>

(* One turn of the loop of fra_end_free: take a store off, run the hooks,   *)
(* free it.  When a hook fails the endpoint is freed at once and returned.  *)
EndFreeStore ==
  LET s == store_empty[freeing] IN
  /\ pc = "end_free" /\ s \in stores
  /\ store_empty' = [store_empty EXCEPT ![freeing] = store_next[s]]
  /\ \/ /\ Completed(s, "END_STORE_FREE")
        /\ stores' = stores \ {s}
        /\ UNCHANGED <<pc, result, ends, freeing>>
     \/ /\ \E rc \in HookErrors : HookFails("END_STORE_FREE", rc)
        /\ ends' = ends \ {freeing} /\ freeing' = NULL
        /\ result' = -1 /\ pc' = "idle"
        /\ UNCHANGED <<stores, hooked>>
  /\ UNCHANGED <<req, rc_ex, fields, reqCache, reqs, store_empty_count,
                 store_all_count, store_next, phase, events, owner, served>>

EndFreeDone ==
  /\ pc = "end_free" /\ store_empty[freeing] = NULL
  /\ ends' = ends \ {freeing} /\ freeing' = NULL /\ pc' = "idle"
  /\ UNCHANGED <<req, rc_ex, result, fields, reqCache, heap, storeCache, phase,
                 events, history>>

ReqDeinit ==
  /\ pc = "idle" /\ phase = "stopped"
  /\ pc' = "deinit"
  /\ UNCHANGED <<req, rc_ex, result, fields, reqCache, heap, storeCache,
                 teardown, events, history>>

(* One turn of the loop of fra_p_req_deinit; the hooks' result is ignored.  *)
ReqDeinitOne ==
  LET r == empty_req IN
  /\ pc = "deinit" /\ r \in reqs
  /\ empty_req' = req_next[r]
  /\ endpoint' = [endpoint EXCEPT ![r] = NULL]
  /\ \/ Completed(r, "REQ_FREE")
     \/ (\E rc \in HookErrors : HookFails("REQ_FREE", rc)) /\ UNCHANGED hooked
  /\ reqs' = reqs \ {r}
  /\ UNCHANGED <<control, endpoint_store, fcgx_defined, empty_count, all_count,
                 req_next, stores, storeCache, teardown, events, owner, served>>

ReqDeinitDone ==
  /\ pc = "deinit" /\ empty_req = NULL
  /\ phase' = "down" /\ pc' = "idle"
  /\ UNCHANGED <<req, rc_ex, result, fields, reqCache, heap, storeCache, ends,
                 freeing, events, history>>

(* Nothing more happens after fra_glob_deinit, or once the behaviour of the *)
(* program is undefined.                                                    *)
Ended == (phase = "down" \/ pc = "undefined") /\ UNCHANGED vars

-----------------------------------------------------------------------------
Acquire  == GetCachedReq \/ MallocReq \/ MallocReqFails \/ ReqCreated \/ ReqCreatedFails
SetStore == SetCachedStore \/ MallocStore \/ MallocStoreFails \/ StoreCreated
              \/ StoreCreatedFails
Serve    == BeforeFcgx \/ Accept \/ AcceptFails \/ Params \/ BeforeEndpoint \/ Route
              \/ ReqNew \/ Callback
GiveBack == NoStoreToGiveBack \/ CacheStore \/ FreeStore \/ FreeStoreFails
              \/ CacheReq \/ FreeReq \/ FreeReqFails
Handler  == Incoming \/ Acquire \/ Serve \/ SetStore \/ GiveBack
              \/ ExitRequest \/ ExitRequestFails \/ Dangling
Teardown == EndFreeStore \/ EndFreeDone \/ ReqDeinitOne \/ ReqDeinitDone

Next == HandleNew \/ Handler \/ Stop \/ EndFree \/ ReqDeinit \/ Teardown \/ Ended

Spec == Init /\ [][Next]_vars

-----------------------------------------------------------------------------
(* What the lists hold                                                      *)

(* The objects of a list: those that every set with the head and, of each of*)
(* its elements, the next one, has to contain.                              *)
Closed(S, next, head, ids) ==
  /\ head \in ids => head \in S
  /\ \A x \in S : next[x] \in ids => next[x] \in S
Chain(next, head, ids) == {x \in ids : \A S \in SUBSET ids : Closed(S, next, head, ids) => x \in S}

CachedReqs      == Chain(req_next, empty_req, ReqIds)
CachedStores(e) == Chain(store_next, store_empty[e], StoreIds)
StoresOf(e)     == {s \in stores : owner[s] = e}

(* The handler holds a request; it holds a store of that request's endpoint.*)
HoldsReq == pc \in {"req_created", "before_fcgx", "accept", "params",
                    "before_endpoint", "route", "store_set", "store_created",
                    "req_new", "callback", "give_back", "give_back_req"}
HoldsStore ==
  \/ pc \in {"store_created", "req_new", "callback"}
  \/ pc = "give_back" /\ endpoint[req] # NULL

-----------------------------------------------------------------------------
(* Properties                                                               *)

(* The type of every variable.                                              *)
Pcs == {"idle", "incoming", "get_req", "exit", "end_free", "deinit", "undefined",
        "req_created", "before_fcgx", "accept", "params", "before_endpoint",
        "route", "store_set", "store_created", "req_new", "callback",
        "give_back", "give_back_req"}
TypeOK ==
  /\ pc \in Pcs /\ req \in ReqIds \cup {NULL}
  /\ rc_ex \in BOOLEAN /\ result \in {0, -1}
  /\ reqs \subseteq ReqIds /\ stores \subseteq StoreIds /\ ends \subseteq Ends
  /\ req_next \in [ReqIds -> ReqIds \cup {NULL}]
  /\ endpoint \in [ReqIds -> Ends \cup {NULL, Wild}]
  /\ endpoint_store \in [ReqIds -> StoreIds \cup {NULL, Wild}]
  /\ fcgx_defined \in [ReqIds -> BOOLEAN]
  /\ empty_req \in ReqIds \cup {NULL}
  /\ empty_count \in Int /\ all_count \in Int
  /\ store_next \in [StoreIds -> StoreIds \cup {NULL}]
  /\ store_empty \in [Ends -> StoreIds \cup {NULL}]
  /\ store_empty_count \in [Ends -> Int] /\ store_all_count \in [Ends -> Int]
  /\ phase \in {"serving", "stopped", "down"}
  /\ freeing \in Ends \cup {NULL} /\ events \in 0 .. MaxEvents
  /\ owner \in [StoreIds -> Ends \cup {NULL}]
  /\ hooked \in [ReqIds \cup StoreIds -> SUBSET HookTypes]
  /\ accepted \in Nat /\ answered \in Nat /\ cause \in Int

(* No step of the handler or of a teardown call follows a pointer to an     *)
(* object that is not live (req.c, end.c: no use after free, no double      *)
(* free, no use of an uninitialised pointer).                               *)
NoUndefined == pc # "undefined"

(* The handler accepts exactly one connection per event of the listening    *)
(* descriptor and gives it exactly one answer, the callback's or the error  *)
(* of fcgx_cleanup or exit_request, on every path through the cleanups of   *)
(* fra_p_req_handle_new.                                                    *)
OneAnswer ==
  /\ accepted <= 1 /\ answered <= 1
  /\ pc = "idle" /\ events > 0 => accepted = 1 /\ answered = 1

(* Between two events the statics of req.c and the counters of an endpoint  *)
(* count the live objects and those on the list: the growth rule of         *)
(* req_maybe_free and fra_p_end_store_maybe_free reads them.                *)
CountsMatchHeap ==
  pc = "idle" /\ phase = "serving" =>
    /\ all_count = Cardinality(reqs)
    /\ empty_count = Cardinality(CachedReqs)
    /\ \A e \in Ends :
         /\ store_all_count[e] = Cardinality(StoresOf(e))
         /\ store_empty_count[e] = Cardinality(CachedStores(e))

(* Memory is bounded: handlers are serialised by main_poll_lock, so however *)
(* many connections arrive there is never a second request object, nor a    *)
(* second store of one endpoint (get_req, fra_p_end_store_set malloc only   *)
(* when the list is empty).                                                 *)
OneObject ==
  /\ \A r1, r2 \in reqs : r1 = r2
  /\ \A e \in ends : \A s1, s2 \in StoresOf(e) : s1 = s2

(* A store on an endpoint's list is live and was made for that endpoint, and*)
(* the store the handler holds is live, of the request's endpoint, and on no*)
(* list: two requests never write one store (fra_p_end_store_set,           *)
(* fra_p_end_store_maybe_free).                                             *)
StoresOwned ==
  /\ \A e \in ends : CachedStores(e) \subseteq StoresOf(e)
  /\ HoldsStore =>
       endpoint_store[req] \in StoresOf(endpoint[req]) \ CachedStores(endpoint[req])

(* With the growth factors of config.h no object whose creation hooks ran is*)
(* given up while the server runs: the free branches of req_maybe_free and  *)
(* fra_p_end_store_maybe_free are never taken.                              *)
Made == {o \in reqs \cup stores :
           hooked[o] \cap {"REQ_CREATED", "END_STORE_CREATED"} # {}}
Kept == [][phase' = "serving" => Made \subseteq (reqs \cup stores)']_vars

(* Every object is back on its list between two events, on every error path *)
(* too; and once every endpoint was freed and fra_glob_deinit returned, no  *)
(* request object or store is left (the valgrind check of                   *)
(* tests/run_server.sh).                                                    *)
NoLeak ==
  /\ pc = "idle" /\ phase = "serving" =>
       /\ reqs \subseteq CachedReqs
       /\ \A e \in Ends : StoresOf(e) \subseteq CachedStores(e)
  /\ phase = "down" /\ ends = {} => reqs = {} /\ stores = {}

(* The caches implement the pool of README.md:16: an object is made only    *)
(* when no left over of a previous request waits, for requests and for each *)
(* endpoint's stores.                                                       *)
ReqPool == INSTANCE Pool WITH
  Keys <- {"request"}, Ids <- ReqIds,
  waiting <- [k \in {"request"} |-> CachedReqs],
  used <- [k \in {"request"} |-> reqs \ CachedReqs]
StorePool == INSTANCE Pool WITH
  Keys <- Ends, Ids <- StoreIds,
  waiting <- [e \in Ends |-> IF e \in ends THEN CachedStores(e) ELSE {}],
  used <- [e \in Ends |-> StoresOf(e) \ (IF e \in ends THEN CachedStores(e) ELSE {})]
PoolSpec == ReqPool!Spec /\ StorePool!Spec

-----------------------------------------------------------------------------
(* What the documents say, and the code does not do: each of these is       *)
(* violated (see README.md)                                                 *)

(* core.h:128: a hook that fails stops the request and an error handler is  *)
(* called; nothing worse happens (the request, and the server, go on).      *)
FailedHookIsHandled == cause # 0 => pc # "undefined"

=============================================================================
