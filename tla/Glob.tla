-------------------------------- MODULE Glob --------------------------------
(***************************************************************************)
(* A program and the library, from fra_glob_init to fra_glob_deinit        *)
(* (src/glob.c): what each component allocates for itself, the endpoints   *)
(* the program makes (src/end.c) and gives urls (Url.tla), and requests    *)
(* that go to them.  An initialisation is one step per component, as any   *)
(* of them may fail half way; so is a deinitialisation, as the hooks that  *)
(* free a request run in the middle of it.                                 *)
(*                                                                         *)
(* What a request goes through is in Request.tla; here it is one step that *)
(* needs the memory of every component, and that leaves the request and    *)
(* the endpoint's store in their caches.  Hooks succeed.                   *)
(*                                                                         *)
(* How a program uses the library is how the tests do: calls other than    *)
(* fra_glob_init come between it and fra_glob_deinit; an endpoint that has *)
(* a url is not freed while requests are served, nor is one that served    *)
(* freed after fra_glob_deinit.  A step that uses memory that is not there *)
(* goes to pc = "undefined" and stays.                                     *)
(***************************************************************************)
EXTENDS Url, Integers, FiniteSets

CONSTANTS
  MayFail,   \* can an allocation, or FCGX_Init, fail?
  MaxUrls    \* bound: strings in the table of urls

ASSUME GlobConstants == MayFail \in BOOLEAN /\ MaxUrls \in Nat

Lists   == {"glob_hooks", "req_hooks"}
Statics == Lists \cup {"main_poll", "callbacks", "glob_store_map"}
Parts   == {"e", "store_map", "hooks"}   \* fra_end_t, its map, its lists with their hooks

VARIABLES
  pc,           \* "idle", or the next component to (de)initialise
  glob,         \* "new", then "up" and "down"
  result,       \* what fra_glob_init returned, 0 before and after "up"
  initialized,  \* static of poll.c
  poll,         \* fra_glob_poll is not called yet, "running", or has returned
  mem,          \* per static pointer, "null", "live" or "freed"
  hooked,       \* the hook lists that are not empty
  empty_req,    \* is a request in the cache of req.c?
  parts,        \* of an endpoint, what is allocated
  callback,     \* has it a callback? A request is served with or without one
  store_empty,  \* is a store in its cache?
  lost          \* history: statics overwritten while they held live memory

ends == <<parts, callback, store_empty>>
called == <<glob, result>>
vars == <<pc, called, initialized, poll, mem, hooked, empty_req, ends, lost, urlVars>>

Init ==
  /\ pc = "idle" /\ glob = "new" /\ result = 0
  /\ initialized = FALSE /\ poll = "not yet"
  /\ mem = [p \in Statics |-> "null"] /\ hooked = {} /\ empty_req = FALSE
  /\ parts = [e \in Ends |-> {}] /\ callback = [e \in Ends |-> FALSE]
  /\ store_empty = [e \in Ends |-> FALSE]
  /\ lost = {} /\ urls = NULL /\ strings = {} /\ given = Nowhere

Live(S) == \A p \in S : mem[p] = "live"

(* Static pointers are given memory, or NULL when there is none.            *)
Assign(got, null) ==
  /\ mem' = [p \in Statics |-> IF p \in got THEN "live" ELSE IF p \in null THEN "null" ELSE mem[p]]
  /\ lost' = lost \cup {p \in got \cup null : mem[p] = "live"}
(* free( p ), which leaves the pointer as it is.                            *)
Free(S) == mem' = [p \in Statics |-> IF p \in S /\ mem[p] # "null" THEN "freed" ELSE mem[p]]

Undefined ==
  /\ pc' = "undefined"
  /\ UNCHANGED <<called, initialized, poll, mem, hooked, empty_req, ends, lost, urlVars>>

-----------------------------------------------------------------------------
(* fra_glob_init                                                            *)

Return(rc) ==
  /\ pc' = "idle" /\ result' = rc
  /\ glob' = IF rc = 0 THEN "up" ELSE glob
Continue(next) == pc' = next /\ UNCHANGED called

GlobInit ==
  /\ pc = "idle" /\ Continue("poll_init")
  /\ UNCHANGED <<initialized, poll, mem, hooked, empty_req, ends, lost, urlVars>>

(* fra_p_poll_init waits for ever once fra_glob_poll, which does not give   *)
(* main_poll_lock back when it returns (poll.c:251), has been called.       *)
PollInit ==
  /\ pc = "poll_init" /\ poll = "not yet"
  /\ \/ /\ ~initialized /\ initialized' = TRUE
        /\ Assign({"main_poll", "callbacks"}, {})
        /\ Continue("hook_init")
     \/ /\ ~initialized /\ UNCHANGED initialized
        /\ MayFail /\ Return(-1)
        /\ \/ Assign({}, {"main_poll"})
           \/ /\ mem' = [mem EXCEPT !["main_poll"] = "freed", !["callbacks"] = "null"]
              /\ UNCHANGED lost
     \/ /\ initialized /\ UNCHANGED <<initialized, mem, lost>>
        /\ Return(-1)
  /\ UNCHANGED <<poll, hooked, empty_req, ends, urlVars>>

(* fra_p_hook_init: calloc makes lists empty.                               *)
HookInit ==
  /\ pc = "hook_init"
  /\ \/ Assign(Lists, {}) /\ hooked' = {} /\ Continue("var_init")
     \/ /\ MayFail /\ Return(-1) /\ UNCHANGED hooked
        /\ \/ Assign({}, {"glob_hooks"})
           \/ Assign({"glob_hooks"}, {"req_hooks"})
  /\ UNCHANGED <<initialized, poll, empty_req, ends, urlVars>>

VarInit ==
  /\ pc = "var_init"
  /\ \/ Assign({"glob_store_map"}, {}) /\ Continue("req_init")
     \/ /\ MayFail /\ Return(-1)
        /\ Assign({}, {"glob_store_map"})
  /\ UNCHANGED <<initialized, poll, hooked, empty_req, ends, urlVars>>

ReqInit ==
  /\ pc = "req_init"
  /\ \/ empty_req' = FALSE /\ Continue("url_init")
     \/ MayFail /\ Return(-1) /\ UNCHANGED empty_req
  /\ UNCHANGED <<initialized, poll, mem, hooked, ends, lost, urlVars>>

(* fra_p_url_init, and fra_glob_init returns.                               *)
UrlInitStep ==
  /\ pc = "url_init"
  /\ \/ UrlInit /\ Return(0)
     \/ MayFail /\ UrlInitFails /\ Return(-1)
  /\ UNCHANGED <<initialized, poll, mem, hooked, empty_req, ends, lost, given>>

-----------------------------------------------------------------------------
(* What the program does with the library up                                *)

Running == pc = "idle" /\ glob = "up"
Named(e) == \E v \in Verbs, u \in Urls : ToEndpoint(v, u) = e

(* fra_req_hook_reg, fra_glob_hook_reg                                      *)
HookReg(l) ==
  /\ Running
  /\ hooked' = hooked \cup {l}
  /\ UNCHANGED <<pc, called, initialized, poll, mem, empty_req, ends, lost, urlVars>>

(* fra_end_new: malloc, fra_p_var_ht_get and calloc in this order; what was *)
(* allocated before one that fails is freed.                                *)
EndNew(e) ==
  /\ Running /\ parts[e] = {}
  /\ \/ parts' = [parts EXCEPT ![e] = Parts] /\ callback' = [callback EXCEPT ![e] = FALSE]
     \/ MayFail /\ UNCHANGED <<parts, callback>>
  /\ UNCHANGED <<pc, called, initialized, poll, mem, hooked, empty_req, store_empty, lost, urlVars>>

EndCallbackSet(e) ==
  /\ Running /\ parts[e] # {}
  /\ callback' = [callback EXCEPT ![e] = TRUE]
  /\ UNCHANGED <<pc, called, initialized, poll, mem, hooked, empty_req, parts, store_empty, lost, urlVars>>

EndUrlAdd(e, v, u) ==
  /\ Running /\ parts[e] # {} /\ Cardinality(strings) < MaxUrls
  /\ \/ UrlAdd(e, v, u) /\ Given(e, v, u)
     \/ (MayFail \/ u \in TooLong) /\ UrlAddFails(u)
  /\ UNCHANGED <<pc, called, initialized, poll, mem, hooked, empty_req, ends, lost>>

(* fra_glob_poll, until a callback calls fra_glob_poll_stop.                *)
Poll ==
  /\ Running /\ poll = "not yet" /\ poll' = "running"
  /\ \A e \in Ends : Named(e) => parts[e] # {}
  /\ UNCHANGED <<pc, called, initialized, mem, hooked, empty_req, ends, lost, urlVars>>

PollStop ==
  /\ Running /\ poll = "running" /\ poll' = "over"
  /\ UNCHANGED <<pc, called, initialized, mem, hooked, empty_req, ends, lost, urlVars>>

(* A request: without an endpoint it only returns to its cache.             *)
Serve(v, u) ==
  LET e == ToEndpoint(v, u) IN
  /\ Running /\ poll = "running"
  /\ \/ /\ Live(Statics) /\ e = NULL
        /\ empty_req' = TRUE /\ UNCHANGED <<pc, store_empty>>
     \/ /\ Live(Statics) /\ e # NULL /\ parts[e] = Parts
        /\ empty_req' = TRUE /\ store_empty' = [store_empty EXCEPT ![e] = TRUE]
        /\ UNCHANGED pc
     \/ /\ ~Live(Statics) \/ (e # NULL /\ parts[e] # Parts)
        /\ pc' = "undefined" /\ UNCHANGED <<empty_req, store_empty>>
  /\ UNCHANGED <<called, initialized, poll, mem, hooked, parts, callback, lost, urlVars>>

(* fra_end_free, whose FRA_END_STORE_FREE hooks are in req_hooks, too.      *)
EndFree(e) ==
  /\ pc = "idle" /\ parts[e] # {}
  /\ store_empty[e] => glob = "up"
  /\ poll = "running" => ~Named(e)
  /\ IF store_empty[e] /\ ~Live({"req_hooks"}) THEN Undefined
     ELSE /\ parts' = [parts EXCEPT ![e] = {}]
          /\ callback' = [callback EXCEPT ![e] = FALSE]
          /\ store_empty' = [store_empty EXCEPT ![e] = FALSE]
          /\ UNCHANGED <<pc, called, initialized, poll, mem, hooked, empty_req, lost, urlVars>>

-----------------------------------------------------------------------------
(* fra_glob_deinit                                                          *)

(* What follows a component.                                                *)
FaultyAfter(step) ==
  CASE step = "url_deinit"  -> "var_deinit"
    [] step = "var_deinit"  -> "req_deinit"
    [] step = "req_deinit"  -> "hook_deinit"
    [] step = "hook_deinit" -> "poll_deinit"
After(step) ==
  CASE step = "url_deinit"  -> "req_deinit"
    [] step = "req_deinit"  -> "var_deinit"
    [] step = "var_deinit"  -> "hook_deinit"
    [] step = "hook_deinit" -> "poll_deinit"

(* fra_p_url_deinit                                                         *)
GlobDeinit ==
  /\ Running /\ poll # "running" /\ \A e \in Ends : ~store_empty[e]
  /\ UrlDeinit /\ given' = Nowhere /\ Continue(After("url_deinit"))
  /\ UNCHANGED <<initialized, poll, mem, hooked, empty_req, ends, lost>>

(* fra_p_req_deinit: FRA_REQ_FREE hooks may use the variables of a request. *)
ReqDeinit ==
  /\ pc = "req_deinit"
  /\ IF empty_req /\ ~Live({"req_hooks", "glob_store_map"}) THEN Undefined
     ELSE /\ empty_req' = FALSE /\ Continue(After("req_deinit"))
          /\ UNCHANGED <<initialized, poll, mem, hooked, ends, lost, urlVars>>

(* fra_p_var_deinit                                                         *)
VarDeinit ==
  /\ pc = "var_deinit"
  /\ IF mem["glob_store_map"] = "freed" THEN Undefined
     ELSE /\ Free({"glob_store_map"}) /\ Continue(After("var_deinit"))
          /\ UNCHANGED <<initialized, poll, hooked, empty_req, ends, lost, urlVars>>

(* fra_p_hook_deinit: fra_p_hook_free empties the lists, then their arrays  *)
(* are freed.                                                               *)
HookDeinit ==
  /\ pc = "hook_deinit"
  /\ IF ~Live(Lists) THEN Undefined
     ELSE /\ hooked' = {} /\ Free(Lists) /\ Continue(After("hook_deinit"))
          /\ UNCHANGED <<initialized, poll, empty_req, ends, lost, urlVars>>

(* fra_p_poll_deinit                                                        *)
PollDeinit ==
  /\ pc = "poll_deinit"
  /\ IF mem["main_poll"] = "freed" \/ mem["callbacks"] = "freed" THEN Undefined
     ELSE /\ Free({"main_poll", "callbacks"})
          /\ pc' = "idle" /\ glob' = "down" /\ result' = 0
          /\ UNCHANGED <<initialized, poll, hooked, empty_req, ends, lost, urlVars>>

Next ==
  \/ GlobInit \/ PollInit \/ HookInit \/ VarInit \/ ReqInit \/ UrlInitStep
  \/ \E l \in Lists : HookReg(l)
  \/ \E e \in Ends : EndNew(e) \/ EndCallbackSet(e) \/ EndFree(e)
  \/ \E e \in Ends, v \in Verbs, u \in Urls : EndUrlAdd(e, v, u)
  \/ Poll \/ PollStop
  \/ \E v \in Verbs, u \in Urls : Serve(v, u)
  \/ GlobDeinit \/ ReqDeinit \/ VarDeinit \/ HookDeinit \/ PollDeinit

Spec == Init /\ [][Next]_vars

-----------------------------------------------------------------------------
(* Properties                                                               *)

TypeOK ==
  /\ pc \in {"idle", "poll_init", "hook_init", "var_init", "req_init", "url_init",
             "req_deinit", "var_deinit", "hook_deinit", "poll_deinit", "undefined"}
  /\ glob \in {"new", "up", "down"} /\ result \in {0, -1}
  /\ initialized \in BOOLEAN /\ poll \in {"not yet", "running", "over"}
  /\ mem \in [Statics -> {"null", "live", "freed"}] /\ lost \subseteq Statics
  /\ hooked \subseteq Lists /\ empty_req \in BOOLEAN
  /\ parts \in [Ends -> SUBSET Parts] /\ callback \in [Ends -> BOOLEAN]
  /\ store_empty \in [Ends -> BOOLEAN]
  /\ urls \in Tables \cup {NULL} /\ strings \subseteq Urls \X Nat
  /\ given \in [Verbs -> [Urls -> Ends \cup {NULL}]]

(* Whatever fails while the library is initialised, and however often it is *)
(* tried again, no request, hook or teardown uses memory that is not there: *)
(* the components are torn down in an order in which the FREE hooks find    *)
(* what they use (glob.c:42-50).                                            *)
NoUndefined == pc # "undefined"

(* Nothing leaks: statics never lose memory they hold, the copies of url.c  *)
(* are those the table leads to, an endpoint is whole or not there, and     *)
(* when fra_glob_deinit returns nothing but endpoints remains.              *)
NoLeak ==
  /\ lost = {} /\ strings = Reachable
  /\ \A e \in Ends : parts[e] \in {{}, Parts} /\ (parts[e] = {} => ~store_empty[e])
  /\ glob = "down" /\ pc = "idle" =>
       /\ ~empty_req /\ strings = {} /\ hooked = {}
       /\ \A p \in Statics : mem[p] # "live"

(* The table of urls, with its collisions, second registrations and failed  *)
(* ones, is Router: a verb and url leads to the endpoint that a             *)
(* fra_end_url_add which returned 0 named first (url.c:145-257).            *)
Routes == INSTANCE Router WITH
  route <- [v \in Verbs |-> [u \in Urls |-> ToEndpoint(v, u)]]
RouterSpec == Routes!Spec

(* core.h:30 of a program that has called fra_glob_deinit: "You can call    *)
(* fra_glob_init() again afterwards".                                       *)
InitAgain == glob = "down" => result # -1
=============================================================================
