------------------------------- MODULE Plugin -------------------------------
(***************************************************************************)
(* The plugins of src/pl.c: the list that the configuration fills,         *)
(* fra_p_pl_load and fra_p_pl_unload.                                      *)
(*                                                                         *)
(* fra_p_pl_load opens the libraries in order and calls a function of each.*)
(* It stops at the first that fails, closes that one if it is open, and    *)
(* leaves those before it open.  A library can be in the list more than    *)
(* once; dlopen and dlclose count (refs), and both may fail.               *)
(*                                                                         *)
(* The program is taken to do what tests/pl.c does: it unloads only after  *)
(* a load that returned 0, and ends after one that did not.                *)
(***************************************************************************)
EXTENDS Integers, Sequences, FiniteSets

CONSTANT Libs

VARIABLES
  list,     \* g_first: the plugins, each with its handle h
  refs,     \* what dlopen has open of each library
  at,       \* c of both functions, as an index
  lpc,      \* "idle", "load", "init" (opened, not called), "unload"
  failed,   \* rc_c of fra_p_pl_unload, by the entries it counts
  loaded    \* history: "no", "yes", "partly" after a load that failed,
            \* "left" after an unload that failed

plvars == <<list, refs, at, lpc, failed, loaded>>

Idle == lpc = "idle"
Current == list[at]
More == at <= Len(list)

(* pl->h is not set by set_plugins: it is whatever malloc returned.         *)
Plugin(lib, argc) == [lib |-> lib, argc |-> argc, h |-> "unset"]

PluginType == [lib : Libs, argc : Nat, h : {"unset", "null", "handle"}]

PlInit ==
  /\ list = <<>> /\ refs = [l \in Libs |-> 0] /\ at = 0
  /\ lpc = "idle" /\ failed = {} /\ loaded = "no"

(* Mistake: the list of the last load is kept.                              *)
FaultyReset == UNCHANGED list

(* fra_p_pl_reset and fra_p_pl_add, for the plugins of ps in turn.          *)
Reset == list' = <<>>
Add(ps) == list' = list \o ps

(* dlopen and dlclose of l, when they succeed.                              *)
Dlopen(l) == refs' = [refs EXCEPT ![l] = @ + 1]
Dlclose(l) == refs' = [refs EXCEPT ![l] = @ - 1]

SetHandle(h) == list' = [list EXCEPT ![at].h = h]

Load ==
  /\ Idle /\ loaded = "no"
  /\ lpc' = "load" /\ at' = 1
  /\ UNCHANGED <<list, refs, failed, loaded>>

LoadOpen ==
  /\ lpc = "load" /\ More
  /\ Dlopen(Current.lib) /\ SetHandle("handle")
  /\ lpc' = "init"
  /\ UNCHANGED <<at, failed, loaded>>

(* Mistake: goto h_cleanup, as the other checks of the loop have it.        *)
FaultyLoadOpenFails ==
  /\ lpc = "load" /\ More
  /\ Dlclose(Current.lib)
  /\ SetHandle("null") /\ lpc' = "idle" /\ loaded' = "partly"
  /\ UNCHANGED <<at, failed>>

(* Mistake: a library that cannot be opened is skipped with a message.      *)
FaultyLoadOpenSkips ==
  /\ lpc = "load" /\ More
  /\ SetHandle("null") /\ at' = at + 1
  /\ UNCHANGED <<refs, lpc, failed, loaded>>

(* The library cannot be opened: final_cleanup.                             *)
LoadOpenFails ==
  /\ lpc = "load" /\ More
  /\ SetHandle("null") /\ lpc' = "idle" /\ loaded' = "partly"
  /\ UNCHANGED <<refs, at, failed>>

(* argv[0] is found and returns 0.                                          *)
LoadInit ==
  /\ lpc = "init" /\ Current.argc > 0
  /\ at' = at + 1 /\ lpc' = "load"
  /\ UNCHANGED <<list, refs, failed, loaded>>

(* Mistake: goto final_cleanup from there: the library stays open.          *)
FaultyLoadInitFails ==
  /\ lpc = "init"
  /\ SetHandle("null")
  /\ lpc' = "idle" /\ loaded' = "partly"
  /\ UNCHANGED <<refs, at, failed>>

(* No function is named, it is not in the library, or it returns another    *)
(* value: h_cleanup.  If dlclose fails h is kept, the library is still open.*)
LoadInitFails ==
  /\ lpc = "init"
  /\ \/ Dlclose(Current.lib) /\ SetHandle("null")
     \/ UNCHANGED <<refs, list>>
  /\ lpc' = "idle" /\ loaded' = "partly"
  /\ UNCHANGED <<at, failed>>

LoadDone ==
  /\ lpc = "load" /\ ~More
  /\ lpc' = "idle" /\ loaded' = "yes"
  /\ UNCHANGED <<list, refs, at, failed>>

Unload ==
  /\ Idle /\ loaded = "yes"
  /\ lpc' = "unload" /\ at' = 1 /\ failed' = {}
  /\ UNCHANGED <<list, refs, loaded>>

(* h keeps its value after the dlclose.  One that fails is counted, and the *)
(* loop goes on.                                                            *)
UnloadOne ==
  /\ lpc = "unload" /\ More
  /\ \/ Dlclose(Current.lib) /\ UNCHANGED failed
     \/ failed' = failed \cup {at} /\ UNCHANGED refs
  /\ at' = at + 1
  /\ UNCHANGED <<list, lpc, loaded>>

(* It returns 0 only if every dlclose did.                                  *)
UnloadDone ==
  /\ lpc = "unload" /\ ~More
  /\ lpc' = "idle" /\ loaded' = IF failed = {} THEN "no" ELSE "left"
  /\ UNCHANGED <<list, refs, at, failed>>

PlNext ==
  \/ Load \/ LoadOpen \/ LoadOpenFails \/ LoadInit \/ LoadInitFails \/ LoadDone
  \/ Unload \/ UnloadOne \/ UnloadDone

PlTypeOK ==
  /\ list \in Seq(PluginType)
  /\ refs \in [Libs -> Nat] /\ at \in Nat
  /\ lpc \in {"idle", "load", "init", "unload"}
  /\ failed \subseteq Nat /\ loaded \in {"no", "yes", "partly", "left"}

(***************************************************************************)
(* The entries whose library is open between two calls: all after a load,  *)
(* after one that failed those before the failure and that entry if its    *)
(* handle is still there, after an unload those it could not close.        *)
(***************************************************************************)
OpenEntries ==
  CASE loaded = "yes" -> DOMAIN list
    [] loaded = "partly" -> {k \in 1 .. at : list[k].h = "handle"}
    [] loaded = "left" -> failed
    [] OTHER -> {}

(* Between two calls every library is open once for each entry that names   *)
(* it and was loaded: none after an unload that returns 0, after one that   *)
(* returns -1 exactly those whose dlclose failed, after a load that failed  *)
(* exactly those whose h is not NULL up to the failure (pl.c:88-131,        *)
(* 146-158).                                                                *)
RefsMatch ==
  Idle => \A l \in Libs : refs[l] = Cardinality({k \in OpenEntries : list[k].lib = l})

(* dlclose is called only with a handle that dlopen returned (pl.c:126,     *)
(* 148), although set_plugins leaves h as malloc returned it.               *)
HandlesValid ==
  lpc \in {"init", "unload"} /\ More => Current.h = "handle"
=============================================================================
