------------------------------ MODULE HookList ------------------------------
(***************************************************************************)
(* One list of hooks of src/hook.c: hook_reg, hook_execute and             *)
(* fra_p_hook_free, by several threads, step by step.  hook_execute gives  *)
(* the lock back around every callback, and a callback may register hooks  *)
(* itself, so the list changes under a running execution.                  *)
(*                                                                         *)
(* Locked is TRUE for the global and the request lists if fra_p_pthreads is*)
(* set; it is FALSE otherwise, and always for the list of an endpoint,     *)
(* whose lock argument is NULL (hook.c:254, 307).  lock.c sets             *)
(* fra_p_pthreads to 0; conf.c reads "thread safe", but nothing passes it  *)
(* on yet.                                                                 *)
(*                                                                         *)
(* A hook stands for the node hook_reg allocates for it, so each is        *)
(* registered at most once; a registration that fails (malloc, type_max,   *)
(* a NULL callback) changes nothing.                                       *)
(***************************************************************************)
EXTENDS Integers

CONSTANTS
  Hooks,       \* the fra_p_hook_t nodes
  Prio,        \* their priorities
  Threads,
  NULL,
  Locked,      \* do the threads take the list's mutex?
  MaxRuns      \* bound: executions of a thread

ASSUME NullDistinct == NULL \notin Hooks \cup Threads
ASSUME PrioType     == Prio \in [Hooks -> Int]
ASSUME LockedType   == Locked \in BOOLEAN /\ MaxRuns \in Nat

VARIABLES
  head,        \* hooks[ type ]
  next,        \* the next field of every node
  alive,       \* allocated nodes
  lock,        \* the thread that holds the mutex, or NULL
  rpc, rhook, rcur, rnext,   \* hook_reg: where a thread is, its new_hook, its
                             \* cur, and the pointer it read last
  xpc, xcur,   \* hook_execute: where a thread is, and its cur
  count,       \* executions started, per thread
  freed,       \* fra_p_hook_free was called
  turn, stamp, \* history: hooks linked so far, and the turn at which a hook
               \* was linked, or 0
  called, seen \* history: hooks called, and those linked at the start

reg  == <<rpc, rhook, rcur, rnext>>
exec == <<xpc, xcur, count, called, seen>>
list == <<head, next, turn, stamp>>
vars == <<list, alive, lock, reg, exec, freed>>

Linked == {h \in Hooks : stamp[h] > 0}

-----------------------------------------------------------------------------
Init ==
  /\ head = NULL /\ next = [h \in Hooks |-> NULL]
  /\ alive = {} /\ lock = NULL
  /\ rpc = [t \in Threads |-> "idle"] /\ rhook = [t \in Threads |-> NULL]
  /\ rcur = [t \in Threads |-> NULL] /\ rnext = [t \in Threads |-> NULL]
  /\ xpc = [t \in Threads |-> "idle"] /\ xcur = [t \in Threads |-> NULL]
  /\ count = [t \in Threads |-> 0] /\ freed = FALSE
  /\ turn = 0 /\ stamp = [h \in Hooks |-> 0]
  /\ called = [t \in Threads |-> {}] /\ seen = [t \in Threads |-> {}]

(* The operators whose names begin with Faulty are the code with a mistake  *)
(* in it; no specification uses them.                                       *)

(* if( lock ) fra_p_lock( lock, ... ) and if( lock ) fra_p_unlock(...)      *)
FaultyAcquire(t) == UNCHANGED lock
Acquire(t) == IF Locked THEN lock = NULL /\ lock' = t ELSE UNCHANGED lock
Release(t) == IF Locked THEN lock' = NULL ELSE UNCHANGED lock

(* priority < ...->priority                                                 *)
FaultyGoesBefore(h, x) == Prio[h] <= Prio[x]
GoesBefore(h, x) == Prio[h] < Prio[x]

Link(h) == turn' = turn + 1 /\ stamp' = [stamp EXCEPT ![h] = turn + 1]

-----------------------------------------------------------------------------
(* hook_reg, called between executions or from a callback                   *)

RegCall(t, h) ==
  /\ rpc[t] = "idle" /\ xpc[t] \in {"idle", "call"} /\ ~freed
  /\ h \notin alive /\ alive' = alive \cup {h}
  /\ rhook' = [rhook EXCEPT ![t] = h]
  /\ rpc' = [rpc EXCEPT ![t] = "lock"]
  /\ UNCHANGED <<list, lock, rcur, rnext, exec, freed>>

RegLock(t) ==
  /\ rpc[t] = "lock" /\ Acquire(t)
  /\ rpc' = [rpc EXCEPT ![t] = "first"]
  /\ UNCHANGED <<list, alive, rhook, rcur, rnext, exec, freed>>

(* An empty list, or a lower priority than the first: put it in front.      *)
FaultyRegFirst(t) ==
  /\ rpc[t] = "first"
  /\ rnext' = [rnext EXCEPT ![t] = head] /\ rpc' = [rpc EXCEPT ![t] = "push"]
  /\ UNCHANGED <<rcur, list, alive, lock, rhook, exec, freed>>
RegFirst(t) ==
  /\ rpc[t] = "first"
  /\ IF head = NULL \/ GoesBefore(rhook[t], head)
     THEN /\ rnext' = [rnext EXCEPT ![t] = head]
          /\ rpc' = [rpc EXCEPT ![t] = "push"] /\ UNCHANGED rcur
     ELSE /\ rcur' = [rcur EXCEPT ![t] = head]
          /\ rpc' = [rpc EXCEPT ![t] = "walk"] /\ UNCHANGED rnext
  /\ UNCHANGED <<list, alive, lock, rhook, exec, freed>>

RegPush(t) ==
  /\ rpc[t] = "push"
  /\ next' = [next EXCEPT ![rhook[t]] = rnext[t]]
  /\ head' = rhook[t] /\ Link(rhook[t])
  /\ rpc' = [rpc EXCEPT ![t] = "unlock"]
  /\ UNCHANGED <<alive, lock, rhook, rcur, rnext, exec, freed>>

(* One turn of the loop over cur.                                           *)
RegWalk(t) ==
  LET n == next[rcur[t]] IN
  /\ rpc[t] = "walk"
  /\ IF n = NULL \/ GoesBefore(rhook[t], n)
     THEN /\ rnext' = [rnext EXCEPT ![t] = n]
          /\ rpc' = [rpc EXCEPT ![t] = "splice"] /\ UNCHANGED rcur
     ELSE rcur' = [rcur EXCEPT ![t] = n] /\ UNCHANGED <<rpc, rnext>>
  /\ UNCHANGED <<list, alive, lock, rhook, exec, freed>>

FaultyRegSplice(t) ==
  /\ rpc[t] = "splice"
  /\ next' = [next EXCEPT ![rcur[t]] = rhook[t]] /\ Link(rhook[t])
  /\ rpc' = [rpc EXCEPT ![t] = "unlock"]
  /\ UNCHANGED <<head, alive, lock, rhook, rcur, rnext, exec, freed>>
RegSplice(t) ==
  /\ rpc[t] = "splice"
  /\ next' = [next EXCEPT ![rhook[t]] = rnext[t], ![rcur[t]] = rhook[t]]
  /\ Link(rhook[t])
  /\ rpc' = [rpc EXCEPT ![t] = "unlock"]
  /\ UNCHANGED <<head, alive, lock, rhook, rcur, rnext, exec, freed>>

RegUnlock(t) ==
  /\ rpc[t] = "unlock" /\ Release(t)
  /\ rpc' = [rpc EXCEPT ![t] = "idle"] /\ rhook' = [rhook EXCEPT ![t] = NULL]
  /\ UNCHANGED <<list, alive, rcur, rnext, exec, freed>>

-----------------------------------------------------------------------------
(* hook_execute                                                             *)

ExecCall(t) ==
  /\ rpc[t] = "idle" /\ xpc[t] = "idle" /\ ~freed /\ count[t] < MaxRuns
  /\ count' = [count EXCEPT ![t] = @ + 1]
  /\ xpc' = [xpc EXCEPT ![t] = "lock"]
  /\ UNCHANGED <<list, alive, lock, reg, xcur, called, seen, freed>>

(* Lock, and cur = hooks[ type ].                                           *)
ExecLock(t) ==
  /\ xpc[t] = "lock" /\ Acquire(t)
  /\ xcur' = [xcur EXCEPT ![t] = head]
  /\ called' = [called EXCEPT ![t] = {}] /\ seen' = [seen EXCEPT ![t] = Linked]
  /\ xpc' = [xpc EXCEPT ![t] = "unlock"]
  /\ UNCHANGED <<list, alive, reg, count, freed>>

(* Unlock before the call, or before returning 0 at the end of the list.    *)
FaultyExecUnlock(t) ==
  /\ xpc[t] = "unlock" /\ Release(t)
  /\ xpc' = [xpc EXCEPT ![t] = "call"]
  /\ UNCHANGED <<list, alive, reg, xcur, count, called, seen, freed>>
ExecUnlock(t) ==
  /\ xpc[t] = "unlock" /\ Release(t)
  /\ xpc' = [xpc EXCEPT ![t] = IF xcur[t] = NULL THEN "returned" ELSE "call"]
  /\ UNCHANGED <<list, alive, reg, xcur, count, called, seen, freed>>

(* The callback, which may have registered hooks, returns 0, or not and     *)
(* hook_execute returns -1.                                                 *)
CallbackReturns(t) ==
  /\ xpc[t] = "call" /\ rpc[t] = "idle"
  /\ called' = [called EXCEPT ![t] = @ \cup {xcur[t]}]
  /\ \E next_pc \in {"relock", "failed"} : xpc' = [xpc EXCEPT ![t] = next_pc]
  /\ UNCHANGED <<list, alive, lock, reg, xcur, count, seen, freed>>

(* Lock again, and cur = cur->next.                                         *)
FaultyExecRelock(t) ==
  /\ xpc[t] = "relock" /\ Acquire(t)
  /\ xpc' = [xpc EXCEPT ![t] = "unlock"]
  /\ UNCHANGED <<list, alive, reg, xcur, count, called, seen, freed>>
ExecRelock(t) ==
  /\ xpc[t] = "relock" /\ Acquire(t)
  /\ xcur' = [xcur EXCEPT ![t] = next[xcur[t]]]
  /\ xpc' = [xpc EXCEPT ![t] = "unlock"]
  /\ UNCHANGED <<list, alive, reg, count, called, seen, freed>>

ExecReturn(t) ==
  /\ xpc[t] \in {"returned", "failed"}
  /\ xpc' = [xpc EXCEPT ![t] = "idle"] /\ xcur' = [xcur EXCEPT ![t] = NULL]
  /\ UNCHANGED <<list, alive, lock, reg, count, called, seen, freed>>

-----------------------------------------------------------------------------
(* The nodes of the list, what following next from head comes by: the least *)
(* set that has head and goes with every node to the next.                  *)
Closed(S) ==
  /\ head # NULL => head \in S
  /\ \A h \in S : next[h] # NULL => next[h] \in S
Reached == {h \in Hooks : \A S \in SUBSET Hooks : Closed(S) => h \in S}

(* fra_p_hook_free, when the program is done with the list (fra_end_free,   *)
(* fra_glob_deinit: not to be called beside other functions).               *)
Free ==
  /\ ~freed /\ freed' = TRUE
  /\ \A t \in Threads : rpc[t] = "idle" /\ xpc[t] = "idle"
  /\ alive' = alive \ Reached
  /\ UNCHANGED <<list, lock, reg, exec>>

Ended == freed /\ UNCHANGED vars

Registration(t) == RegLock(t) \/ RegFirst(t) \/ RegPush(t) \/ RegWalk(t)
                     \/ RegSplice(t) \/ RegUnlock(t)
Execution(t) == ExecLock(t) \/ ExecUnlock(t) \/ CallbackReturns(t) \/ ExecRelock(t)
                  \/ ExecReturn(t)

Next ==
  \/ \E t \in Threads : (\E h \in Hooks : RegCall(t, h)) \/ ExecCall(t)
                          \/ Registration(t) \/ Execution(t)
  \/ Free \/ Ended

Spec == Init /\ [][Next]_vars

(* A thread inside a function of the library goes on; that suffices for a   *)
(* mutex as well, because the work of the other threads is bounded.         *)
FairSpec == Spec /\ \A t \in Threads : WF_vars(Registration(t) \/ Execution(t))

-----------------------------------------------------------------------------
(* Properties                                                               *)

RegPcs  == {"idle", "lock", "first", "push", "walk", "splice", "unlock"}
ExecPcs == {"idle", "lock", "unlock", "call", "relock", "returned", "failed"}

(* The type of every variable.                                              *)
TypeOK ==
  /\ head \in Hooks \cup {NULL} /\ next \in [Hooks -> Hooks \cup {NULL}]
  /\ alive \subseteq Hooks /\ lock \in Threads \cup {NULL}
  /\ rpc \in [Threads -> RegPcs] /\ rhook \in [Threads -> Hooks \cup {NULL}]
  /\ rcur \in [Threads -> Hooks \cup {NULL}] /\ rnext \in [Threads -> Hooks \cup {NULL}]
  /\ xpc \in [Threads -> ExecPcs] /\ xcur \in [Threads -> Hooks \cup {NULL}]
  /\ count \in [Threads -> Nat] /\ freed \in BOOLEAN
  /\ turn \in Nat /\ stamp \in [Hooks -> Nat]
  /\ called \in [Threads -> SUBSET Hooks] /\ seen \in [Threads -> SUBSET Hooks]

(* Execution order: priority, then the order of registration.               *)
Less(a, b) == Prio[a] < Prio[b] \/ (Prio[a] = Prio[b] /\ stamp[a] < stamp[b])

(* Every hook whose registration linked it is on the list, and nothing else *)
(* is, whatever the registrations of the threads interleaved (hook_reg).    *)
NoLostHook == Reached = Linked

(* The list is sorted by priority, and stable (core.h:127).                 *)
Sorted == \A h \in Linked : next[h] # NULL => Less(h, next[h])

(* A running execution calls every hook at most once and never goes back,   *)
(* whatever is registered while the lock is given away: what it called lies *)
(* strictly before the hook it is at (hook_execute).                        *)
CalledInOrder ==
  \A t \in Threads : xpc[t] = "call" => \A h \in called[t] : Less(h, xcur[t])

(* An execution that returns 0 has called every hook that was registered    *)
(* when it began, and one that is at a hook has called all those before it. *)
CalledAll ==
  \A t \in Threads :
    /\ xpc[t] = "returned" => seen[t] \subseteq called[t]
    /\ xpc[t] \in {"call", "failed"} =>
         \A h \in seen[t] : Less(h, xcur[t]) => h \in called[t]

(* fra_p_hook_free frees every node that was ever allocated.                *)
NoLeak == freed => alive = {}

(* Every execution returns, even if its callbacks register hooks, of which  *)
(* there are finitely many: each node is registered once.  A callback that  *)
(* registered another node behind itself whenever it is called would keep   *)
(* the loop of hook_execute (hook.c:118-139) going for ever.                *)
Returns == \A t \in Threads : xpc[t] = "lock" ~> xpc[t] = "idle"

(* The list implements the ordered set of HookOrder.                        *)
Order == INSTANCE HookOrder WITH
  runs <- [t \in Threads |-> xpc[t] \notin {"idle", "lock"}],
  at <- xcur
OrderSpec == Order!Spec

=============================================================================
