----------------------------- MODULE HookOrder -----------------------------
(***************************************************************************)
(* What a hook list promises (include/fra/core.h:125-128): hooks are kept  *)
(* in the order of their priorities, "higher priority means later          *)
(* execution", and in the order of registration where priorities are equal;*)
(* an execution goes through them in that order, one at a time, from the   *)
(* first, and takes in hooks registered ahead of it while it runs.         *)
(***************************************************************************)
EXTENDS Integers

CONSTANTS Hooks, Prio, Threads, NULL

VARIABLES
  stamp,     \* 0, or the turn at which a hook was registered
  runs,      \* is a thread executing the list?
  at         \* the hook it is at, or NULL when it has come to the end

orderVars == <<stamp, runs, at>>

Registered == {h \in Hooks : stamp[h] > 0}
Before(a, b) == Prio[a] < Prio[b] \/ (Prio[a] = Prio[b] /\ stamp[a] < stamp[b])

(* x is the first of the set, or NULL is, when the set is empty.            *)
IsFirst(x, set) ==
  \/ set = {} /\ x = NULL
  \/ x \in set /\ \A y \in set \ {x} : Before(x, y)

Init ==
  /\ stamp = [h \in Hooks |-> 0]
  /\ runs = [t \in Threads |-> FALSE] /\ at = [t \in Threads |-> NULL]

Register(h) ==
  /\ stamp[h] = 0
  /\ stamp'[h] \in Nat /\ \A x \in Registered \cup {h} : stamp[x] < stamp'[h]
  /\ stamp' = [stamp EXCEPT ![h] = stamp'[h]]
  /\ UNCHANGED <<runs, at>>

Start(t) ==
  /\ ~runs[t] /\ runs' = [runs EXCEPT ![t] = TRUE]
  /\ \E x \in Hooks \cup {NULL} :
       IsFirst(x, Registered) /\ at' = [at EXCEPT ![t] = x]
  /\ UNCHANGED stamp

(* The hook returned 0: the next one is the first that comes after it.      *)
Advance(t) ==
  /\ runs[t] /\ at[t] # NULL
  /\ \E x \in Hooks \cup {NULL} :
       /\ IsFirst(x, {y \in Registered : Before(at[t], y)})
       /\ at' = [at EXCEPT ![t] = x]
  /\ UNCHANGED <<stamp, runs>>

(* The execution returns, at the end or because a hook failed.              *)
Return(t) ==
  /\ runs[t]
  /\ runs' = [runs EXCEPT ![t] = FALSE] /\ at' = [at EXCEPT ![t] = NULL]
  /\ UNCHANGED stamp

Next == \/ \E h \in Hooks : Register(h)
        \/ \E t \in Threads : Start(t) \/ Advance(t) \/ Return(t)

Spec == Init /\ [][Next]_orderVars
=============================================================================
