--------------------------- MODULE HookListProofs ---------------------------
(***************************************************************************)
(* Theorems about HookList, for any hooks, priorities and threads.         *)
(***************************************************************************)
EXTENDS HookList, TLAPS

(* The mutex is used, or only one thread uses the list: what the library    *)
(* has for the global and the request hooks, and for those of an endpoint   *)
(* in a program of one thread.                                              *)
Exclusive == Locked \/ \A t1, t2 \in Threads : t1 = t2

-----------------------------------------------------------------------------
(* The inductive invariant                                                  *)

InCrit(t) == rpc[t] \in {"first", "push", "walk", "splice", "unlock"} \/ xpc[t] = "unlock"

Mutex ==
  /\ Locked => \A t \in Threads : InCrit(t) => lock = t
  /\ \A t \in Threads : rpc[t] # "idle" => xpc[t] \in {"idle", "call"}

(* Reachability without recursion: head is the least linked hook, and next  *)
(* of a linked hook is the least of those that come after it.               *)
Least(x, set) ==
  IF x = NULL THEN set = {} ELSE x \in set /\ \A y \in set : y = x \/ Less(x, y)
After(h) == {x \in Linked : Less(h, x)}

Stamps ==
  /\ \A h \in Hooks : stamp[h] <= turn
  /\ \A a, b \in Linked : stamp[a] = stamp[b] => a = b
ListInv == Stamps /\ Least(head, Linked) /\ \A h \in Linked : Least(next[h], After(h))

(* Nodes of registrations that have not linked them.                        *)
Pending(t) == rpc[t] \in {"lock", "first", "push", "walk", "splice"}
Nodes ==
  /\ ~freed => Linked \subseteq alive
  /\ freed => \A t \in Threads : rpc[t] = "idle"
  /\ \A t \in Threads : rpc[t] # "idle" => rhook[t] \in alive
  /\ \A t \in Threads : Pending(t) => rhook[t] \notin Linked
  /\ \A t1, t2 \in Threads :
       rpc[t1] # "idle" /\ rpc[t2] # "idle" /\ rhook[t1] = rhook[t2] => t1 = t2

(* What a registration knows of the place it looks at.                      *)
RegInv(t) ==
  /\ rpc[t] = "push" =>
       rnext[t] = head /\ (head # NULL => Prio[rhook[t]] < Prio[head])
  /\ rpc[t] \in {"walk", "splice"} =>
       rcur[t] \in Linked /\ Prio[rcur[t]] <= Prio[rhook[t]]
  /\ rpc[t] = "splice" =>
       rnext[t] = next[rcur[t]] /\ (rnext[t] # NULL => Prio[rhook[t]] < Prio[rnext[t]])

(* What an execution has done: called lies before xcur, and of the hooks it *)
(* has seen, all those before xcur were called.                             *)
ExecInv(t) ==
  /\ xpc[t] # "idle" /\ xcur[t] # NULL => xcur[t] \in Linked
  /\ xpc[t] \in {"idle", "lock"} => xcur[t] = NULL
  /\ xpc[t] \in {"call", "relock", "failed"} => xcur[t] # NULL
  /\ xpc[t] = "returned" => xcur[t] = NULL
  /\ called[t] \subseteq Linked /\ seen[t] \subseteq Linked
  /\ xpc[t] \in {"unlock", "call"} /\ xcur[t] # NULL =>
       /\ \A h \in called[t] : Less(h, xcur[t])
       /\ \A h \in seen[t] : Less(h, xcur[t]) => h \in called[t]
  /\ xpc[t] \in {"unlock", "returned"} /\ xcur[t] = NULL => seen[t] \subseteq called[t]
  /\ xpc[t] \in {"relock", "failed"} =>
       /\ \A h \in called[t] : h = xcur[t] \/ Less(h, xcur[t])
       /\ \A h \in seen[t] : h = xcur[t] \/ Less(h, xcur[t]) => h \in called[t]

Inv ==
  /\ TypeOK /\ Mutex /\ ListInv /\ Nodes
  /\ \A t \in Threads : RegInv(t) /\ ExecInv(t)

USE DEF reg, exec, list

-----------------------------------------------------------------------------
(* Types                                                                    *)

(* The pointers that are followed point to hooks.                           *)
TypeInv ==
  /\ TypeOK
  /\ \A t \in Threads : rpc[t] \in {"walk", "splice"} => rcur[t] \in Hooks
  /\ \A t \in Threads : xpc[t] \in {"call", "relock"} => xcur[t] \in Hooks

LEMMA TypeInit == Init => TypeInv
  <1> SUFFICES ASSUME Init PROVE TypeInv
    OBVIOUS
  <1>1. turn \in Nat /\ stamp \in [Hooks -> Nat] /\ count \in [Threads -> Nat]
    BY DEF Init
  <1>2. rpc \in [Threads -> RegPcs] /\ xpc \in [Threads -> ExecPcs]
    BY DEF Init, RegPcs, ExecPcs
  <1> QED BY <1>1, <1>2 DEF Init, TypeInv, TypeOK

LEMMA LinkType ==
  ASSUME turn \in Nat, stamp \in [Hooks -> Nat], NEW h, Link(h)
  PROVE  turn' \in Nat /\ stamp' \in [Hooks -> Nat]
  <1>1. turn + 1 \in Nat
    OBVIOUS
  <1> QED BY <1>1 DEF Link

LEMMA TypeNext == TypeInv /\ [Next]_vars => TypeInv'
  <1> SUFFICES ASSUME TypeInv, [Next]_vars PROVE TypeInv'
    OBVIOUS
  <1> USE LockedType
      DEF TypeInv, TypeOK, RegPcs, ExecPcs, Acquire, Release, GoesBefore, Linked
  <1>1. ASSUME NEW t \in Threads, NEW h \in Hooks, RegCall(t, h) PROVE TypeInv'
    BY <1>1 DEF RegCall
  <1>2. ASSUME NEW t \in Threads, RegLock(t) PROVE TypeInv'
    BY <1>2 DEF RegLock
  <1>3. ASSUME NEW t \in Threads, RegFirst(t) PROVE TypeInv'
    BY <1>3 DEF RegFirst
  <1>4. ASSUME NEW t \in Threads, RegPush(t) PROVE TypeInv'
    <2>1. turn' \in Nat /\ stamp' \in [Hooks -> Nat]
      BY <1>4, LinkType DEF RegPush
    <2>2. next' \in [Hooks -> Hooks \cup {NULL}] /\ head' \in Hooks \cup {NULL}
      BY <1>4 DEF RegPush
    <2>3. rpc' = [rpc EXCEPT ![t] = "unlock"]
          /\ UNCHANGED <<alive, lock, rhook, rcur, rnext, exec, freed>>
      BY <1>4 DEF RegPush
    <2> QED BY <2>1, <2>2, <2>3
  <1>5. ASSUME NEW t \in Threads, RegWalk(t) PROVE TypeInv'
    BY <1>5 DEF RegWalk
  <1>6. ASSUME NEW t \in Threads, RegSplice(t) PROVE TypeInv'
    <2>1. turn' \in Nat /\ stamp' \in [Hooks -> Nat]
      BY <1>6, LinkType DEF RegSplice
    <2>2. next' \in [Hooks -> Hooks \cup {NULL}] /\ UNCHANGED head
      BY <1>6 DEF RegSplice
    <2>3. rpc' = [rpc EXCEPT ![t] = "unlock"]
          /\ UNCHANGED <<alive, lock, rhook, rcur, rnext, exec, freed>>
      BY <1>6 DEF RegSplice
    <2> QED BY <2>1, <2>2, <2>3
  <1>7. ASSUME NEW t \in Threads, RegUnlock(t) PROVE TypeInv'
    BY <1>7 DEF RegUnlock
  <1>8. ASSUME NEW t \in Threads, ExecCall(t) PROVE TypeInv'
    BY <1>8 DEF ExecCall
  <1>9. ASSUME NEW t \in Threads, ExecLock(t) PROVE TypeInv'
    BY <1>9 DEF ExecLock
  <1>10. ASSUME NEW t \in Threads, ExecUnlock(t) PROVE TypeInv'
    BY <1>10 DEF ExecUnlock
  <1>11. ASSUME NEW t \in Threads, CallbackReturns(t) PROVE TypeInv'
    BY <1>11 DEF CallbackReturns
  <1>12. ASSUME NEW t \in Threads, ExecRelock(t) PROVE TypeInv'
    BY <1>12 DEF ExecRelock
  <1>13. ASSUME NEW t \in Threads, ExecReturn(t) PROVE TypeInv'
    BY <1>13 DEF ExecReturn
  <1>14. ASSUME Free PROVE TypeInv'
    BY <1>14 DEF Free
  <1>15. ASSUME UNCHANGED vars PROVE TypeInv'
    BY <1>15 DEF vars
  <1> QED
    BY <1>1, <1>2, <1>3, <1>4, <1>5, <1>6, <1>7, <1>8,
       <1>9, <1>10, <1>11, <1>12, <1>13, <1>14, <1>15
    DEF Next, Ended, Registration, Execution

(* TypeOK: every variable keeps its type, whoever registers and executes.   *)
THEOREM Typing == Spec => []TypeOK
  <1>1. TypeInv => TypeOK
    BY DEF TypeInv
  <1> QED BY TypeInit, TypeNext, <1>1, PTL DEF Spec

-----------------------------------------------------------------------------
(* The order of hooks                                                       *)

LEMMA LessOrder ==
  ASSUME TypeOK, Stamps
  PROVE  /\ \A a \in Hooks : ~Less(a, a)
         /\ \A a, b, c \in Hooks : Less(a, b) /\ Less(b, c) => Less(a, c)
         /\ \A a, b \in Linked : a = b \/ Less(a, b) \/ Less(b, a)
  BY PrioType DEF TypeOK, Stamps, Less, Linked

(* A newly linked hook comes after all those of its priority.               *)
LEMMA LinkOrder ==
  ASSUME TypeOK, Stamps, NEW h \in Hooks \ Linked, Link(h)
  PROVE  /\ Stamps' /\ Linked' = Linked \cup {h}
         /\ \A a, b \in Linked : Less(a, b)' <=> Less(a, b)
         /\ \A a \in Linked : Less(a, h)' <=> Prio[a] <= Prio[h]
         /\ \A a \in Linked : Less(h, a)' <=> Prio[h] < Prio[a]
         /\ ~Less(h, h)'
  <1>1. turn' = turn + 1 /\ turn \in Nat /\ stamp' \in [Hooks -> Nat]
    BY LinkType DEF TypeOK, Link
  <1>2. stamp'[h] = turn + 1 /\ \A a \in Hooks \ {h} : stamp'[a] = stamp[a]
    BY DEF Link, TypeOK
  <1>3. \A a \in Hooks : stamp[a] \in Nat /\ stamp[a] <= turn
    BY DEF TypeOK, Stamps
  <1>4. Linked' = Linked \cup {h}
    BY <1>1, <1>2, <1>3 DEF Linked
  <1>5. Stamps'
    BY <1>1, <1>2, <1>3, <1>4 DEF Stamps, Linked
  <1>6. h \notin Linked /\ Linked \subseteq Hooks
    BY DEF Linked
  <1>7. \A a, b \in Linked : Less(a, b)' <=> Less(a, b)
    BY <1>2, <1>6 DEF Less
  <1>8. \A a \in Linked : Less(a, h)' <=> Prio[a] <= Prio[h]
    BY <1>1, <1>2, <1>3, <1>6, PrioType DEF Less
  <1>9. \A a \in Linked : Less(h, a)' <=> Prio[h] < Prio[a]
    BY <1>1, <1>2, <1>3, <1>6, PrioType DEF Less
  <1>10. ~Less(h, h)'
    BY <1>1, <1>2, PrioType DEF Less
  <1> QED BY <1>4, <1>5, <1>7, <1>8, <1>9, <1>10

(* In front of the list.                                                    *)
LEMMA PushKeepsOrder ==
  ASSUME TypeOK, ListInv, NEW h \in Hooks \ Linked, Link(h),
         head # NULL => Prio[h] < Prio[head],
         head' = h, next' = [next EXCEPT ![h] = head]
  PROVE  ListInv'
  <1> USE DEF ListInv
  <1>1. Linked \subseteq Hooks /\ h # NULL
    BY NullDistinct DEF Linked
  <1>2. \A y \in Linked : Prio[h] < Prio[y]
    <2> SUFFICES ASSUME NEW y \in Linked PROVE Prio[h] < Prio[y]
      OBVIOUS
    <2>1. head \in Linked /\ (y = head \/ Less(head, y))
      BY DEF Least
    <2>2. Prio[h] < Prio[head]
      BY <1>1, <2>1, NullDistinct
    <2>3. Prio[head] <= Prio[y]
      BY <1>1, <2>1, PrioType DEF Less
    <2> QED BY <1>1, <2>1, <2>2, <2>3, PrioType
  <1>3. Least(head, Linked)'
    BY <1>1, <1>2, LinkOrder DEF Least
  <1>4. After(h)' = Linked
    BY <1>2, LinkOrder DEF After
  <1>5. \A x \in Linked : After(x)' = After(x)
    BY <1>1, <1>2, LinkOrder, PrioType DEF After
  <1>6. next'[h] = head /\ \A x \in Linked : next'[x] = next[x]
    BY <1>1 DEF TypeOK
  <1>7. Least(next[h], After(h))'
    BY <1>4, <1>6, LinkOrder DEF Least
  <1>8. ASSUME NEW x \in Linked PROVE Least(next[x], After(x))'
    <2>1. After(x) \subseteq Linked /\ Least(next[x], After(x))
      BY DEF After
    <2> QED BY <1>5, <1>6, <2>1, LinkOrder DEF Least
  <1> QED BY <1>3, <1>7, <1>8, LinkOrder DEF Least

(* Between two hooks, or at the end.                                        *)
LEMMA SpliceKeepsOrder ==
  ASSUME TypeOK, ListInv, NEW h \in Hooks \ Linked, Link(h),
         NEW c \in Linked, Prio[c] <= Prio[h],
         next[c] # NULL => Prio[h] < Prio[next[c]],
         head' = head, next' = [next EXCEPT ![h] = next[c], ![c] = h]
  PROVE  ListInv'
  <1> USE DEF ListInv
  <1>1. Linked \subseteq Hooks /\ h # NULL /\ c # h
    BY NullDistinct DEF Linked
  <1>2. \A a, b \in Linked : Less(a, b) => Prio[a] <= Prio[b]
    BY <1>1, PrioType DEF Less
  <1>3. /\ next'[h] = next[c] /\ next'[c] = h
        /\ \A x \in Linked : x # c => next'[x] = next[x]
    BY <1>1 DEF TypeOK
  <1>4. \A y \in After(c) : Prio[h] < Prio[y]
    <2> SUFFICES ASSUME NEW y \in After(c) PROVE Prio[h] < Prio[y]
      OBVIOUS
    <2>1. next[c] \in After(c) /\ (y = next[c] \/ Less(next[c], y))
      BY DEF Least
    <2>2. next[c] \in Linked /\ y \in Linked
      BY <2>1 DEF After
    <2>3. Prio[h] < Prio[next[c]]
      BY <1>1, <2>2, NullDistinct
    <2> QED BY <1>1, <1>2, <2>1, <2>2, <2>3, PrioType
  <1>5. Least(head, Linked)'
    <2>1. head \in Linked /\ (c = head \/ Less(head, c))
      BY DEF Least
    <2>2. Prio[head] <= Prio[h]
      BY <1>1, <1>2, <2>1, PrioType
    <2>3. head # NULL
      BY <1>1, <2>1, NullDistinct
    <2> QED BY <2>1, <2>2, <2>3, LinkOrder DEF Least
  <1>6. After(h)' = After(c)
    <2>1. \A y \in Linked : Prio[h] < Prio[y] => Less(c, y)
      BY <1>1, PrioType DEF Less
    <2> QED BY <1>4, <2>1, LinkOrder DEF After
  <1>7. Least(next[h], After(h))'
    <2> PICK m : m = next[c]
      OBVIOUS
    <2>1. Least(m, After(c)) /\ After(c) \subseteq Linked
      BY DEF After
    <2>2. CASE m = NULL
      BY <1>3, <1>6, <2>1, <2>2 DEF Least
    <2>3. CASE m # NULL
      <3>1. m \in After(c) /\ \A y \in After(c) : y = m \/ Less(m, y)
        BY <2>1, <2>3 DEF Least
      <3>2. \A y \in After(c) : y = m \/ Less(m, y)'
        BY <2>1, <3>1, LinkOrder
      <3> QED BY <1>3, <1>6, <2>3, <3>1, <3>2 DEF Least
    <2> QED BY <2>2, <2>3
  <1>8. Least(next[c], After(c))'
    <2>1. After(c)' = After(c) \cup {h} /\ After(c) \subseteq Linked
      BY <1>1, LinkOrder DEF After
    <2>2. \A y \in After(c) : Less(h, y)'
      BY <1>4, <2>1, LinkOrder
    <2> QED BY <1>1, <1>3, <2>1, <2>2 DEF Least
  <1>9. ASSUME NEW x \in Linked, x # c PROVE Least(next[x], After(x))'
    <2> PICK m : m = next[x]
      OBVIOUS
    <2>0. Least(m, After(x)) /\ After(x) \subseteq Linked /\ next'[x] = m
      BY <1>3, <1>9 DEF After
    <2>1. CASE Less(c, x)
      <3>1. ~(Prio[x] <= Prio[h])
        BY <1>1, <1>4, <2>1, PrioType DEF After
      <3>2. After(x)' = After(x)
        BY <3>1, LinkOrder DEF After
      <3>3. CASE m = NULL
        BY <2>0, <3>2, <3>3 DEF Least
      <3>4. CASE m # NULL
        <4>1. m \in After(x) /\ \A y \in After(x) : y = m \/ Less(m, y)
          BY <2>0, <3>4 DEF Least
        <4>2. \A y \in After(x) : y = m \/ Less(m, y)'
          BY <2>0, <4>1, LinkOrder
        <4> QED BY <2>0, <3>2, <3>4, <4>1, <4>2 DEF Least
      <3> QED BY <3>3, <3>4
    <2>2. CASE Less(x, c)
      <3>1. c \in After(x)
        BY <2>2 DEF After
      <3>2. /\ m \in Linked /\ m # NULL /\ (c = m \/ Less(m, c))
            /\ m \in After(x) /\ \A y \in After(x) : y = m \/ Less(m, y)
        BY <1>1, <2>0, <3>1, NullDistinct DEF Least
      <3>3. Prio[m] <= Prio[h] /\ Prio[x] <= Prio[h]
        BY <1>1, <1>2, <2>2, <3>2, PrioType
      <3>4. After(x)' = After(x) \cup {h}
        BY <3>3, LinkOrder DEF After
      <3>5. Less(m, h)'
        BY <3>2, <3>3, LinkOrder
      <3>6. \A y \in After(x) : y = m \/ Less(m, y)'
        BY <2>0, <3>2, LinkOrder
      <3> QED BY <2>0, <3>2, <3>4, <3>5, <3>6 DEF Least
    <2> QED BY <1>1, <1>9, <2>1, <2>2, LessOrder
  <1>10. Linked' = Linked \cup {h} /\ Stamps'
    BY LinkOrder
  <1>11. \A x \in Linked : Least(next[x], After(x))'
    BY <1>8, <1>9
  <1> QED BY <1>5, <1>7, <1>10, <1>11

-----------------------------------------------------------------------------
(* The invariant is kept                                                    *)

LEMMA InitInv == Init => Inv
  <1> SUFFICES ASSUME Init PROVE Inv
    OBVIOUS
  <1>1. TypeOK
    BY TypeInit DEF TypeInv
  <1>2. Linked = {}
    BY DEF Init, Linked
  <1>3. Mutex /\ Nodes
    BY <1>2 DEF Init, Mutex, InCrit, Nodes, Pending
  <1>4. Stamps /\ ListInv
    BY <1>2 DEF Init, Stamps, ListInv, Least
  <1>5. \A t \in Threads : RegInv(t) /\ ExecInv(t)
    BY <1>2 DEF Init, RegInv, ExecInv
  <1> QED BY <1>1, <1>3, <1>4, <1>5 DEF Inv

(* At most one thread is at a time inside a section the mutex guards.       *)
LEMMA Alone ==
  ASSUME Exclusive, Mutex, NEW t \in Threads, NEW u \in Threads, InCrit(t), InCrit(u)
  PROVE  t = u
  BY DEF Exclusive, Mutex

LEMMA MutexNext == TypeOK /\ Mutex /\ [Next]_vars => Mutex'
  <1> SUFFICES ASSUME TypeOK, Mutex, [Next]_vars PROVE Mutex'
    OBVIOUS
  <1> USE NullDistinct DEF Mutex, InCrit, TypeOK
  <1>1. ASSUME NEW t \in Threads, NEW h \in Hooks, RegCall(t, h) PROVE Mutex'
    BY <1>1 DEF RegCall
  <1>2. ASSUME NEW t \in Threads, RegLock(t) PROVE Mutex'
    BY <1>2 DEF RegLock, Acquire
  <1>3. ASSUME NEW t \in Threads, RegFirst(t) PROVE Mutex'
    BY <1>3 DEF RegFirst
  <1>4. ASSUME NEW t \in Threads, RegPush(t) PROVE Mutex'
    BY <1>4 DEF RegPush
  <1>5. ASSUME NEW t \in Threads, RegWalk(t) PROVE Mutex'
    BY <1>5 DEF RegWalk
  <1>6. ASSUME NEW t \in Threads, RegSplice(t) PROVE Mutex'
    BY <1>6 DEF RegSplice
  <1>7. ASSUME NEW t \in Threads, RegUnlock(t) PROVE Mutex'
    BY <1>7 DEF RegUnlock, Release
  <1>8. ASSUME NEW t \in Threads, ExecCall(t) PROVE Mutex'
    BY <1>8 DEF ExecCall
  <1>9. ASSUME NEW t \in Threads, ExecLock(t) PROVE Mutex'
    BY <1>9 DEF ExecLock, Acquire
  <1>10. ASSUME NEW t \in Threads, ExecUnlock(t) PROVE Mutex'
    BY <1>10 DEF ExecUnlock, Release
  <1>11. ASSUME NEW t \in Threads, CallbackReturns(t) PROVE Mutex'
    BY <1>11 DEF CallbackReturns
  <1>12. ASSUME NEW t \in Threads, ExecRelock(t) PROVE Mutex'
    BY <1>12 DEF ExecRelock, Acquire
  <1>13. ASSUME NEW t \in Threads, ExecReturn(t) PROVE Mutex'
    BY <1>13 DEF ExecReturn
  <1>14. ASSUME Free PROVE Mutex'
    BY <1>14 DEF Free
  <1>15. ASSUME UNCHANGED vars PROVE Mutex'
    BY <1>15 DEF vars
  <1> QED
    BY <1>1, <1>2, <1>3, <1>4, <1>5, <1>6, <1>7, <1>8,
       <1>9, <1>10, <1>11, <1>12, <1>13, <1>14, <1>15
    DEF Next, Ended, Registration, Execution

(* The two steps that link a hook.                                          *)
LinkStep(t) == RegPush(t) \/ RegSplice(t)

(* All the others leave the list as it is.                                  *)
LEMMA ListFrame ==
  ASSUME [Next]_vars, \A t \in Threads : ~LinkStep(t)
  PROVE  UNCHANGED list
  BY DEF Next, vars, Registration, Execution, LinkStep, Ended, Free,
         RegCall, RegLock, RegFirst, RegWalk, RegUnlock,
         ExecCall, ExecLock, ExecUnlock, CallbackReturns, ExecRelock, ExecReturn

LEMMA LinkStepNode ==
  ASSUME Inv, NEW t \in Threads, LinkStep(t)
  PROVE  /\ rhook[t] \in Hooks \ Linked /\ rhook[t] \in alive
         /\ Link(rhook[t]) /\ InCrit(t) /\ Pending(t)
         /\ rpc' = [rpc EXCEPT ![t] = "unlock"]
         /\ UNCHANGED <<alive, lock, rhook, rcur, rnext, exec, freed>>
  BY DEF LinkStep, RegPush, RegSplice, Inv, Nodes, Pending, TypeOK, InCrit

LEMMA ListNext == Inv /\ [Next]_vars => ListInv'
  <1> SUFFICES ASSUME Inv, [Next]_vars PROVE ListInv'
    OBVIOUS
  <1> USE DEF Inv
  <1>1. ASSUME NEW t \in Threads, RegPush(t) PROVE ListInv'
    <2>1. /\ rhook[t] \in Hooks \ Linked /\ Link(rhook[t])
          /\ head # NULL => Prio[rhook[t]] < Prio[head]
          /\ head' = rhook[t] /\ next' = [next EXCEPT ![rhook[t]] = head]
      BY <1>1, LinkStepNode DEF LinkStep, RegPush, RegInv
    <2> QED BY <2>1, PushKeepsOrder
  <1>2. ASSUME NEW t \in Threads, RegSplice(t) PROVE ListInv'
    <2> PICK c : c = rcur[t]
      OBVIOUS
    <2>1. /\ rhook[t] \in Hooks \ Linked /\ Link(rhook[t])
          /\ c \in Linked /\ Prio[c] <= Prio[rhook[t]]
          /\ next[c] # NULL => Prio[rhook[t]] < Prio[next[c]]
          /\ head' = head
          /\ next' = [next EXCEPT ![rhook[t]] = next[c], ![c] = rhook[t]]
      BY <1>2, LinkStepNode DEF LinkStep, RegSplice, RegInv
    <2> QED BY <2>1, SpliceKeepsOrder
  <1>3. ASSUME UNCHANGED list PROVE ListInv'
    BY <1>3 DEF ListInv, Least, After, Stamps, Linked, Less
  <1> QED BY <1>1, <1>2, <1>3, ListFrame DEF LinkStep

LEMMA NodesNext == Exclusive /\ Inv /\ [Next]_vars => Nodes'
  <1> SUFFICES ASSUME Exclusive, Inv, [Next]_vars PROVE Nodes'
    OBVIOUS
  <1>1. TypeOK /\ Nodes
    BY DEF Inv
  <1>2. ASSUME NEW t \in Threads, LinkStep(t) PROVE Nodes'
    <2>1. PICK h : h = rhook[t]
      OBVIOUS
    <2>2. /\ h \in Hooks \ Linked /\ h \in alive /\ Link(h) /\ Pending(t)
          /\ rpc' = [rpc EXCEPT ![t] = "unlock"]
          /\ UNCHANGED <<alive, lock, rhook, rcur, rnext, exec, freed>>
      BY <1>2, <2>1, LinkStepNode
    <2>3. Linked' = Linked \cup {h}
      BY <1>1, <2>2, LinkOrder DEF Inv, ListInv
    <2>4. \A u \in Threads : rpc'[u] # "idle" <=> rpc[u] # "idle"
      BY <1>1, <2>2 DEF TypeOK, Pending
    <2>5. ASSUME NEW u \in Threads, Pending(u)' PROVE rhook'[u] \notin Linked'
      BY <1>1, <2>1, <2>2, <2>3, <2>5 DEF Nodes, Pending, TypeOK
    <2> QED BY <1>1, <2>2, <2>3, <2>4, <2>5 DEF Nodes, Pending
  <1>3. ASSUME UNCHANGED list PROVE Nodes'
    <2>0. Linked' = Linked
      BY <1>3 DEF Linked
    <2> USE <1>1, <2>0, NullDistinct DEF Nodes, Pending, TypeOK
    <2>1. ASSUME NEW t \in Threads, NEW h \in Hooks, RegCall(t, h) PROVE Nodes'
      <3>1. rpc[t] = "idle" /\ ~freed /\ h \notin alive /\ h \notin Linked
        BY <2>1 DEF RegCall
      <3>2. /\ rhook'[t] = h /\ rpc'[t] = "lock" /\ alive' = alive \cup {h} /\ freed' = freed
            /\ \A u \in Threads : u # t => rhook'[u] = rhook[u] /\ rpc'[u] = rpc[u]
        BY <2>1 DEF RegCall
      <3> QED BY <3>1, <3>2
    <2>2. ASSUME NEW t \in Threads, RegLock(t) PROVE Nodes'
      BY <2>2 DEF RegLock
    <2>3. ASSUME NEW t \in Threads, RegFirst(t) PROVE Nodes'
      BY <2>3 DEF RegFirst
    <2>4. ASSUME NEW t \in Threads, RegWalk(t) PROVE Nodes'
      BY <2>4 DEF RegWalk
    <2>5. ASSUME NEW t \in Threads, RegUnlock(t) PROVE Nodes'
      BY <2>5 DEF RegUnlock
    <2>6. ASSUME UNCHANGED <<rpc, rhook, alive, freed>> PROVE Nodes'
      BY <2>6
    <2>7. ASSUME Free PROVE Nodes'
      BY <2>7 DEF Free
    <2>8. (\E t \in Threads : ExecCall(t) \/ Execution(t)) \/ Ended \/ UNCHANGED vars
            => UNCHANGED <<rpc, rhook, alive, freed>>
      BY DEF vars, Execution, ExecCall, ExecLock, ExecUnlock, CallbackReturns,
             ExecRelock, ExecReturn, Ended
    <2>9. \/ \E t \in Threads : (\E h \in Hooks : RegCall(t, h)) \/ RegLock(t)
                                  \/ RegFirst(t) \/ RegWalk(t) \/ RegUnlock(t)
          \/ \E t \in Threads : LinkStep(t)
          \/ \E t \in Threads : ExecCall(t) \/ Execution(t)
          \/ Free \/ Ended \/ UNCHANGED vars
      BY DEF Next, Registration, LinkStep
    <2> QED BY <1>2, <2>1, <2>2, <2>3, <2>4, <2>5, <2>6, <2>7, <2>8, <2>9
  <1> QED BY <1>2, <1>3, ListFrame

(* What a thread knows stays true while the list and its own state stay.    *)
LEMMA RegStable ==
  ASSUME NEW u \in Threads, RegInv(u), UNCHANGED list,
         rpc'[u] = rpc[u], rhook'[u] = rhook[u], rcur'[u] = rcur[u], rnext'[u] = rnext[u]
  PROVE  RegInv(u)'
  BY DEF RegInv, Linked

LEMMA RegNext ==
  ASSUME Exclusive, Inv, [Next]_vars, NEW u \in Threads
  PROVE  RegInv(u)'
  <1>1. TypeOK /\ RegInv(u) /\ ListInv /\ Mutex /\ Nodes
    BY DEF Inv
  <1>2. ASSUME NEW t \in Threads, LinkStep(t) PROVE RegInv(u)'
    <2>1. InCrit(t) /\ rpc' = [rpc EXCEPT ![t] = "unlock"]
      BY <1>2, LinkStepNode
    <2>2. u = t \/ rpc[u] \notin {"push", "walk", "splice"}
      BY <1>1, <2>1, Alone DEF InCrit
    <2>3. rpc'[u] \notin {"push", "walk", "splice"}
      BY <1>1, <2>1, <2>2 DEF TypeOK
    <2> QED BY <2>3 DEF RegInv
  <1>3. ASSUME UNCHANGED list PROVE RegInv(u)'
    <2>0. Linked' = Linked
      BY <1>3 DEF Linked
    <2>1. ASSUME UNCHANGED reg PROVE RegInv(u)'
      BY <1>1, <1>3, <2>1, RegStable
    <2>2. ASSUME NEW t \in Threads, (\E h \in Hooks : RegCall(t, h)) \/ RegLock(t) \/ RegUnlock(t)
          PROVE  RegInv(u)'
      <3>1. CASE u = t
        <4>1. rpc'[u] \in {"idle", "lock", "first"}
          BY <1>1, <2>2, <3>1 DEF RegCall, RegLock, RegUnlock, TypeOK
        <4> QED BY <4>1 DEF RegInv
      <3>2. CASE u # t
        BY <1>1, <1>3, <2>2, <3>2, RegStable DEF RegCall, RegLock, RegUnlock, TypeOK
      <3> QED BY <3>1, <3>2
    <2>3. ASSUME NEW t \in Threads, RegFirst(t) PROVE RegInv(u)'
      <3>1. CASE u = t /\ (head = NULL \/ GoesBefore(rhook[t], head))
        <4>1. rpc'[u] = "push" /\ rnext'[u] = head /\ head' = head /\ rhook'[u] = rhook[u]
          BY <1>1, <1>3, <2>3, <3>1 DEF RegFirst, TypeOK
        <4> QED BY <3>1, <4>1 DEF RegInv, GoesBefore
      <3>2. CASE u = t /\ ~(head = NULL \/ GoesBefore(rhook[t], head))
        <4>1. rpc'[u] = "walk" /\ rcur'[u] = head /\ head' = head /\ rhook'[u] = rhook[u]
          BY <1>1, <1>3, <2>3, <3>2 DEF RegFirst, TypeOK
        <4>2. head \in Linked
          BY <1>1, <3>2 DEF ListInv, Least
        <4>3. rhook[u] \in Hooks /\ head \in Hooks
          BY <1>1, <2>3, <3>2, <4>2 DEF Nodes, TypeOK, RegFirst, Linked
        <4>4. Prio[head] <= Prio[rhook[u]]
          BY <3>2, <4>3, PrioType DEF GoesBefore
        <4> QED BY <2>0, <4>1, <4>2, <4>4 DEF RegInv
      <3>3. CASE u # t
        BY <1>1, <1>3, <2>3, <3>3, RegStable DEF RegFirst, TypeOK
      <3> QED BY <3>1, <3>2, <3>3
    <2>4. ASSUME NEW t \in Threads, RegWalk(t) PROVE RegInv(u)'
      <3> PICK n : n = next[rcur[t]]
        OBVIOUS
      <3>1. CASE u = t /\ (n = NULL \/ GoesBefore(rhook[t], n))
        <4>1. /\ rpc[u] = "walk" /\ rpc'[u] = "splice" /\ rnext'[u] = n
              /\ rcur' = rcur /\ next' = next /\ rhook'[u] = rhook[u]
          BY <1>1, <1>3, <2>4, <3>1 DEF RegWalk, TypeOK
        <4> QED BY <1>1, <2>0, <3>1, <4>1 DEF RegInv, GoesBefore
      <3>2. CASE u = t /\ ~(n = NULL \/ GoesBefore(rhook[t], n))
        <4>1. rpc'[u] = "walk" /\ rcur'[u] = n /\ rhook'[u] = rhook[u] /\ rpc[u] = "walk"
          BY <1>1, <1>3, <2>4, <3>2 DEF RegWalk, TypeOK
        <4>2. n \in Linked
          <5>1. rcur[u] \in Linked
            BY <1>1, <4>1 DEF RegInv
          <5> QED BY <1>1, <3>2, <5>1 DEF ListInv, Least, After
        <4>3. rhook[u] \in Hooks /\ n \in Hooks
          BY <1>1, <4>1, <4>2 DEF Nodes, TypeOK, Linked
        <4>4. Prio[n] <= Prio[rhook[u]]
          BY <3>2, <4>3, PrioType DEF GoesBefore
        <4> QED BY <2>0, <4>1, <4>2, <4>4 DEF RegInv
      <3>3. CASE u # t
        BY <1>1, <1>3, <2>4, <3>3, RegStable DEF RegWalk, TypeOK
      <3> QED BY <3>1, <3>2, <3>3
    <2>5. (\E t \in Threads : ExecCall(t) \/ Execution(t)) \/ Free \/ Ended \/ UNCHANGED vars
            => UNCHANGED reg
      BY DEF vars, Execution, ExecCall, ExecLock, ExecUnlock, CallbackReturns,
             ExecRelock, ExecReturn, Ended, Free
    <2> QED BY <1>2, <2>1, <2>2, <2>3, <2>4, <2>5 DEF Next, Registration, LinkStep
  <1> QED BY <1>2, <1>3, ListFrame

(* Hooks already linked keep their order, and new ones do not matter: only  *)
(* the thread itself changes what its execution has done.                   *)
LEMMA ExecStable ==
  ASSUME NEW u \in Threads, ExecInv(u), Linked \subseteq Linked',
         \A a, b \in Linked : Less(a, b)' <=> Less(a, b),
         xpc'[u] = xpc[u], xcur'[u] = xcur[u], called'[u] = called[u], seen'[u] = seen[u]
  PROVE  ExecInv(u)'
  <1> PICK p, c, d, s : p = xpc[u] /\ c = xcur[u] /\ d = called[u] /\ s = seen[u]
    OBVIOUS
  <1>1. p # "idle" /\ c # NULL => c \in Linked
    BY DEF ExecInv
  <1>2. d \subseteq Linked /\ s \subseteq Linked
    BY DEF ExecInv
  <1>3. ASSUME p # "idle", c # NULL
        PROVE  \A h \in d \cup s : Less(h, c)' <=> Less(h, c)
    BY <1>1, <1>2, <1>3
  <1> QED BY <1>1, <1>2, <1>3 DEF ExecInv

LEMMA ExecNext ==
  ASSUME Inv, [Next]_vars, NEW u \in Threads
  PROVE  ExecInv(u)'
  <1>1. TypeOK /\ ExecInv(u) /\ ListInv /\ Stamps
    BY DEF Inv, ListInv
  <1>2. Linked \subseteq Hooks
    BY DEF Linked
  <1>3. ASSUME NEW t \in Threads, LinkStep(t) PROVE ExecInv(u)'
    <2>1. /\ rhook[t] \in Hooks \ Linked /\ Link(rhook[t])
          /\ UNCHANGED <<xpc, xcur, called, seen>>
      BY <1>3, LinkStepNode
    <2> PICK h : h = rhook[t]
      OBVIOUS
    <2>2. Linked \subseteq Linked' /\ \A a, b \in Linked : Less(a, b)' <=> Less(a, b)
      BY <1>1, <2>1, LinkOrder
    <2> QED BY <1>1, <2>1, <2>2, ExecStable
  <1>4. ASSUME UNCHANGED list PROVE ExecInv(u)'
    <2>1. Linked' = Linked /\ \A a, b : Less(a, b)' <=> Less(a, b)
      BY <1>4 DEF Linked, Less
    <2>2. ASSUME xpc'[u] = xpc[u], xcur'[u] = xcur[u], called'[u] = called[u],
                 seen'[u] = seen[u]
          PROVE  ExecInv(u)'
      BY <1>1, <2>1, <2>2, ExecStable
    <2>3. ASSUME NEW t \in Threads, ExecCall(t) PROVE ExecInv(u)'
      <3>1. CASE u = t
        <4>1. /\ xpc[u] = "idle" /\ xpc'[u] = "lock" /\ xcur'[u] = xcur[u]
              /\ called'[u] = called[u] /\ seen'[u] = seen[u]
          BY <1>1, <2>3, <3>1 DEF ExecCall, TypeOK
        <4> QED BY <1>1, <2>1, <4>1 DEF ExecInv
      <3>2. CASE u # t
        BY <1>1, <2>2, <2>3, <3>2 DEF ExecCall, TypeOK
      <3> QED BY <3>1, <3>2
    <2>4. ASSUME NEW t \in Threads, ExecLock(t) PROVE ExecInv(u)'
      <3>1. CASE u = t
        <4>1. xpc'[u] = "unlock" /\ xcur'[u] = head /\ called'[u] = {} /\ seen'[u] = Linked
          BY <1>1, <2>4, <3>1 DEF ExecLock, TypeOK
        <4>2. head # NULL => head \in Linked /\ \A h \in Linked : ~Less(h, head)
          BY <1>1, <1>2, LessOrder DEF ListInv, Least
        <4>3. head = NULL => Linked = {}
          BY <1>1 DEF ListInv, Least
        <4> PICK c : c = head
          OBVIOUS
        <4>4. c # NULL => \A h \in Linked : ~Less(h, c)'
          BY <2>1, <4>2
        <4> QED BY <2>1, <4>1, <4>2, <4>3, <4>4 DEF ExecInv
      <3>2. CASE u # t
        BY <1>1, <2>2, <2>4, <3>2 DEF ExecLock, TypeOK
      <3> QED BY <3>1, <3>2
    <2>5. ASSUME NEW t \in Threads, ExecUnlock(t) PROVE ExecInv(u)'
      <3>1. CASE u = t
        <4>1. /\ xpc[u] = "unlock"
              /\ xpc'[u] = IF xcur[u] = NULL THEN "returned" ELSE "call"
              /\ xcur' = xcur /\ called' = called /\ seen' = seen
          BY <1>1, <2>5, <3>1 DEF ExecUnlock, TypeOK
        <4> QED BY <1>1, <2>1, <4>1 DEF ExecInv
      <3>2. CASE u # t
        BY <1>1, <2>2, <2>5, <3>2 DEF ExecUnlock, TypeOK
      <3> QED BY <3>1, <3>2
    <2>6. ASSUME NEW t \in Threads, CallbackReturns(t) PROVE ExecInv(u)'
      <3>1. CASE u = t
        <4> PICK c : c = xcur[u]
          OBVIOUS
        <4>1. /\ xpc[u] = "call" /\ xpc'[u] \in {"relock", "failed"} /\ xcur'[u] = c
              /\ called'[u] = called[u] \cup {c} /\ seen'[u] = seen[u]
          BY <1>1, <2>6, <3>1 DEF CallbackReturns, TypeOK
        <4>2. /\ c # NULL /\ c \in Linked /\ called[u] \subseteq Linked /\ seen[u] \subseteq Linked
              /\ \A h \in called[u] : Less(h, c)
              /\ \A h \in seen[u] : Less(h, c) => h \in called[u]
          BY <1>1, <4>1 DEF ExecInv
        <4> QED BY <2>1, <4>1, <4>2 DEF ExecInv
      <3>2. CASE u # t
        BY <1>1, <2>2, <2>6, <3>2 DEF CallbackReturns, TypeOK
      <3> QED BY <3>1, <3>2
    <2>7. ASSUME NEW t \in Threads, ExecRelock(t) PROVE ExecInv(u)'
      <3>1. CASE u = t
        <4> PICK c, n : c = xcur[u] /\ n = next[c]
          OBVIOUS
        <4>1. /\ xpc[u] = "relock" /\ xpc'[u] = "unlock" /\ xcur'[u] = n
              /\ called'[u] = called[u] /\ seen'[u] = seen[u]
          BY <1>1, <2>7, <3>1 DEF ExecRelock, TypeOK
        <4>2. /\ c \in Linked /\ called[u] \subseteq Linked /\ seen[u] \subseteq Linked
              /\ \A h \in called[u] : h = c \/ Less(h, c)
              /\ \A h \in seen[u] : h = c \/ Less(h, c) => h \in called[u]
          BY <1>1, <4>1 DEF ExecInv
        <4>3. Least(n, After(c))
          BY <1>1, <4>2 DEF ListInv
        <4>4. CASE n = NULL
          <5>1. \A h \in Linked : ~Less(c, h)
            BY <4>3, <4>4 DEF Least, After
          <5>2. seen[u] \subseteq called[u]
            BY <1>1, <4>2, <5>1, LessOrder
          <5> QED BY <2>1, <4>1, <4>2, <4>4, <5>2 DEF ExecInv
        <4>5. CASE n # NULL
          <5>1. n \in Linked /\ Less(c, n) /\ \A y \in After(c) : y = n \/ Less(n, y)
            BY <4>3, <4>5 DEF Least, After
          <5>2. \A h \in called[u] : Less(h, n)
            BY <1>1, <1>2, <4>2, <5>1, LessOrder
          <5>3. ASSUME NEW h \in seen[u], Less(h, n) PROVE h \in called[u]
            <6>1. h \in Linked /\ h \in Hooks /\ n \in Hooks
              BY <1>2, <4>2, <5>1
            <6>2. ~Less(n, h) /\ h # n
              BY <1>1, <5>3, <6>1, LessOrder
            <6>3. ~Less(c, h)
              BY <5>1, <6>1, <6>2 DEF After
            <6> QED BY <1>1, <4>2, <6>1, <6>3, LessOrder
          <5>4. /\ \A h \in called[u] : Less(h, n)'
                /\ \A h \in seen[u] : Less(h, n)' => h \in called[u]
            BY <2>1, <5>2, <5>3
          <5> QED BY <2>1, <4>1, <4>2, <4>5, <5>1, <5>4 DEF ExecInv
        <4> QED BY <4>4, <4>5
      <3>2. CASE u # t
        BY <1>1, <2>2, <2>7, <3>2 DEF ExecRelock, TypeOK
      <3> QED BY <3>1, <3>2
    <2>8. ASSUME NEW t \in Threads, ExecReturn(t) PROVE ExecInv(u)'
      <3>1. CASE u = t
        <4>1. xpc'[u] = "idle" /\ xcur'[u] = NULL /\ called' = called /\ seen' = seen
          BY <1>1, <2>8, <3>1 DEF ExecReturn, TypeOK
        <4> QED BY <1>1, <2>1, <4>1 DEF ExecInv
      <3>2. CASE u # t
        BY <1>1, <2>2, <2>8, <3>2 DEF ExecReturn, TypeOK
      <3> QED BY <3>1, <3>2
    <2>9. ASSUME NEW t \in Threads, (\E h \in Hooks : RegCall(t, h)) \/ RegLock(t)
                   \/ RegFirst(t) \/ RegWalk(t) \/ RegUnlock(t)
          PROVE  ExecInv(u)'
      BY <2>2, <2>9 DEF RegCall, RegLock, RegFirst, RegWalk, RegUnlock
    <2>10. ASSUME Free \/ Ended \/ UNCHANGED vars PROVE ExecInv(u)'
      BY <2>2, <2>10 DEF Free, Ended, vars
    <2> QED BY <1>3, <2>3, <2>4, <2>5, <2>6, <2>7, <2>8, <2>9, <2>10
        DEF Next, Registration, Execution, LinkStep
  <1> QED BY <1>3, <1>4, ListFrame

LEMMA InvNext == Exclusive /\ Inv /\ [Next]_vars => Inv'
  <1> SUFFICES ASSUME Exclusive, Inv, [Next]_vars PROVE Inv'
    OBVIOUS
  <1>1. TypeInv
    BY DEF Inv, TypeInv, RegInv, ExecInv, Linked
  <1>2. TypeOK' /\ Mutex'
    BY <1>1, TypeNext, MutexNext DEF Inv, TypeInv
  <1> QED BY <1>2, ListNext, NodesNext, RegNext, ExecNext DEF Inv

-----------------------------------------------------------------------------
(* Theorems                                                                 *)

(* The inductive invariant holds wherever the list is used by one thread at *)
(* a time: hook_reg and hook_execute leave it so at each of their steps.    *)
THEOREM Invariance ==
  ASSUME Exclusive
  PROVE  Spec => []Inv
  BY Exclusive, InitInv, InvNext, PTL DEF Spec

(* Hooks run in the order of their priorities, later registrations last     *)
(* among equals, and none twice, whatever callbacks register meanwhile.     *)
THEOREM InOrder ==
  ASSUME Exclusive
  PROVE  Spec => []CalledInOrder
  <1>1. Inv => CalledInOrder
    BY DEF Inv, ExecInv, CalledInOrder
  <1> QED BY <1>1, Invariance, PTL

(* No execution misses a hook that was registered when it began.            *)
THEOREM AllCalled ==
  ASSUME Exclusive
  PROVE  Spec => []CalledAll
  <1>1. Inv => CalledAll
    BY DEF Inv, ExecInv, CalledAll
  <1> QED BY <1>1, Invariance, PTL

(* The list is sorted after every step of every registration.               *)
THEOREM ListSorted ==
  ASSUME Exclusive
  PROVE  Spec => []Sorted
  <1>1. Inv => Sorted
    BY DEF Inv, ListInv, Least, After, Sorted
  <1> QED BY <1>1, Invariance, PTL

-----------------------------------------------------------------------------
(* What following the list comes by                                         *)

(* No set that has head and goes along with next leaves out a linked hook.  *)
AllReached == \A S \in SUBSET Hooks : Closed(S) => Linked \subseteq S

(* next leads from linked hooks to linked hooks.                            *)
LEMMA LinkedClosed ==
  ASSUME TypeOK, ListInv
  PROVE  Closed(Linked) /\ Linked \in SUBSET Hooks
  BY DEF ListInv, Least, After, Closed, Linked

LEMMA ReachedInit == Init => AllReached
  BY DEF Init, AllReached, Linked

LEMMA PushReaches ==
  ASSUME Inv, AllReached, NEW t \in Threads, RegPush(t), NEW S \in SUBSET Hooks, Closed(S)'
  PROVE  Linked' \subseteq S
  <1> PICK h : h = rhook[t]
    OBVIOUS
  <1>1. TypeOK /\ ListInv /\ h \in Hooks \ Linked /\ Link(h) /\ Linked' = Linked \cup {h}
    BY LinkStepNode, LinkOrder DEF LinkStep, Inv, ListInv
  <1>2. rnext[t] = head
    BY DEF Inv, RegInv, RegPush
  <1>3. next' = [next EXCEPT ![h] = head] /\ head' = h
    BY <1>2 DEF RegPush
  <1>4. next'[h] = head /\ \A x \in Linked : next'[x] = next[x]
    BY <1>1, <1>3 DEF TypeOK, Linked
  <1>5. h \in S /\ (head # NULL => head \in S)
    BY <1>1, <1>3, <1>4, NullDistinct DEF Closed
  <1>6. \A x \in S \cap Linked : next[x] # NULL => next[x] \in S
    BY <1>4 DEF Closed
  <1>7. Closed(S \cap Linked)
    BY <1>1, <1>5, <1>6, LinkedClosed DEF Closed
  <1>8. Linked \subseteq S
    BY <1>7 DEF AllReached
  <1> QED BY <1>1, <1>5, <1>8

LEMMA SpliceReaches ==
  ASSUME Inv, AllReached, NEW t \in Threads, RegSplice(t), NEW S \in SUBSET Hooks, Closed(S)'
  PROVE  Linked' \subseteq S
  <1> PICK h, c : h = rhook[t] /\ c = rcur[t]
    OBVIOUS
  <1>1. TypeOK /\ ListInv /\ h \in Hooks \ Linked /\ Link(h) /\ Linked' = Linked \cup {h}
    BY LinkStepNode, LinkOrder DEF LinkStep, Inv, ListInv
  <1>2. rnext[t] = next[c] /\ c \in Linked
    BY DEF Inv, RegInv, RegSplice
  <1>3. next' = [next EXCEPT ![h] = next[c], ![c] = h] /\ head' = head
    BY <1>2 DEF RegSplice
  <1>4. /\ next'[h] = next[c] /\ next'[c] = h
        /\ \A x \in Linked : x # c => next'[x] = next[x]
    BY <1>1, <1>2, <1>3 DEF TypeOK, Linked
  <1>5. head # NULL => head \in S
    BY <1>3 DEF Closed
  <1>6. c \in S => h \in S
    BY <1>1, <1>4, NullDistinct DEF Closed
  <1>7. c \in S /\ next[c] # NULL => next[c] \in S
    BY <1>4, <1>6 DEF Closed
  <1>8. \A x \in S \cap Linked : next[x] # NULL => next[x] \in S
    BY <1>4, <1>7 DEF Closed
  <1>9. Closed(S \cap Linked)
    BY <1>1, <1>5, <1>8, LinkedClosed DEF Closed
  <1>10. Linked \subseteq S
    BY <1>9 DEF AllReached
  <1> QED BY <1>1, <1>2, <1>6, <1>10

LEMMA ReachedNext == Inv /\ AllReached /\ [Next]_vars => AllReached'
  <1> SUFFICES ASSUME Inv, AllReached, [Next]_vars PROVE AllReached'
    OBVIOUS
  <1>1. ASSUME NEW t \in Threads, LinkStep(t) PROVE AllReached'
    BY <1>1, PushReaches, SpliceReaches DEF LinkStep, AllReached
  <1>2. ASSUME UNCHANGED list PROVE AllReached'
    BY <1>2 DEF AllReached, Closed, Linked
  <1> QED BY <1>1, <1>2, ListFrame

(* Every hook whose registration linked it is on the list, and nothing else *)
(* is, whatever callbacks register while an execution is under way.         *)
THEOREM NoneLost ==
  ASSUME Exclusive
  PROVE  Spec => []NoLostHook
  <1>1. Inv /\ AllReached => NoLostHook
    BY LinkedClosed DEF Inv, AllReached, NoLostHook, Reached, Linked
  <1>2. Spec => []AllReached
    BY Invariance, ReachedInit, ReachedNext, Exclusive, PTL DEF Spec
  <1> QED BY <1>1, <1>2, Invariance, PTL

(* What is allocated is on the list, or in a registration under way.        *)
Kept ==
  /\ ~freed => \A h \in alive : h \in Linked \/ \E t \in Threads : Pending(t) /\ rhook[t] = h
  /\ freed => alive = {}

LEMMA KeptInit == Init => Kept
  BY DEF Init, Kept

LEMMA KeptNext == Inv /\ NoLostHook /\ Kept /\ [Next]_vars => Kept'
  <1> SUFFICES ASSUME Inv, NoLostHook, Kept, [Next]_vars PROVE Kept'
    OBVIOUS
  <1>1. TypeOK /\ Nodes
    BY DEF Inv
  <1>2. ASSUME NEW t \in Threads, LinkStep(t) PROVE Kept'
    <2> PICK h : h = rhook[t]
      OBVIOUS
    <2>1. /\ h \in Hooks \ Linked /\ Link(h) /\ rpc' = [rpc EXCEPT ![t] = "unlock"]
          /\ UNCHANGED <<alive, rhook, freed>>
      BY <1>2, LinkStepNode
    <2>2. Linked' = Linked \cup {h}
      BY <1>1, <2>1, LinkOrder DEF Inv, ListInv
    <2>3. \A u \in Threads : u # t => (Pending(u)' <=> Pending(u))
      BY <1>1, <2>1 DEF Pending, TypeOK
    <2> QED BY <2>1, <2>2, <2>3 DEF Kept
  <1>3. ASSUME UNCHANGED list PROVE Kept'
    <2>0. Linked' = Linked
      BY <1>3 DEF Linked
    <2>1. ASSUME NEW t \in Threads, NEW h \in Hooks, RegCall(t, h) PROVE Kept'
      <3>1. rpc[t] = "idle" /\ ~freed /\ alive' = alive \cup {h} /\ freed' = freed
        BY <2>1 DEF RegCall
      <3>2. /\ rhook'[t] = h /\ Pending(t)'
            /\ \A u \in Threads : u # t => rhook'[u] = rhook[u] /\ (Pending(u)' <=> Pending(u))
        BY <1>1, <2>1 DEF RegCall, TypeOK, Pending
      <3>3. ~Pending(t)
        BY <3>1 DEF Pending
      <3> QED BY <2>0, <3>1, <3>2, <3>3 DEF Kept
    <2>2. ASSUME NEW t \in Threads, RegLock(t) \/ RegFirst(t) \/ RegWalk(t) \/ RegUnlock(t)
          PROVE  Kept'
      <3>1. /\ UNCHANGED <<alive, freed>>
            /\ \A u \in Threads : Pending(u) => Pending(u)' /\ rhook'[u] = rhook[u]
        BY <1>1, <2>2 DEF RegLock, RegFirst, RegWalk, RegUnlock, TypeOK, Pending
      <3> QED BY <2>0, <3>1 DEF Kept
    <2>3. ASSUME UNCHANGED <<rpc, rhook, alive, freed>> PROVE Kept'
      BY <2>0, <2>3 DEF Kept, Pending
    <2>4. ASSUME Free PROVE Kept'
      <3>1. alive \subseteq Linked
        BY <2>4 DEF Kept, Free, Pending
      <3> QED BY <2>4, <3>1 DEF Kept, Free, NoLostHook
    <2>5. (\E t \in Threads : ExecCall(t) \/ Execution(t)) \/ Ended \/ UNCHANGED vars
            => UNCHANGED <<rpc, rhook, alive, freed>>
      BY DEF vars, Execution, ExecCall, ExecLock, ExecUnlock, CallbackReturns,
             ExecRelock, ExecReturn, Ended
    <2>6. \/ \E t \in Threads : (\E h \in Hooks : RegCall(t, h)) \/ RegLock(t)
                                  \/ RegFirst(t) \/ RegWalk(t) \/ RegUnlock(t)
          \/ \E t \in Threads : LinkStep(t)
          \/ \E t \in Threads : ExecCall(t) \/ Execution(t)
          \/ Free \/ Ended \/ UNCHANGED vars
      BY DEF Next, Registration, LinkStep
    <2> QED BY <1>2, <2>1, <2>2, <2>3, <2>4, <2>5, <2>6
  <1> QED BY <1>2, <1>3, ListFrame

(* fra_p_hook_free leaves no node behind: each one that was allocated is on *)
(* the list it walks.                                                       *)
THEOREM AllFreed ==
  ASSUME Exclusive
  PROVE  Spec => []NoLeak
  <1>1. Kept => NoLeak
    BY DEF Kept, NoLeak
  <1> QED BY <1>1, Invariance, NoneLost, KeptInit, KeptNext, Exclusive, PTL DEF Spec

-----------------------------------------------------------------------------
(* The list implements HookOrder                                            *)

Runs == [t \in Threads |-> xpc[t] \notin {"idle", "lock"}]

LEMMA FirstIsLeast ==
  ASSUME TypeOK, NEW x, NEW set, set \subseteq Linked, Least(x, set)
  PROVE  x \in Hooks \cup {NULL} /\ Order!IsFirst(x, set)
  BY DEF Least, Order!IsFirst, Less, Order!Before, Linked

LEMMA OrderInit == Init => Order!Init
  BY DEF Init, Order!Init

LEMMA OrderNext ==
  ASSUME Exclusive, Inv, [Next]_vars
  PROVE  [Order!Next]_(Order!orderVars)
  <1>1. TypeOK /\ Stamps /\ ListInv
    BY DEF Inv, ListInv
  <1>2. Order!Registered = Linked
    BY DEF Order!Registered, Linked
  <1> DEFINE goal == Order!Next \/ UNCHANGED Order!orderVars
  <1>3. ASSUME NEW t \in Threads, LinkStep(t) PROVE goal
    <2> PICK h : h = rhook[t]
      OBVIOUS
    <2>1. h \in Hooks \ Linked /\ Link(h) /\ UNCHANGED <<xpc, xcur>>
      BY <1>3, LinkStepNode
    <2>2. turn \in Nat /\ stamp' = [stamp EXCEPT ![h] = turn + 1] /\ turn + 1 \in Nat
      BY <1>1, <2>1 DEF Link, TypeOK
    <2>3. stamp[h] = 0 /\ stamp'[h] = turn + 1
      BY <1>1, <2>1, <2>2 DEF TypeOK, Linked
    <2>4. \A x \in Linked \cup {h} : stamp[x] < turn + 1
      BY <1>1, <2>1, <2>2, <2>3 DEF Stamps, TypeOK, Linked
    <2>5. Order!Register(h)
      BY <1>2, <2>1, <2>2, <2>3, <2>4 DEF Order!Register
    <2> QED BY <2>1, <2>5 DEF Order!Next
  <1>4. ASSUME NEW t \in Threads, ExecLock(t) PROVE goal
    <2>1. /\ xpc[t] = "lock" /\ xcur' = [xcur EXCEPT ![t] = head]
          /\ xpc' = [xpc EXCEPT ![t] = "unlock"] /\ stamp' = stamp
      BY <1>4 DEF ExecLock
    <2>2. ~Runs[t] /\ Runs' = [Runs EXCEPT ![t] = TRUE]
      BY <1>1, <2>1 DEF Runs, TypeOK
    <2>3. head \in Hooks \cup {NULL} /\ Order!IsFirst(head, Linked)
      BY <1>1, FirstIsLeast DEF ListInv
    <2>4. Order!Start(t)
      BY <1>2, <2>1, <2>2, <2>3 DEF Order!Start, Runs
    <2> QED BY <2>4 DEF Order!Next
  <1>5. ASSUME NEW t \in Threads, ExecRelock(t) PROVE goal
    <2> PICK c, n : c = xcur[t] /\ n = next[c]
      OBVIOUS
    <2>1. /\ xpc[t] = "relock" /\ xcur' = [xcur EXCEPT ![t] = n]
          /\ xpc' = [xpc EXCEPT ![t] = "unlock"] /\ stamp' = stamp
      BY <1>5 DEF ExecRelock
    <2>2. Runs[t] /\ Runs' = Runs
      BY <1>1, <2>1 DEF Runs, TypeOK
    <2>3. c # NULL /\ c \in Linked
      BY <2>1 DEF Inv, ExecInv
    <2>4. Least(n, After(c)) /\ After(c) \subseteq Linked
      BY <1>1, <2>3 DEF ListInv, After
    <2>5. n \in Hooks \cup {NULL} /\ Order!IsFirst(n, After(c))
      BY <1>1, <2>4, FirstIsLeast
    <2>6. After(c) = {y \in Order!Registered : Order!Before(c, y)}
      BY <1>2 DEF After, Less, Order!Before
    <2>7. Order!Advance(t)
      BY <2>1, <2>2, <2>3, <2>5, <2>6 DEF Order!Advance, Runs
    <2> QED BY <2>7 DEF Order!Next
  <1>6. ASSUME NEW t \in Threads, ExecReturn(t) PROVE goal
    <2>1. /\ xpc[t] \in {"returned", "failed"} /\ xcur' = [xcur EXCEPT ![t] = NULL]
          /\ xpc' = [xpc EXCEPT ![t] = "idle"] /\ stamp' = stamp
      BY <1>6 DEF ExecReturn
    <2>2. Runs[t] /\ Runs' = [Runs EXCEPT ![t] = FALSE]
      BY <1>1, <2>1 DEF Runs, TypeOK
    <2> QED BY <2>1, <2>2 DEF Order!Return, Order!Next, Runs
  <1>7. ASSUME stamp' = stamp, Runs' = Runs, xcur' = xcur PROVE goal
    BY <1>7 DEF Order!orderVars, Runs
  <1>8. ASSUME NEW t \in Threads, ExecCall(t) \/ ExecUnlock(t) \/ CallbackReturns(t)
        PROVE  Runs' = Runs /\ stamp' = stamp /\ xcur' = xcur
    BY <1>1, <1>8 DEF Runs, TypeOK, ExecCall, ExecUnlock, CallbackReturns
  <1>9. ASSUME NEW t \in Threads, (\E h \in Hooks : RegCall(t, h)) \/ RegLock(t)
                 \/ RegFirst(t) \/ RegWalk(t) \/ RegUnlock(t)
        PROVE  Runs' = Runs /\ stamp' = stamp /\ xcur' = xcur
    BY <1>9 DEF Runs, RegCall, RegLock, RegFirst, RegWalk, RegUnlock
  <1>10. ASSUME Free \/ Ended \/ UNCHANGED vars
         PROVE  Runs' = Runs /\ stamp' = stamp /\ xcur' = xcur
    BY <1>10 DEF Runs, Free, Ended, vars
  <1>11. goal
    BY <1>3, <1>4, <1>5, <1>6, <1>7, <1>8, <1>9, <1>10
    DEF Next, Registration, Execution, LinkStep
  <1> QED BY <1>11

(* What include/fra/core.h promises of the order of hooks is what the       *)
(* pointer work of hook.c implements, callbacks that register included.     *)
THEOREM Implements ==
  ASSUME Exclusive
  PROVE  Spec => OrderSpec
  <1>1. Inv /\ [Next]_vars => [Order!Next]_(Order!orderVars)
    BY Exclusive, OrderNext
  <1> QED BY Invariance, OrderInit, <1>1, Exclusive, PTL DEF Spec, OrderSpec, Order!Spec

=============================================================================
