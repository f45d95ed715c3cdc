----------------------------- MODULE PollProofs -----------------------------
(***************************************************************************)
(* Theorems about Poll, for any threads, descriptors, calls and failures.  *)
(***************************************************************************)
EXTENDS Poll, TLAPS

USE DEF arrays, loop

-----------------------------------------------------------------------------
(* Who holds main_poll_lock.  A thread keeps it when fra_glob_poll returns  *)
(* because of a stop, so that holding is implied by, and does not imply,    *)
(* being inside a section.                                                  *)
Inside(t) == InRound(t) \/ npc[t] \in {"add", "add_unlock"}

(* A call from a callback never gets the lock, which its own thread holds.  *)
Nested(t) ==
  /\ npc[t] # "none" => pc[t] \in {"idle", "called"}
  /\ npc[t] \in {"add", "add_unlock"} \/ (Safe /\ npc[t] = "stop") => pc[t] = "idle"

Pcs  == {"idle", "lock", "poll", "scan", "callback", "called", "check", "relock"}
Npcs == {"none", "add_lock", "add", "add_unlock", "stop_lock", "stop"}

Guarded ==
  /\ pc \in [Threads -> Pcs] /\ npc \in [Threads -> Npcs]
  /\ \A t \in Threads : Inside(t) => lock = t
  /\ Safe => \A t \in Threads : npc[t] = "stop" => lock = t
  /\ \A t \in Threads : Nested(t)

LEMMA GuardedInit == Init => Guarded
  BY DEF Init, Guarded, Inside, InRound, Dispatching, Nested, Pcs, Npcs

LEMMA GuardedNext == Guarded /\ [Next]_vars => Guarded'
  <1> SUFFICES ASSUME Guarded, [Next]_vars PROVE Guarded'
    OBVIOUS
  <1> USE NullDistinct
      DEF Guarded, Inside, InRound, Dispatching, Nested, Take, Give, Pcs, Npcs
  <1>1. ASSUME NEW t \in Threads, PollCall(t) PROVE Guarded'
    BY <1>1 DEF PollCall
  <1>2. ASSUME NEW t \in Threads, PollLock(t) PROVE Guarded'
    BY <1>2 DEF PollLock
  <1>3. ASSUME NEW t \in Threads, PollReturns(t) PROVE Guarded'
    BY <1>3 DEF PollReturns
  <1>4. ASSUME NEW t \in Threads, PollFails(t) PROVE Guarded'
    BY <1>4 DEF PollFails
  <1>5. ASSUME NEW t \in Threads, Scan(t) PROVE Guarded'
    BY <1>5 DEF Scan
  <1>6. ASSUME NEW t \in Threads, CallbackReturns(t) PROVE Guarded'
    BY <1>6 DEF CallbackReturns
  <1>7. ASSUME NEW t \in Threads, StopCheck(t) PROVE Guarded'
    BY <1>7 DEF StopCheck
  <1>8. ASSUME NEW t \in Threads, Relock(t) PROVE Guarded'
    BY <1>8 DEF Relock
  <1>9. ASSUME NEW t \in Threads, NEW f \in Fds, AddCall(t, f) PROVE Guarded'
    BY <1>9 DEF AddCall, Enter
  <1>10. ASSUME NEW t \in Threads, AddLock(t) PROVE Guarded'
    BY <1>10 DEF AddLock
  <1>11. ASSUME NEW t \in Threads, Add(t) PROVE Guarded'
    BY <1>11 DEF Add
  <1>12. ASSUME NEW t \in Threads, AddUnlock(t) PROVE Guarded'
    BY <1>12 DEF AddUnlock
  <1>13. ASSUME NEW t \in Threads, StopCall(t) PROVE Guarded'
    BY <1>13 DEF StopCall, Enter
  <1>14. ASSUME NEW t \in Threads, StopLock(t) PROVE Guarded'
    BY <1>14 DEF StopLock
  <1>15. ASSUME NEW t \in Threads, StopSet(t) PROVE Guarded'
    BY <1>15 DEF StopSet
  <1>16. ASSUME UNCHANGED vars PROVE Guarded'
    BY <1>16 DEF vars
  <1> QED
    BY <1>1, <1>2, <1>3, <1>4, <1>5, <1>6, <1>7, <1>8, <1>9,
       <1>10, <1>11, <1>12, <1>13, <1>14, <1>15, <1>16
    DEF Next, LoopStep, CallStep

(* One thread at a time polls and calls callbacks, whatever the others call.*)
THEOREM Serialised == Spec => []OneDispatcher
  <1>1. Guarded => OneDispatcher
    BY NullDistinct DEF Guarded, Inside, OneDispatcher
  <1> QED BY GuardedInit, GuardedNext, <1>1, PTL DEF Spec

(* The arrays do not change, and so do not move, during a round.            *)
THEOREM Stable == Spec => RoundStable
  <1>1. ASSUME Guarded, [Next]_vars, NEW t \in Threads, InRound(t)
        PROVE  UNCHANGED arrays
    <2>1. ASSUME NEW u \in Threads, Add(u) PROVE FALSE
      <3>1. npc[u] = "add" /\ lock = u /\ lock = t
        BY <1>1, <2>1 DEF Add, Guarded, Inside
      <3> QED BY <1>1, <3>1 DEF Guarded, Nested, InRound, Dispatching
    <2> QED
      BY <1>1, <2>1
      DEF Next, vars, LoopStep, CallStep, PollCall, PollLock, PollReturns, PollFails, Scan,
          CallbackReturns, StopCheck, Relock, AddCall, AddLock, AddUnlock, StopCall,
          StopLock, StopSet
  <1>2. Guarded /\ [Next]_vars => [(\E t \in Threads : InRound(t)) => UNCHANGED arrays]_vars
    BY <1>1
  <1> QED BY GuardedInit, GuardedNext, <1>2, PTL DEF Spec, RoundStable

-----------------------------------------------------------------------------
(* The arrays: Len(table) and the two sizes only change in fd_add.          *)
Sizes == table \in Seq(Fds) /\ max \in Nat /\ room \in Nat /\ bytes \in Nat /\ SlotFree

LEMMA GrownMaxType == ASSUME max \in Nat PROVE GrownMax \in Nat
  <1>1. max * Growth \in Nat
    BY SizeType
  <1> QED BY <1>1 DEF GrownMax

(* main_poll_maybe_grow leaves a slot, or has returned -1.                  *)
LEMMA GrowLeavesSlot ==
  ASSUME Sizes
  PROVE  /\ CanGrow /\ GrowDone => max' \in Nat /\ room' \in Nat /\ bytes' \in Nat
                                     /\ Len(table) + 1 < max' /\ max' <= room'
         /\ GrowFails => max' \in Nat /\ room' \in Nat /\ bytes' \in Nat
                           /\ Len(table) < max' /\ max' <= room'
  <1> PICK g : g = GrownMax
    OBVIOUS
  <1>1. g \in Nat /\ Len(table) \in Nat
    BY GrownMaxType DEF Sizes
  <1>2. ASSUME CanGrow, GrowDone, MustGrow
        PROVE  /\ max' = g /\ room' = g /\ bytes' = g * SizeofPollfd
               /\ g > max /\ Len(table) = max - 1
    BY <1>2 DEF CanGrow, GrowDone, MustGrow
  <1>3. g * SizeofPollfd \in Nat
    BY <1>1 DEF SizeofPollfd
  <1>4. ASSUME CanGrow, GrowDone, ~MustGrow
        PROVE  /\ UNCHANGED <<max, room, bytes>> /\ Len(table) # max - 1
    BY <1>4 DEF GrowDone, MustGrow
  <1>5. ASSUME GrowFails
        PROVE  /\ max' = max /\ bytes' = bytes
               /\ room' = room \/ (room' = g /\ g > max)
    BY <1>5 DEF GrowFails, CanGrow
  <1>6. ASSUME CanGrow, GrowDone
        PROVE  max' \in Nat /\ room' \in Nat /\ bytes' \in Nat
                 /\ Len(table) + 1 < max' /\ max' <= room'
    <2>1. CASE MustGrow
      BY <1>1, <1>2, <1>3, <1>6, <2>1 DEF Sizes
    <2>2. CASE ~MustGrow
      BY <1>1, <1>4, <1>6, <2>2 DEF Sizes, SlotFree
    <2> QED BY <2>1, <2>2
  <1>7. ASSUME GrowFails
        PROVE  max' \in Nat /\ room' \in Nat /\ bytes' \in Nat
                 /\ Len(table) < max' /\ max' <= room'
    BY <1>1, <1>5, <1>7 DEF Sizes, SlotFree
  <1> QED BY <1>6, <1>7

LEMMA SizesInit == Init => Sizes
  BY FdType, SizeType DEF Init, Sizes, SlotFree, SizeofInt

LEMMA SizesNext == Sizes /\ fd \in [Threads -> Fds] /\ [Next]_vars => Sizes'
  <1> SUFFICES ASSUME Sizes, fd \in [Threads -> Fds], [Next]_vars PROVE Sizes'
    OBVIOUS
  <1>1. ASSUME NEW t \in Threads, Add(t) PROVE Sizes'
    <2>1. CASE CanGrow /\ GrowDone /\ table' = Append(table, fd[t])
      <3>1. /\ max' \in Nat /\ room' \in Nat /\ bytes' \in Nat
            /\ Len(table) + 1 < max' /\ max' <= room'
        BY <2>1, GrowLeavesSlot
      <3>2. table' \in Seq(Fds) /\ Len(table') = Len(table) + 1
        BY <2>1 DEF Sizes
      <3> QED BY <3>1, <3>2 DEF Sizes, SlotFree
    <2>2. CASE GrowFails /\ UNCHANGED table
      BY <2>2, GrowLeavesSlot DEF Sizes, SlotFree
    <2> QED BY <1>1, <2>1, <2>2 DEF Add, Written
  <1>2. CASE \A t \in Threads : ~Add(t)
    <2>1. UNCHANGED arrays
      BY <1>2
      DEF Next, vars, LoopStep, CallStep, PollCall, PollLock, PollReturns, PollFails, Scan,
          CallbackReturns, StopCheck, Relock, AddCall, AddLock, AddUnlock, StopCall,
          StopLock, StopSet
    <2> QED BY <2>1 DEF Sizes, SlotFree
  <1> QED BY <1>1, <1>2

LEMMA FdNext == fd \in [Threads -> Fds] /\ [Next]_vars => (fd \in [Threads -> Fds])'
  BY DEF Next, vars, LoopStep, CallStep, PollCall, PollLock, PollReturns, PollFails, Scan,
         CallbackReturns, StopCheck, Relock, AddCall, Add, AddLock, AddUnlock, StopCall,
         StopLock, StopSet

(* There is always a slot, and memory of main_poll for it, also after a     *)
(* realloc that failed: the check at poll.c:55 never fires.                 *)
THEOREM SlotAlwaysFree == Spec => []SlotFree
  <1>1. Init => fd \in [Threads -> Fds]
    BY FdType DEF Init
  <1>2. Sizes => SlotFree
    BY DEF Sizes
  <1> QED BY SizesInit, SizesNext, FdNext, <1>1, <1>2, PTL DEF Spec

-----------------------------------------------------------------------------
(* The variables of the loop.                                               *)
LoopTypes ==
  /\ i \in [Threads -> Nat] /\ revents \subseteq Nat /\ ran \subseteq Nat
  /\ should_stop \in BOOLEAN /\ lock \in Threads \cup {NULL}

LEMMA LoopTypesNext == LoopTypes /\ [Next]_vars => LoopTypes'
  <1> SUFFICES ASSUME LoopTypes, [Next]_vars PROVE LoopTypes'
    OBVIOUS
  <1> USE DEF LoopTypes, Take, Give
  <1>1. ASSUME NEW t \in Threads, PollReturns(t) PROVE LoopTypes'
    <2>1. 1 .. Len(table) \subseteq Nat
      OBVIOUS
    <2> QED BY <1>1, <2>1 DEF PollReturns
  <1>2. ASSUME NEW t \in Threads, Scan(t) PROVE LoopTypes'
    <2>1. i' = i \/ i' = [i EXCEPT ![t] = i[t] + 1]
      BY <1>2 DEF Scan
    <2>2. i' \in [Threads -> Nat]
      BY <2>1
    <2> QED BY <1>2, <2>2 DEF Scan
  <1>3. ASSUME NEW t \in Threads, CallbackReturns(t) PROVE LoopTypes'
    <2>1. i' = [i EXCEPT ![t] = i[t] + 1]
      BY <1>3 DEF CallbackReturns
    <2>2. i' \in [Threads -> Nat]
      BY <2>1
    <2> QED BY <1>3, <2>2 DEF CallbackReturns
  <1>4. ASSUME NEW t \in Threads, PollLock(t) \/ Relock(t) \/ PollFails(t) \/ StopCheck(t)
        PROVE  LoopTypes'
    BY <1>4 DEF PollLock, Relock, PollFails, StopCheck
  <1>5. ASSUME NEW t \in Threads, AddLock(t) \/ Add(t) \/ AddUnlock(t) \/ StopLock(t) \/ StopSet(t)
        PROVE  LoopTypes'
    BY <1>5 DEF AddLock, Add, AddUnlock, StopLock, StopSet
  <1>6. ASSUME NEW t \in Threads, PollCall(t) \/ StopCall(t) \/ \E f \in Fds : AddCall(t, f)
        PROVE  LoopTypes'
    BY <1>6 DEF PollCall, StopCall, AddCall
  <1>7. ASSUME UNCHANGED vars PROVE LoopTypes'
    BY <1>7 DEF vars
  <1> QED
    BY <1>1, <1>2, <1>3, <1>4, <1>5, <1>6, <1>7 DEF Next, LoopStep, CallStep

-----------------------------------------------------------------------------
(* How far a round has got: the callbacks of the entries before i have run, *)
(* no others, and all events are of entries of the table.                   *)
Progress ==
  \A t \in Threads : Dispatching(t) =>
    /\ revents \subseteq 1 .. Len(table) /\ i[t] \in Nat
    /\ pc[t] # "check" => ran = {j \in revents : j < i[t]}
    /\ pc[t] \in {"callback", "called"} => i[t] \in revents
    /\ pc[t] = "check" => ran = revents

(* A step of one thread does not touch the round of another.                *)
LEMMA RoundOfOthers ==
  ASSUME Guarded, Guarded', LoopTypes, [Next]_vars, NEW t \in Threads, Dispatching(t)', pc'[t] = pc[t]
  PROVE  \/ UNCHANGED <<table, revents, ran>> /\ i'[t] = i[t]
         \/ Scan(t)
  <1>1. Dispatching(t) /\ lock = t
    BY DEF Dispatching, Guarded, Inside, InRound
  <1>2. ASSUME NEW u \in Threads, Add(u) PROVE FALSE
    <2>1. npc[u] = "add" /\ lock = u
      BY <1>2 DEF Add, Guarded, Inside
    <2> QED BY <1>1, <2>1 DEF Guarded, Nested, Dispatching
  <1>3. ASSUME NEW u \in Threads, PollReturns(u) PROVE FALSE
    <2>1. pc[u] = "poll" /\ lock = u
      BY <1>3 DEF PollReturns, Guarded, Inside, InRound
    <2> QED BY <1>1, <2>1 DEF Dispatching
  <1>4. ASSUME NEW u \in Threads, Scan(u), u # t PROVE FALSE
    <2>1. lock = u
      BY <1>4 DEF Scan, Guarded, Inside, InRound, Dispatching
    <2> QED BY <1>1, <1>4, <2>1
  <1>5. ASSUME NEW u \in Threads, CallbackReturns(u) PROVE FALSE
    <2>1. lock = u
      BY <1>5 DEF CallbackReturns, Guarded, Inside, InRound, Dispatching
    <2>2. pc'[t] = "scan" /\ pc[t] \in {"callback", "called"}
      BY <1>1, <1>5, <2>1 DEF CallbackReturns, Guarded
    <2> QED BY <2>2
  <1> QED
    BY <1>2, <1>3, <1>4, <1>5
    DEF Next, vars, LoopStep, CallStep, PollCall, PollLock, PollFails, StopCheck, Relock,
        AddCall, AddLock, AddUnlock, StopCall, StopLock, StopSet

(* The entries before the next one.                                         *)
LEMMA Before ==
  ASSUME NEW n \in Nat, NEW R \in SUBSET (1 .. n), NEW k \in Nat
  PROVE  /\ k > n => {j \in R : j < k} = R
         /\ k \notin R => {j \in R : j < k} = {j \in R : j < k + 1}
         /\ k \in R => {j \in R : j < k} \cup {k} = {j \in R : j < k + 1}
  <1>1. \A j \in R : j \in Nat /\ j <= n
    OBVIOUS
  <1>2. ASSUME k > n PROVE {j \in R : j < k} = R
    <2>1. \A j \in R : j < k
      BY <1>1, <1>2
    <2> QED BY <2>1
  <1>3. \A j \in R : j < k + 1 <=> j < k \/ j = k
    BY <1>1
  <1> QED BY <1>2, <1>3

LEMMA ProgressNext ==
  ASSUME Guarded, Guarded', Sizes, LoopTypes, Progress, [Next]_vars
  PROVE  Progress'
  <1> SUFFICES ASSUME NEW t \in Threads, Dispatching(t)'
               PROVE  /\ revents' \subseteq 1 .. Len(table') /\ i'[t] \in Nat
                      /\ pc'[t] # "check" => ran' = {j \in revents' : j < i'[t]}
                      /\ pc'[t] \in {"callback", "called"} => i'[t] \in revents'
                      /\ pc'[t] = "check" => ran' = revents'
    BY DEF Progress
  <1> Len(table) \in Nat
    BY DEF Sizes
  <1>1. CASE PollReturns(t)
    <2>1. revents' \in SUBSET (1 .. Len(table)) /\ ran' = {} /\ i'[t] = 1 /\ pc'[t] = "scan" /\ table' = table
      BY <1>1 DEF PollReturns, LoopTypes, Guarded
    <2>2. {j \in revents' : j < 1} = {}
      BY <2>1
    <2> QED BY <2>1, <2>2
  <1>2. CASE Scan(t)
    <2>1. /\ revents \subseteq 1 .. Len(table) /\ i[t] \in Nat /\ ran = {j \in revents : j < i[t]}
          /\ UNCHANGED <<table, revents, ran>>
      BY <1>2 DEF Scan, Progress, Dispatching
    <2>2. \/ i[t] > Len(table) /\ pc'[t] = "check" /\ i'[t] = i[t]
          \/ i[t] \in revents /\ pc'[t] = "callback" /\ i'[t] = i[t]
          \/ i[t] \notin revents /\ i'[t] = i[t] + 1 /\ pc'[t] = "scan"
      BY <1>2, <2>1 DEF Scan, LoopTypes, Guarded
    <2>3. i[t] > Len(table) => {j \in revents : j < i[t]} = revents
      BY <2>1, Before
    <2>4. i[t] \notin revents => {j \in revents : j < i[t]} = {j \in revents : j < i[t] + 1}
      BY <2>1, Before
    <2> QED BY <2>1, <2>2, <2>3, <2>4
  <1>3. CASE CallbackReturns(t)
    <2>1. /\ revents \subseteq 1 .. Len(table) /\ i[t] \in revents /\ ran = {j \in revents : j < i[t]}
          /\ UNCHANGED <<table, revents>> /\ ran' = ran \cup {i[t]}
      BY <1>3 DEF CallbackReturns, Progress, Dispatching
    <2>2. i'[t] = i[t] + 1 /\ pc'[t] = "scan" /\ i[t] \in Nat
      BY <1>3 DEF CallbackReturns, LoopTypes, Guarded
    <2>3. {j \in revents : j < i[t]} \cup {i[t]} = {j \in revents : j < i[t] + 1}
      BY <2>1, <2>2, Before
    <2> QED BY <2>1, <2>2, <2>3
  <1>4. CASE \E f \in {"add", "stop"}, s \in {"add_lock", "stop_lock"} :
               Enter(t, f, s) /\ pc[t] = "callback" /\ UNCHANGED <<arrays, i, revents, ran>>
    BY <1>4 DEF Enter, Progress, Dispatching, Guarded
  <1>5. CASE pc'[t] = pc[t] /\ ~Scan(t)
    <2>1. UNCHANGED <<table, revents, ran>> /\ i'[t] = i[t] /\ Dispatching(t)
      BY <1>5, RoundOfOthers DEF Dispatching
    <2> QED BY <1>5, <2>1 DEF Progress
  <1>6. ASSUME pc'[t] # pc[t]
        PROVE  \/ PollReturns(t) \/ Scan(t) \/ CallbackReturns(t)
               \/ \E f \in {"add", "stop"}, s \in {"add_lock", "stop_lock"} :
                    Enter(t, f, s) /\ pc[t] = "callback" /\ UNCHANGED <<arrays, i, revents, ran>>
    BY <1>6
    DEF Next, vars, LoopStep, CallStep, PollCall, PollLock, PollReturns, PollFails, Scan,
        CallbackReturns, StopCheck, Relock, AddCall, Add, AddLock, AddUnlock, StopCall,
        StopLock, StopSet, Enter, Guarded, Dispatching
  <1> QED BY <1>1, <1>2, <1>3, <1>4, <1>5, <1>6

LEMMA LoopTypesInit == Init => LoopTypes
  <1> SUFFICES ASSUME Init PROVE LoopTypes
    OBVIOUS
  <1>1. i \in [Threads -> Nat]
    BY DEF Init
  <1>2. should_stop \in BOOLEAN /\ lock \in Threads \cup {NULL}
    BY DEF Init
  <1> QED BY <1>1, <1>2 DEF Init, LoopTypes

(* A round calls the callbacks of exactly the entries that have events,     *)
(* whatever other threads, or the callbacks, call meanwhile (poll.c:233).   *)
THEOREM AllServed == Spec => []RoundServesAll
  <1>1. Init => Progress /\ fd \in [Threads -> Fds]
    BY FdType DEF Init, Progress, Dispatching
  <1>2. Progress => RoundServesAll
    BY DEF Progress, RoundServesAll, Dispatching
  <1>3. /\ Guarded /\ Guarded' /\ Sizes /\ LoopTypes /\ Progress /\ [Next]_vars
        => Progress'
    BY ProgressNext
  <1> QED BY GuardedInit, GuardedNext, SizesInit, SizesNext, FdNext, LoopTypesInit, LoopTypesNext,
             <1>1, <1>2, <1>3, PTL DEF Spec

(* Every variable of the poll loop keeps its type.                          *)
THEOREM Typing == Spec => []TypeOK
  <1>1. Init => fd \in [Threads -> Fds]
    BY FdType DEF Init
  <1>2. Sizes /\ LoopTypes /\ Guarded /\ fd \in [Threads -> Fds] => TypeOK
    BY DEF Sizes, LoopTypes, Guarded, Pcs, Npcs, TypeOK
  <1> QED BY GuardedInit, GuardedNext, SizesInit, SizesNext, FdNext, LoopTypesInit, LoopTypesNext,
             <1>1, <1>2, PTL DEF Spec

=============================================================================
