-------------------------------- MODULE Poll --------------------------------
(***************************************************************************)
(* The poll loop of src/poll.c: fra_glob_poll, fd_add (fra_glob_fd_add and *)
(* fra_req_fd_add) and fra_glob_poll_stop, called by several threads, and  *)
(* by the callbacks that fra_glob_poll itself calls.                       *)
(*                                                                         *)
(* main_poll_lock is a default, not recursive, mutex.  fd_add and          *)
(* fra_glob_poll always lock it; fra_glob_poll_stop only if fra_p_pthreads *)
(* is set, which is Safe here.  The poll loop keeps it while it waits in   *)
(* poll( -1 ) and while it calls the callbacks.                            *)
(*                                                                         *)
(* An entry of main_poll and callbacks is its file descriptor; revents of  *)
(* the entries is the set of indices with an event that was asked for.     *)
(***************************************************************************)
EXTENDS Integers, Sequences

CONSTANTS
  Threads, NULL,
  Fds,            \* descriptors to add; Fd0, the FastCGI socket, is one
  Fd0,
  Calls,          \* functions a thread calls: "poll", "add", "stop"
  CallbackCalls,  \* functions a callback calls
  Safe,           \* fra_p_pthreads
  MayFail,        \* "poll", "main_poll", "callbacks": what may fail
  InitialSize,    \* FRA_CORE_DYNAMIC_ARRAYS_INITIAL_SIZE, 10
  Growth,         \* FRA_CORE_DYNAMIC_ARRAYS_GROWTH_FACTOR * 1000, 1618
  MaxLen          \* bound: no descriptor is added beyond this length

ASSUME NullDistinct == NULL \notin Threads
ASSUME FdType == Fd0 \in Fds
ASSUME CallsType ==
  /\ Calls \in [Threads -> SUBSET {"poll", "add", "stop"}]
  /\ CallbackCalls \subseteq {"add", "stop"} /\ Safe \in BOOLEAN
ASSUME SizeType == InitialSize \in Nat /\ InitialSize >= 2 /\ Growth \in Nat /\ MaxLen \in Nat

VARIABLES
  table,      \* main_poll and callbacks, up to main_poll_len
  max,        \* main_poll_max_len
  room,       \* pollfds main_poll has memory for
  bytes,      \* bytes callbacks has memory for
  revents,    \* indices with an event
  should_stop,
  lock,       \* the thread that holds main_poll_lock, or NULL
  pc, i,      \* fra_glob_poll: where a thread is, and its i
  npc, fd,    \* fd_add and fra_glob_poll_stop: the same, and fd
  ran         \* history: indices whose callback ran in this round

arrays == <<table, max, room, bytes>>
loop   == <<pc, i, revents, ran>>
vars   == <<arrays, should_stop, lock, loop, npc, fd>>

SizeofInt == 4
SizeofPollfd == 8
SizeofCallback == 16

(* What fra_p_poll_init leaves.                                             *)
Init ==
  /\ table = <<Fd0>> /\ max = InitialSize /\ room = InitialSize
  /\ bytes = InitialSize * SizeofInt
  /\ revents = {} /\ should_stop = FALSE /\ lock = NULL
  /\ pc = [t \in Threads |-> "idle"] /\ i = [t \in Threads |-> 0]
  /\ npc = [t \in Threads |-> "none"] /\ fd = [t \in Threads |-> Fd0]
  /\ ran = {}

(* The operators whose names begin with Faulty are the code with a mistake  *)
(* in it; no specification uses them.                                       *)

FaultyTake(t) == UNCHANGED lock
Take(t) == lock = NULL /\ lock' = t
Give    == lock' = NULL

-----------------------------------------------------------------------------
(* fra_glob_poll                                                            *)

PollCall(t) ==
  /\ pc[t] = "idle" /\ npc[t] = "none" /\ "poll" \in Calls[t]
  /\ pc' = [pc EXCEPT ![t] = "lock"]
  /\ UNCHANGED <<arrays, should_stop, lock, i, revents, ran, npc, fd>>

PollLock(t) ==
  /\ pc[t] = "lock" /\ Take(t)
  /\ should_stop' = FALSE
  /\ pc' = [pc EXCEPT ![t] = "poll"]
  /\ UNCHANGED <<arrays, i, revents, ran, npc, fd>>

(* poll( main_poll, main_poll_len, -1 ), and it has events.                 *)
PollReturns(t) ==
  /\ pc[t] = "poll"
  /\ revents' \in SUBSET (1 .. Len(table)) /\ ran' = {}
  /\ i' = [i EXCEPT ![t] = 1] /\ pc' = [pc EXCEPT ![t] = "scan"]
  /\ UNCHANGED <<arrays, should_stop, lock, npc, fd>>

PollFails(t) ==
  /\ pc[t] = "poll" /\ "poll" \in MayFail
  /\ Give /\ pc' = [pc EXCEPT ![t] = "idle"]
  /\ UNCHANGED <<arrays, should_stop, i, revents, ran, npc, fd>>

(* One turn of the loop over main_poll.                                     *)
FaultyScan(t) ==
  /\ pc[t] = "scan"
  /\ \/ /\ i[t] >= Len(table) /\ pc' = [pc EXCEPT ![t] = "check"] /\ UNCHANGED i
     \/ /\ i[t] < Len(table) /\ i[t] \in revents
        /\ pc' = [pc EXCEPT ![t] = "callback"] /\ UNCHANGED i
     \/ /\ i[t] < Len(table) /\ i[t] \notin revents
        /\ i' = [i EXCEPT ![t] = @ + 1] /\ UNCHANGED pc
  /\ UNCHANGED <<arrays, should_stop, lock, revents, ran, npc, fd>>
Scan(t) ==
  /\ pc[t] = "scan"
  /\ \/ /\ i[t] > Len(table) /\ pc' = [pc EXCEPT ![t] = "check"] /\ UNCHANGED i
     \/ /\ i[t] <= Len(table) /\ i[t] \in revents
        /\ pc' = [pc EXCEPT ![t] = "callback"] /\ UNCHANGED i
     \/ /\ i[t] <= Len(table) /\ i[t] \notin revents
        /\ i' = [i EXCEPT ![t] = @ + 1] /\ UNCHANGED pc
  /\ UNCHANGED <<arrays, should_stop, lock, revents, ran, npc, fd>>

(* The callback returns; its value is not used.                             *)
CallbackReturns(t) ==
  /\ pc[t] \in {"callback", "called"} /\ npc[t] = "none"
  /\ ran' = ran \cup {i[t]}
  /\ i' = [i EXCEPT ![t] = @ + 1] /\ pc' = [pc EXCEPT ![t] = "scan"]
  /\ UNCHANGED <<arrays, should_stop, lock, revents, npc, fd>>

(* if( should_stop ) break, and otherwise unlock.                           *)
FaultyStopCheck(t) ==
  /\ pc[t] = "check"
  /\ Give /\ pc' = [pc EXCEPT ![t] = "relock"]
  /\ UNCHANGED <<arrays, should_stop, i, revents, ran, npc, fd>>
StopCheck(t) ==
  /\ pc[t] = "check"
  /\ \/ should_stop /\ pc' = [pc EXCEPT ![t] = "idle"] /\ UNCHANGED lock
     \/ ~should_stop /\ Give /\ pc' = [pc EXCEPT ![t] = "relock"]
  /\ UNCHANGED <<arrays, should_stop, i, revents, ran, npc, fd>>

Relock(t) ==
  /\ pc[t] = "relock" /\ Take(t)
  /\ pc' = [pc EXCEPT ![t] = "poll"]
  /\ UNCHANGED <<arrays, should_stop, i, revents, ran, npc, fd>>

-----------------------------------------------------------------------------
(* Calls from outside the loop, and from a callback, which is taken to make *)
(* at most one call.                                                        *)
Enter(t, function, step) ==
  /\ npc[t] = "none" /\ npc' = [npc EXCEPT ![t] = step]
  /\ \/ pc[t] = "idle" /\ function \in Calls[t] /\ UNCHANGED pc
     \/ pc[t] = "callback" /\ function \in CallbackCalls
        /\ pc' = [pc EXCEPT ![t] = "called"]

AddCall(t, f) ==
  /\ Len(table) < MaxLen
  /\ Enter(t, "add", "add_lock") /\ fd' = [fd EXCEPT ![t] = f]
  /\ UNCHANGED <<arrays, should_stop, lock, i, revents, ran>>

FaultyAddLock(t) ==
  /\ npc[t] = "add_lock"
  /\ npc' = [npc EXCEPT ![t] = "add"]
  /\ UNCHANGED <<arrays, should_stop, lock, loop, fd>>
AddLock(t) ==
  /\ npc[t] = "add_lock" /\ Take(t)
  /\ npc' = [npc EXCEPT ![t] = "add"]
  /\ UNCHANGED <<arrays, should_stop, loop, fd>>

(* main_poll_maybe_grow, with the two reallocs that may fail: grows or not, *)
(* or returns -1, the arrays as far as they have got by then.               *)
GrownMax == (max * Growth) \div 1000
MustGrow == Len(table) = max - 1
CanGrow  == Len(table) < max /\ (MustGrow => GrownMax > max)

GrowDone ==
  \/ /\ ~MustGrow /\ UNCHANGED <<max, room, bytes>>
  \/ /\ MustGrow /\ max' = GrownMax /\ room' = GrownMax
     /\ bytes' = GrownMax * SizeofPollfd

FaultyGrowFails ==
  \/ ~CanGrow /\ UNCHANGED <<max, room, bytes>>
  \/ CanGrow /\ MustGrow /\ "main_poll" \in MayFail
     /\ max' = GrownMax /\ UNCHANGED <<room, bytes>>
  \/ CanGrow /\ MustGrow /\ "callbacks" \in MayFail
     /\ room' = GrownMax /\ max' = GrownMax /\ UNCHANGED bytes
GrowFails ==
  \/ ~CanGrow /\ UNCHANGED <<max, room, bytes>>
  \/ CanGrow /\ MustGrow /\ "main_poll" \in MayFail /\ UNCHANGED <<max, room, bytes>>
  \/ CanGrow /\ MustGrow /\ "callbacks" \in MayFail
     /\ room' = GrownMax /\ UNCHANGED <<max, bytes>>

(* Write the slot, and main_poll_len++.                                     *)
FaultyWritten(t) == Append(table, NULL)
Written(t) == Append(table, fd[t])

Add(t) ==
  /\ npc[t] = "add"
  /\ \/ CanGrow /\ GrowDone /\ table' = Written(t)
     \/ GrowFails /\ UNCHANGED table
  /\ npc' = [npc EXCEPT ![t] = "add_unlock"]
  /\ UNCHANGED <<should_stop, lock, loop, fd>>

AddUnlock(t) ==
  /\ npc[t] = "add_unlock" /\ Give
  /\ npc' = [npc EXCEPT ![t] = "none"]
  /\ UNCHANGED <<arrays, should_stop, loop, fd>>

(* fra_glob_poll_stop                                                       *)
StopCall(t) ==
  /\ Enter(t, "stop", "stop_lock")
  /\ UNCHANGED <<arrays, should_stop, lock, i, revents, ran, fd>>

StopLock(t) ==
  /\ npc[t] = "stop_lock"
  /\ IF Safe THEN Take(t) ELSE UNCHANGED lock
  /\ npc' = [npc EXCEPT ![t] = "stop"]
  /\ UNCHANGED <<arrays, should_stop, loop, fd>>

StopSet(t) ==
  /\ npc[t] = "stop"
  /\ should_stop' = TRUE
  /\ IF Safe THEN Give ELSE UNCHANGED lock
  /\ npc' = [npc EXCEPT ![t] = "none"]
  /\ UNCHANGED <<arrays, loop, fd>>

-----------------------------------------------------------------------------
LoopStep(t) == PollLock(t) \/ Scan(t) \/ CallbackReturns(t) \/ StopCheck(t) \/ Relock(t)
CallStep(t) == AddLock(t) \/ Add(t) \/ AddUnlock(t) \/ StopLock(t) \/ StopSet(t)

Next == \E t \in Threads :
  \/ PollCall(t) \/ StopCall(t) \/ \E f \in Fds : AddCall(t, f)
  \/ PollReturns(t) \/ PollFails(t)
  \/ LoopStep(t) \/ CallStep(t)

Spec == Init /\ [][Next]_vars

(* A thread inside the library, or in a callback, goes on.  That poll()     *)
(* returns is not assumed: it waits until there is an event.                *)
FairSpec == Spec /\ \A t \in Threads : WF_vars(LoopStep(t)) /\ WF_vars(CallStep(t))

-----------------------------------------------------------------------------
(* Properties                                                               *)

(* The type of every variable.                                              *)
TypeOK ==
  /\ table \in Seq(Fds) /\ max \in Nat /\ room \in Nat /\ bytes \in Nat
  /\ revents \subseteq Nat /\ should_stop \in BOOLEAN /\ lock \in Threads \cup {NULL}
  /\ pc \in [Threads -> {"idle", "lock", "poll", "scan", "callback", "called", "check",
                         "relock"}]
  /\ i \in [Threads -> Nat] /\ ran \subseteq Nat /\ fd \in [Threads -> Fds]
  /\ npc \in [Threads -> {"none", "add_lock", "add", "add_unlock", "stop_lock", "stop"}]

(* The part of fra_glob_poll that runs with the lock.                       *)
Dispatching(t) == pc[t] \in {"scan", "callback", "called", "check"}
InRound(t) == pc[t] = "poll" \/ Dispatching(t)

(* At most one thread waits in poll() or calls callbacks: this alone is what*)
(* serialises the requests of a program that polls in several threads while *)
(* fra_p_pthreads is not set.                                               *)
OneDispatcher == \A t, u \in Threads : InRound(t) /\ InRound(u) => t = u

(* main_poll does not move and does not grow while poll() waits on it or    *)
(* fra_glob_poll goes through it, whoever else adds descriptors.            *)
RoundStable == [][(\E t \in Threads : InRound(t)) => UNCHANGED arrays]_vars

(* The check at poll.c:55: a slot is free, and main_poll has memory for it, *)
(* even after reallocs that failed half way.                                *)
SlotFree == Len(table) < max /\ max <= room

(* A round calls the callbacks of exactly the entries that have events.     *)
RoundServesAll == \A t \in Threads : pc[t] = "check" => ran = revents

(* A stop is acted upon in the round it comes in.                           *)
StopReturns == \A t \in Threads : should_stop /\ Dispatching(t) ~> pc[t] = "idle"

-----------------------------------------------------------------------------
(* What the documentation says and the code does not do                     *)

(* core.h:102-104: a hook, which runs in a callback, may register file      *)
(* descriptors; so it does not wait for a lock its own thread holds.        *)
NoSelfDeadlock ==
  \A t \in Threads : (npc[t] \in {"add_lock", "stop_lock"} \/ pc[t] = "lock") => lock # t

(* poll.c:55: main_poll_len < main_poll_max_len means there is a slot, in   *)
(* callbacks as well.                                                       *)
CallbacksFit == Len(table) * SizeofCallback <= bytes

=============================================================================
