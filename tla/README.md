# A TLA+ model of libfra

libfra (`src/`, `include/fra/core.h`) is a C library for FastCGI REST servers. A
program registers hooks, variables and endpoints, then calls `fra_glob_poll`; the
library accepts connections, routes each to an endpoint, runs the hooks and the
endpoint's callback, and keeps the memory of requests and of endpoint variables in
caches so that `malloc` is seldom called.

Paths below are relative to the root of the repository; a bare `req.c:41` is
`src/req.c:41`, and `core.h:30` is `include/fra/core.h:30`.

## The system

| Component | State | Operations |
|---|---|---|
| Poll loop, `poll.c` | `main_poll`, `callbacks`, their length and size, `should_stop`, `main_poll_lock` | `fra_glob_poll`, `fra_glob_fd_add`, `fra_req_fd_add`, `fra_glob_poll_stop` |
| Requests, `req.c` | the list `empty_req`, `empty_count`, `all_count` | `fra_p_req_handle_new` (the callback of descriptor 0), `get_req`, `req_maybe_free`, `fra_p_req_deinit` |
| Endpoints and their stores, `end.c` | per endpoint: the list `store_empty`, two counts, `store_map`, `store_size`, `hooks`, a lock | `fra_end_new`, `fra_end_free`, `fra_p_end_store_set`, `fra_p_end_store_maybe_free`, `fra_end_callback_set` |
| Hook lists, `hook.c` | one list per hook type: global, of all requests, of each endpoint | `hook_reg`, `hook_execute`, `fra_p_hook_free` |
| Variables, `var.c` on `ht.c` | a hash table and a store size, global and per endpoint | `fra_req_var_reg`, `fra_end_var_reg`, `fra_var_get` |
| Urls, `url.c` | a hash table from urls to chains of (verb, endpoint) | `fra_end_url_add`, `fra_p_url_to_endpoint` |
| Initialisation, `glob.c` | `initialized` of `poll.c`, and the static pointers of every component | `fra_glob_init`, `fra_glob_deinit` |
| Configuration, `conf.c` | numbers, strings, arrays; the list of plugins | `fra_p_conf_load`, recursive over included files |
| Plugins, `pl.c` | a list of names, arguments and handles | `fra_p_pl_add`, `fra_p_pl_load`, `fra_p_pl_unload` |

How they interact:

* `fra_glob_poll` calls `fra_p_req_handle_new` with `main_poll_lock` held. This lock
  alone serialises the requests; `fra_p_lock` (`lock.h`) does nothing unless
  `fra_p_pthreads` is set, `lock.c:2` sets it to 0, and no code changes that:
  `conf.c` reads "thread safe" but nothing takes the value over.
* The handler calls hooks at eight points, and hooks and callbacks may call back into
  the library: register hooks (while `hook_execute` is in the very list), register
  descriptors (while the loop holds the lock `fd_add` wants), read variables.
* A request object carries pointers into the other components: `endpoint`,
  `endpoint_store`, and `next` when it is cached. It goes from the cache to the
  handler and back on every path through four cleanup labels.
* `conf_load_recurse` calls itself for every included file and adds plugins to the list
  of `pl.c`; a program then loads them. Nothing else in the library uses either yet.
* `fra_glob_init` and `fra_glob_deinit` call the init and deinit functions of the other
  components, in opposite orders; hooks that free a request run in the middle of the
  second and use what the others own.
* Variables are offsets; the memory they are offsets into is allocated by `get_req`
  and `fra_p_end_store_set` with the size registered *until then*.

What is hard: the error paths (each hook, parameter and allocation can fail, and the
object must go back to the right list exactly once); stale fields of reused objects;
lists that change under a running execution; one lock for the loop, its callbacks and
everyone who adds descriptors; sizes that are read at one time and used at another.
`PROJECT.json` lists every such hazard with its line.

What makes each component correct:

* Requests and stores: no pointer to a freed object is followed; one answer per
  connection; objects are on one list or in use, never both, never lost; memory does
  not grow with the number of connections; counters match the lists.
* Hooks: none is lost, executions follow the order of priorities whatever is
  registered meanwhile, every execution ends if registrations do.
* Poll loop: one round at a time, on arrays that stay put; every event is served; a
  stop ends the round; nobody keeps the lock or waits for his own.
* Variables: no two share a byte; all lie in the stores made after they were
  registered; a lookup finds what was registered.
* Urls: a request goes to the endpoint that was given its verb and url first, whatever
  collides in the table, is given again or runs out of memory; every copy of a string is
  destroyed in the end.
* Initialisation: whatever fails half way, and however often it is tried again, nothing
  is used that is not there, and nothing leaks.
* Configuration: a load gives what the files say, with included files in their place, or
  fails; it returns, and releases what it took, at whatever depth it fails.
* Plugins: what is open is what the list says was loaded, in spite of failures in the
  middle and of libraries that are listed twice.

## The modules

| Module | What it is |
|---|---|
| `Request` | `req.c` and the store half of `end.c`: one program counter through the handler and the teardown calls |
| `Pool` | abstract: objects are made only if no left over waits (`README.md:16` of the repository) |
| `RequestProofs` | theorems about `Request` |
| `HookList` | one hook list, several threads, step by step |
| `HookOrder` | abstract: an ordered set of hooks and executions that go through it |
| `HookListProofs` | theorems about `HookList`, and that it implements `HookOrder` |
| `Poll`, `PollProofs` | `poll.c`, and theorems about it |
| `Var`, `VarProofs` | `var.c` with `ht.c`, and theorems about it |
| `Url` | the table of urls: `url.c` on `ht.c`, with the copies of strings it owns |
| `Router` | abstract: which endpoint a verb and url lead to |
| `Glob` | `glob.c`, the endpoints of `end.c`, and a program's life with the library; extends `Url` |
| `GlobProofs` | theorems about `Glob` and `Url`, and that they implement `Router` |
| `Plugin` | `pl.c`: the list of plugins, loading and unloading |
| `Config` | `conf.c` on top of `Plugin`, one frame per call of `conf_load_recurse` |
| `ConfigProofs`, `ReadsProofs` | theorems about both; that a load gives what the files say |
| `MCRequest`, `MCHookList`, `MCPoll`, `MCVar`, `MCConfig`, `MCGlob` | constants for TLC |

Operators whose names begin with `Faulty` are a definition of the module with a
plausible mistake in it. No specification uses them. Each property is accompanied by
one that breaks it, in `PROJECT.json` under `mutants`.

### Request

An object is an identifier from `ReqIds` or `StoreIds`, an address `malloc` can
return; `reqs` and `stores` are the live ones. The lists are kept as in the code, as a
head (`empty_req`, `store_empty`) and next pointers, because the mistakes to look for
are that one object is on two lists, or on a list and in a request. `pc` names the
point of `fra_p_req_handle_new` the thread is at; the actions are, in order,

`HandleNew`, `Incoming`, `GetCachedReq` / `MallocReq` + `ReqCreated`, `BeforeFcgx`,
`Accept`, `Params`, `BeforeEndpoint`, `Route`, `SetCachedStore` / `MallocStore` +
`StoreCreated`, `ReqNew`, `Callback`, then `NoStoreToGiveBack` / `CacheStore` /
`FreeStore` and `CacheReq` / `FreeReq`,

each with its failures. `Refuse` is the label `fcgx_cleanup`, `pc = "give_back"` is
`req_cleanup`, and `AfterGiveBack` is `final_cleanup` with the test of `rc_ex`. `Stop`
is the program leaving the poll loop; then `EndFree` and `ReqDeinit` (called by
`fra_glob_deinit`), one step per turn of their loops. A step that follows a pointer to
no live object (`Dangling`), or prints to the NULL stream of a failed accept, goes to
`pc = "undefined"` and stays there: what the program does then is not modelled, and
`NoUndefined` says it is not reached.

`owner`, `hooked`, `accepted`, `answered` and `cause` are history; the code has no such
fields. Two history variables start again with each event, so that the state space does
not grow with the number of events.

`set_param` and `set_url` are one step that succeeds or refuses; `FCGX_Accept_r` and
`FCGX_Finish_r` belong to the FastCGI library. A hook list is one step that completes
or fails; its inner steps are `HookList`.

`CachedReqs` and `CachedStores` are what following a list comes by: the least set that
has the head and goes along with next (`Closed`, `Chain`). `Reached` of `HookList` is the
same of a hook list.

That one handler runs at a time, which the single `pc` takes for granted, is
`OneDispatcher` of `Poll`, proved there.

### HookList

Each thread can be in `hook_reg` (`rpc`, `rhook`, `rcur`, `rnext`) and in
`hook_execute` (`xpc`, `xcur`); in the second, between unlock and lock, a callback
runs, which may itself be in `hook_reg`. Every read of the list and every write to it is
a step of its own. `Locked` says if the list has a lock that is taken: the global and
request lists would if `fra_p_pthreads` were set, an endpoint's never does
(`hook.c:254, 307`). As shipped nothing is locked, and one thread at most may use a list.
`Free` is `fra_p_hook_free`, by a program that follows `core.h:27-30`.

### Poll

`table` is `main_poll` with `callbacks` up to `main_poll_len`; `room` and `bytes` are
what the two arrays have memory for, kept apart because two `realloc`s may fail one
after the other and because their sizes are computed with different types. A thread is
in `fra_glob_poll` (`pc`) or in `fd_add` or `fra_glob_poll_stop` (`npc`), the latter
perhaps from a callback of the former. `revents` is any set of entries, chosen anew in
`PollReturns`; the empty set stands for events nobody asked for.

### Var

`buck` is `store_map`: per map and bucket the chain `fra_p_ht_set` appends to. `reg` is
four steps (lock, check and read the size, enter, add the size), and threads
interleave between them. `block` is the stores allocated with the size of that
moment, each with the names that were registered then; `VarGet` is `var_get`. `fra_var_get_with_type` is `VarGet` with the type of the
entry itself. Names and hashes are constants; `SizeMax` stands for `SIZE_MAX` and sums
wrap at it. A store stays as it is while more variables are registered: those lie behind
it, which is among the disagreements below, and `GetInBlock` is about the others.
`Registrars` says which threads register on which map. An endpoint's has at most one
(`OneRegistrar`): `fra_end_var_reg` takes no lock, so that two would be in `reg` and in
`fra_p_ht_set`, whose `realloc`, key, value and count are separate writes, at the same
time, and what they leave is anything. For the same reason `RegSet` is one step.

### Url and Glob

`urls` is `url_to_endpoint`: per bucket the chain of entries, each with the list of
`struct url` that its url leads to. `Url` has no actions of its own but operations that
`Glob` makes actions of. `strings` are the copies `bfromcstr` made: the key of an entry
and one verb per value; what fails in `fra_end_url_add` destroys what it had made, in
one step, since nothing else runs between. `given` is history: the endpoint that the first
`fra_end_url_add` which succeeded for a verb and url was called with. `Router` says that it
is the one that requests are routed to.

In `Glob`, `pc` names the init or deinit function that comes next; each is a step, with
one alternative per way in which it fails. `mem` is what the static pointers hold, `lost`
those that were overwritten while they held live memory. An endpoint's `parts` are its
three allocations. A request is one step, `Serve`, which needs the memory of all
components and leaves a request, and a store if an endpoint was found, in the caches.
It is served with or without a `callback`: `fra_p_req_handle_new` looks at it
(`req.c:334`).

Programs are taken to use the library as the tests do: other calls come between
`fra_glob_init` and `fra_glob_deinit`; an endpoint with a url is not freed while requests
are served, as there is no way to take it out of the table; an endpoint that served is
freed before `fra_glob_deinit`, because its stores' FREE hooks are on a list that the
latter frees; `fra_glob_poll` is called once, because it keeps the lock. Hooks succeed;
their failures are the subject of `Request`.

### Config and Plugin

`stack` has a frame for each call of `conf_load_recurse` that has not returned: the file,
the item the loop is at, the directory entries not read yet, and `held`, what the call has
to release. `cpc` says where the call at the top is. A failure is a jump to one of the
labels of `conf.c:444-465` (`Ladder`); `FallThrough` is what is released from there on,
and `unbalanced` collects every difference between that and `held`. A file is the
sequence of its top level items, each of a kind that its key and the type of its value
decide; the characters, and what jsmn and jsonpath do with them, are left out. What a
file's length does to the reading is in `Large` (more than 200 tokens, parsed a second time
after a `realloc`) and `Refused` (among others, more than 1200). Files need
descriptors and there are `MaxOpen`: that is what ends a file that includes itself.
`Reads` is the reference for what a load should give: the files put in the place of their
include, for every order of the directories. `closedir_failed` remembers that the one label
which releases too little was taken.

`Plugin` has the list with its handles; `refs` is what `dlopen` counts. Programs are taken
to follow `tests/pl.c`: they load plugins after a configuration was read, unload after a
load that succeeded, end after one that failed. `h` is unset until a load reaches it.
`dlclose` may fail: after a failed load `h` and the library stay, an unload counts it
(`failed`), goes on and returns -1.
If there is no memory for a plugin's name, `set_plugins` frees a plugin whose `argc` is not
set (`conf.c:139`, `pl.c:29`): `NameFails`, after which the program is `undefined`, as it is
after `OpenMoved`, when the `realloc` for a large file moves the tokens.

## The runs

| Run | Instance | Shows |
|---|---|---|
| `shipped` | 2 endpoints, 2 requests, 3 stores, 4 connections, factor 1.618; what has no finding below may fail | memory safety, the counts, the ownership of stores, no leak, and that both caches implement `Pool` |
| `shrink` | the same, 3 connections, factor 0.5, FREE hooks fail too | the branches that free objects, which 1.618 never takes: nothing dangles, and what a failing FREE hook leaves behind stays counted (nothing is cached here, so `ReqDeinit` and `EndFree` find empty lists; the theorems cover factors between) |
| `faults` | everything may fail, fresh memory holds anything, factor 1.618 | one answer per connection, even then, until the program is undefined |
| `locked` | 2 threads, 3 hooks, 2 of one priority, one execution per thread | all properties of `HookList`, and `HookOrder` |
| `serve` | 2 pollers and a thread that adds and stops; arrays of 2 that grow to 3 and 4 | all properties of `Poll` |
| `vars` | 2 threads, 2 names in one bucket, types of 1 and 3 bytes, `SIZE_MAX` 5, 2 blocks | all properties of `Var` |
| `config` | 8 files to begin with: nested, with a directory of three, broken, including themselves by name and by directory; one of more than 200 tokens and one of more than 1200; 4 descriptors; libraries listed twice; every call may fail, `closedir`, `fclose` and `dlclose` included | all properties of `Config` and `Plugin` |
| `program` | 2 endpoints, 2 verbs, 3 urls, two of which collide and one of which is too long, urls are added while there are fewer than 4 strings, every allocation may fail | all properties of `Glob` and `Url`, and `Router` |
| `store_hook_fails`, `add_in_callback`, `callbacks_room`, `init_again` | as small as the question needs | one disagreement each, below |

Why the bounds suffice: requests never overlap, so the cache never holds a second
request (`OneObject`, proved), and two endpoints are what it takes to mix up their
stores; four connections let a store be made, cached, reused and dropped with a request
in between that goes to the other endpoint. A third store address lets a wrong
allocation show instead of running out of addresses. With three hooks a registration
goes to the front, the middle or the end, and meets an equal priority. Two pollers, a
third thread and two growths meet every order of lock, stop and growth; the arrays start
at 2 and not 10 so that growing is reached, and the constants enter only in the sizes.
The files
of `config` need three of its four descriptors, those that include themselves all of them.
`SIZE_MAX` is 5 so that registrations fail at it and the sum could wrap. The strings of `program` are
the key and three verbs of one url, or two urls with three verbs between them, so that a
verb is given twice, a second verb comes after the first, and a bucket has two entries. `program` takes endpoints and verbs
as symmetric, urls not, as their hashes differ; `RouterSpec` is a safety property, for
which that is sound. The bounds are
`MaxEvents`, `MaxRuns`, `MaxLen`, `MaxVars`, `MaxUrls` and the sizes of the sets; the theorems hold
for all values of them.

`serve` gives its callbacks only the calls that return: `fd_add` from a callback waits
for ever, which `add_in_callback` shows. `serve`, its companions, `vars`,
`config`, `program` and `init_again` do not check for deadlock, because those systems really
stop: after a stop everyone waits for the lock that was kept, `fra_p_poll_init` included,
registrations are bounded, and a program ends when its plugins cannot be loaded.

### Fairness

Three properties are liveness. `Returns` (every execution of a hook list returns)
assumes that a thread inside `hook_reg` or `hook_execute` goes on whenever it can; weak
fairness also does for the mutex, since the executions and registrations of the other
threads are bounded, so the lock is free for good at some point. It also takes the callbacks'
own registrations to be finite, which they are as a node is registered once: a callback
that registered a new hook behind itself whenever it is called would keep
`hook_execute` going for ever (`hook.c:118-139`). `StopReturns` (a stop
ends the round it comes in; one that is set between two rounds is reset by the next poller,
`poll.c:221`, and lost) assumes that a thread goes on inside the library and inside a
callback, which is the program's duty; in a round the thread has the lock already, and
it needs no fairness of the mutex. `ConfReturns` (every load of a configuration returns)
assumes that the one thread that reads goes on; nothing there waits. That `poll` returns is *not* assumed: with timeout -1
it waits until there is an event.

## What the code does and its documents do not say

The runs that end in a violation, each a trace of a few steps:

* `store_hook_fails`: when a FRA_END_STORE_CREATED hook fails, the store is freed
  (`end.c:66`) and then cached (`end.c:101`).
* `add_in_callback`: a hook that adds a descriptor, as `core.h:104` suggests, waits for
  the lock of its own thread (`poll.c:90`).
* `callbacks_room`: `callbacks` is sized with `sizeof( int )` and with
  `sizeof( struct pollfd )` (`poll.c:147, 67`), and written beyond its end.
* `init_again`: `fra_p_poll_deinit` leaves `initialized` set (`poll.c:183`), so that
  `fra_glob_init` fails for good after `fra_glob_deinit`, which `core.h:30` says it does not.

Further disagreements the modules contain, without a run of their own:

* After a stop `fra_glob_poll` returns with the lock held (`poll.c:251`, `StopCheck`), and
  whoever takes it next waits for ever, `fra_p_poll_init` (`poll.c:138`) included, although
  `core.h:30` says that the library can be initialised again.
* A failing FRA_REQ_CREATED hook frees the request without its FREE hooks
  (`ReqCreatedFails`; `core.h:115`), and `fra_end_free` leaks the rest of the list when a
  hook fails (`EndFreeStore`; `core.h:194`).
* The error response is always 500; the value of the hook is lost (`Refuse`,
  `ExitRequest`; `core.h:129`).
* If `malloc` of a store fails, the request's stale `endpoint_store` is put on the list of
  the wrong endpoint (`MallocStoreFails`, then `CacheStore`).
* Two threads that register hooks or variables on one endpoint lose one or get one
  position (`HookList` with `Locked` FALSE; `Var` excludes it, `OneRegistrar`).
* The FRA_REQ_CREATED hooks run on memory `malloc` has just returned, and reading its
  `endpoint` field (`hook.c:225`) decides which hooks (`req.c:46-51`; `ReqCreated` with
  an `Uninit` other than `NULL`).
* A variable registered while stores are cached, or in use, lies beyond them, and
  `fra_var_get` gives its address all the same (`var.c:48, 162`; `GetInBlock` without
  `MadeFor` is false), although `core.h:81-83` says that it can be used in any request.
* When a configuration has more than 200 tokens, `realloc` gives `tmp`, which is never
  assigned to `t` (`conf.c:338`): unless the block stayed where it was, the file is parsed
  into freed memory (`conf.c:341`), which is freed again (`conf.c:435, 455`), and `tmp` leaks
  (`OpenMoved`).
* When `closedir` fails at `dir_cleanup`, the name of the directory leaks (`conf.c:446`;
  `DirCleanupFails`, the exception in `ReleasesAll`).
* `fra_p_pl_unload` after a load that failed closes handles that are unset or closed
  (`pl.c:148`); the programs of `Config` do not call it then.
* `fra_p_req_deinit` deallocates a request whose FREE hooks failed (`req.c:273-275`;
  `ReqDeinitOne`).
* A second `fra_glob_init` returns -1, where `core.h:23` has a value of its own for it
  (`PollInit`), and `fra_glob_deinit` after one that failed reads a NULL `glob_hooks`.
* `fra_end_free` after `fra_glob_deinit` runs hooks from a freed list (`end.c:204`), and an
  endpoint that is freed stays in the table of urls (`url.c:233`).
* An endpoint that is given a verb and url another has already is accepted and never
  reached (`ToEndpoint`); `fra_end_url_del`, declared in `core.h`, does not exist.
* If `fra_p_pthreads` were set, `fra_p_url_init` would fail when its lock was made, not
  when it was not (`url.c:90-91`).
* The hooks of an endpoint run before those of all requests whatever their priorities
  (`hook.c:225`), so that an authentication hook of priority 10 comes after an endpoint's
  of priority 20, although "higher priority means later execution" (`core.h:127`).
* A second registration of a name is accepted, although `var.c:45` has a message for it;
  and a global name hides an endpoint's (`Find`, `VarGet`).
* A stop from another thread is not seen while `poll` waits (`PollReturns`).

## What is proved

`tlapm` checks these for every value of the constants, with the `ASSUME`s of the modules
(`NULL` is distinct, sets and functions are typed, at least two slots initially).

* `RequestProofs`. `Typing`: `TypeOK` is inductive. `Invariance`: `Inv`, which says of the
  list of requests, and of each endpoint's list of stores, that it is empty or has its head
  alone, and is empty while the handler holds such an object, which is live; together with
  the facts about `pc`, `endpoint` and `phase` that tell who holds what. That a pointer is
  live follows only from where the handler is, so neither `NoUndefined` nor `StoresOwned`
  is inductive. From `Inv` follow `MemorySafe` and `Owned`, and with `CountInv` (a counter
  counts the objects whose CREATED hooks ran, lost ones included) `Counted`. `Lossless` adds
  that there is no other live object; `BoundedMemory` follows, and with an invariant of the
  teardown, `DownInv` (what is live belongs to an endpoint not yet freed), `NothingLeaks`.
  `CacheKept` adds that the branch that frees is not taken (`NeverFree`), because the counters
  compare 1 - 0 with 1 times a factor of at least 1, and `BornInv`, that an object whose CREATED
  hooks are running, which a failure of theirs frees, has completed none. `Pooled` is the refinement: every step is,
  for the requests and for each endpoint's stores, a step of `Pool` or a stutter.
  The premises, each in the theorems that need it:
  `Sound`, for all of these: fresh memory is zeroed, and malloc of a store, `FCGX_Accept_r`
  and the FRA_END_STORE_CREATED hooks succeed; the violated runs and the list above show
  what happens otherwise. `Shipped`, for `CacheKept`: the growth factor is at least one. The
  others hold for every factor, those the library is not built with and `shrink` checks
  included. `FreeHooksSucceed`, for `NothingLeaks`: a FREE hook that fails costs its object.
  One of the last two, for `BoundedMemory`: with a smaller factor the branch that frees is
  taken, and if it fails the next connection makes another object.
  `EveryConnectionAnswered` needs no `Sound`, but one of the last two as well, for when that branch
  fails, `exit_request` takes a second connection (`req.c:349-371`); its invariant has that
  the branch is never taken with the shipped factor though everything may fail (`SparseReqs`
  and `SparseStores`: a list has at most its head, and its counter is not too low), so that
  it covers the run `faults`.
* `HookListProofs`. `Typing`, and under `Exclusive` (the lock is used, or there is one
  thread) `Invariance` of an `Inv` that says who is inside the critical section, that
  every linked node's `next` is the *least* linked node after it (`ListInv`), what the
  local pointers of a registration in progress delimit, and what a running execution has
  called. `InOrder`, `AllCalled`, `ListSorted` follow, and `Implements`: every step is a
  step of `HookOrder` or a stutter (`RegPush` and `RegSplice` are `Register`, `ExecLock` is
  `Start`, `ExecRelock` is `Advance`, `ExecReturn` is `Return`). `NoneLost`: no set that has
  the head and goes along with next leaves out a linked node (`AllReached`), which each
  of the two steps that link a node keeps, so there is no induction along the list; and
  the linked nodes are such a set, by `ListInv`. With `Kept` (an allocated node is linked or
  in a registration) `AllFreed` follows.
* `PollProofs`. `Serialised` and `Stable` from `Guarded`, that whoever is in a round or in
  the body of `fd_add` holds the lock; they hold with `fra_p_pthreads` unset as well,
  because only the write of `should_stop` is unlocked. `SlotAlwaysFree` from the
  relation of `max`, `room` and the length through half failed growths. `AllServed` from
  `Progress`, that the callbacks of the ready entries before `i` have run and no others,
  which is kept by others because nobody else touches a round (`RoundOfOthers`). `Typing`.
* `VarProofs`, for programs with at most one registrar per endpoint. `NoOverlap` and
  `AllInStore`: the invariant adds the registration in progress: at most one per map, its
  position equal to the size read, its entry already in the table but not yet in the
  size, and enough room below `SIZE_MAX` for the sum. `FirstFound`: appending to a chain
  leaves its first hit the first. `InBlock`: of every store in use, the entry that is found
  under a name it was made with ends within its size (`FoundInStore` when it is made, by
  `AllInStore`'s invariant; afterwards a registration leaves what is found the same).
* `GlobProofs`. `Inv` says for each `pc` which statics hold memory (`StaticsInv`), that
  the copies of strings are those the table leads to and that there is a table only while
  the library is up (`UrlInv`), and that an endpoint is whole or not there (`EndInv`). `MemoryThere`
  and `NothingLeaks` follow. `Routed` shows the refinement of `Router`, by the invariant
  that `given` is where the table leads (`Leads`): a registration
  appends, and `First` of a set of positions that grew at its end is what it was. That
  `First` exists is the least element of a set of naturals (`WFMin`).
* `ConfigProofs`. `Released`: the inductive invariant `Held` says for each frame of a stack
  of any depth what it holds, from where it is and whether it is the top, so that every
  label releases exactly that; what is left over is the name of a directory, if
  `closedir_failed`, and otherwise nothing. It speaks of calls that return: not of a load that
  went to `undefined`. `ClosedHandles` (invariant `Handles`) and `Matched`
  (`Balanced`: what is open of a library is the cardinality of the set of its open entries,
  a set that each step changes by one element or, when `dlclose` fails, by none) need nothing from the files. `Typing` needs
  all three, since that `refs` is not negative is `Balanced`.

* `ReadsProofs`. `GivesTheFiles`: for any files, directories, order of their entries,
  number of descriptors and failures, a load that returns 0 leaves what the reference
  `Reads` says of the file, and one that returns -1 without a fault was given something
  that cannot be read. `Reads` and `After` are recursive functions, so it is first proved that
  they are what their equations say: the set of the numbers up to which such a function exists
  has 0 and with each number the next, and a number outside would have a least one (`WFMin`).
  The invariant is `Follows`. `Room(p)` is what the calls below the p-th leave of the
  descriptors, hence the index at which the reference is to be read for its file; `Part(p)`
  is what the p-th call can have set by its place, the item it is at and the entries of
  a directory it has entered; and what is set (`SoFar`) is one result of the parts in turn,
  from the first call to the last. A step replaces the top frame (`Stepped`), adds one
  (`Pushed`), or takes it away: then its part, by now all of its file, becomes the next item
  or entry of its caller (`Succeeded`), or the caller's item has no result (`Failed`,
  `CannotGoOn`), and with an item its whole file. `DepthBounded`: as `Room` gets smaller
  with every call, calls nest at most one deeper than there are descriptors, also when a
  file includes itself. Both need the assumptions on the files alone (`FilesType`,
  `ContentType`: types, and that a directory has finitely many entries).

Only model-checked: liveness (`Returns`, `StopReturns`, `ConfReturns`), which needs fairness and
`ENABLED`. Every other property of a run that passes is also a
theorem, under the premises named above.

## The plan

Done, in this order: `Request` with `Pool`; `HookList` with `HookOrder`; `Poll`; `Var`;
`Config` with `Plugin`; `Url` with `Router`; `Glob`; their proofs. What could follow:

1. The composition of an endpoint's and the general hook lists in one request
   (`hook.c:225`), with callbacks that register on the other list.
2. `Locking`: the lock and unlock calls of `req.c`, `end.c` and `url.c`, when something sets
   `fra_p_pthreads`. As it is they do nothing.
3. More of `Config` when the table `confs` gets entries of other types, and the
   composition with `Glob` when the library reads its configuration.

## Not modelled

`murmur3.c` (third-party, a constant function here), `bstrlib`, `jsmn` and the FastCGI
library (external), `dbg.h` (logging; `check` is a guard), the parsing inside `set_url`, the types of
`set_value` and `set_defaults` that no entry of the table `confs` has,
the counting of collisions for a warning in `ht.c`, what is freed inside a single failing
`fra_end_url_add` or `fra_end_new` (nothing is left, and nothing runs between), the example, the tests, the container
files. `fra_end_url_del` and `fra_req_endpoint_set` are declared in `core.h` and do not
exist. Threads of the program that call `fra_var_get` while others register are taken
not to exist (`StoreAlloc`), and so are programs that use the library otherwise than the
section on `Glob` says. `Buckets` is not 0: `fra_end_new( 0 )` would divide by it (`ht.c:104`).
