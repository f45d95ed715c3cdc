-------------------------------- MODULE Var --------------------------------
(***************************************************************************)
(* Variables of requests and endpoints (src/var.c) in the hash tables of   *)
(* src/ht.c.  A variable is an offset into a store: registering one appends*)
(* its bytes to the size of the stores to come; a request looks it up by   *)
(* name, in the global map first and then in that of its endpoint, and     *)
(* gets an address in its req_store or its endpoint store.                 *)
(*                                                                         *)
(* The map of an endpoint and the global one work alike, but only the      *)
(* global one has a lock, which fra_req_var_reg always takes.  Two threads *)
(* that register on one endpoint race in reg and in fra_p_ht_set, and what *)
(* they leave is anything: that program is left out (OneRegistrar).  Of the*)
(* others registration is modelled step by step, as threads interleave.    *)
(***************************************************************************)
EXTENDS Integers, Sequences

CONSTANTS
  Threads, NULL,
  Names, Types,
  Size,        \* sizeof, of a type
  Endpoints,
  Glob,        \* names the map and the stores of all requests
  Registrars,  \* threads that register on a map
  Hash,        \* MurmurHash3_x86_32( name, ..., 55 )
  Buckets,     \* bucket count of the tables
  SizeMax,     \* SIZE_MAX
  Blocks,      \* memory for stores
  MaxVars      \* bound: registrations on a map

Maps == Endpoints \cup {Glob}

ASSUME NullDistinct == NULL \notin Threads \cup Maps \cup Types
ASSUME GlobDistinct == Glob \notin Endpoints
ASSUME SizeType == SizeMax \in Nat /\ Size \in [Types -> 1 .. SizeMax]
ASSUME HashType == Hash \in [Names -> Nat] /\ Buckets \in Nat \ {0}
ASSUME NullEntry == NULL \notin [name : Names, type : Types, position : Nat]
ASSUME UseType  == Registrars \in [Maps -> SUBSET Threads] /\ MaxVars \in Nat
(* fra_end_var_reg takes no lock (var.c:230).                               *)
ASSUME OneRegistrar == \A m \in Endpoints : \A t, u \in Registrars[m] : t = u

VARIABLES
  buck,        \* store_map: the chain of entries of each bucket
  store_size,
  lock,        \* the thread that holds glob_store_map_lock, or NULL
  pc,          \* reg: where a thread is,
  map, name, type, position,   \* its arguments, and value.position
  block,       \* per block, NULL or the map and the size of the store in it,
               \* and, as a history, the names that were registered then
  started,     \* per map, the registrations begun
  first        \* history: per map and name, the entry registered first, or NULL

args == <<map, name, type>>
vars == <<buck, store_size, lock, pc, args, position, block, started, first>>

Init ==
  /\ buck = [m \in Maps |-> [k \in 0 .. Buckets - 1 |-> <<>>]]
  /\ store_size = [m \in Maps |-> 0] /\ lock = NULL
  /\ pc = [t \in Threads |-> "idle"] /\ map = [t \in Threads |-> Glob]
  /\ name = [t \in Threads |-> NULL] /\ type = [t \in Threads |-> NULL]
  /\ position = [t \in Threads |-> 0]
  /\ block = [b \in Blocks |-> NULL] /\ started = [m \in Maps |-> 0]
  /\ first = [m \in Maps |-> [n \in Names |-> NULL]]

(* The operators whose names begin with Faulty are the code with a mistake  *)
(* in it; no specification uses them.                                       *)

-----------------------------------------------------------------------------
(* The hash table                                                           *)

BucketOf(n) == Hash[n] % Buckets

(* fra_p_ht_get_by_hash: the first entry of the chain with this key.        *)
First(S) == CHOOSE j \in S : \A k \in S : j <= k
Hits(chain, n) == {j \in 1 .. Len(chain) : chain[j].name = n}
FaultyLookup(chain, n) ==
  IF Hits(chain, n) = {} THEN NULL
  ELSE chain[CHOOSE j \in Hits(chain, n) : \A k \in Hits(chain, n) : k <= j]
Lookup(chain, n) == IF Hits(chain, n) = {} THEN NULL ELSE chain[First(Hits(chain, n))]
Find(m, n) == Lookup(buck[m][BucketOf(n)], n)

(* What fra_p_ht_set makes of an entry: it appends it to the chain.         *)
FaultyEntry(t) == [name |-> name[t], type |-> type[t], position |-> NULL]
Entry(t) == [name |-> name[t], type |-> type[t], position |-> position[t]]

-----------------------------------------------------------------------------
(* reg, under fra_req_var_reg and fra_end_var_reg                           *)

Registering(m) == \E t \in Threads : pc[t] # "idle" /\ map[t] = m

RegCall(t, m, n, ty) ==
  /\ pc[t] = "idle" /\ t \in Registrars[m]
  /\ started[m] < MaxVars /\ started' = [started EXCEPT ![m] = @ + 1]
  /\ pc' = [pc EXCEPT ![t] = IF m = Glob THEN "lock" ELSE "check"]
  /\ map' = [map EXCEPT ![t] = m] /\ name' = [name EXCEPT ![t] = n]
  /\ type' = [type EXCEPT ![t] = ty]
  /\ UNCHANGED <<buck, store_size, lock, position, block, first>>

FaultyRegLock(t) ==
  /\ pc[t] = "lock" /\ pc' = [pc EXCEPT ![t] = "check"]
  /\ UNCHANGED <<lock, buck, store_size, args, position, block, started, first>>
RegLock(t) ==
  /\ pc[t] = "lock" /\ lock = NULL /\ lock' = t
  /\ pc' = [pc EXCEPT ![t] = "check"]
  /\ UNCHANGED <<buck, store_size, args, position, block, started, first>>

(* *store_size < SIZE_MAX - size, and value.position = *store_size.         *)
FaultyFits(m, size) == TRUE
Fits(m, size) == store_size[m] < SizeMax - size

RegCheck(t) ==
  /\ pc[t] = "check"
  /\ \/ /\ Fits(map[t], Size[type[t]])
        /\ position' = [position EXCEPT ![t] = store_size[map[t]]]
        /\ pc' = [pc EXCEPT ![t] = "set"]
     \/ /\ ~Fits(map[t], Size[type[t]]) /\ UNCHANGED position
        /\ pc' = [pc EXCEPT ![t] = "unlock"]
  /\ UNCHANGED <<buck, store_size, lock, args, block, started, first>>

(* bfromcstr and fra_p_ht_set, which may fail for lack of memory.  One step,*)
(* as nobody else is at this table meanwhile: by the lock, or because the   *)
(* endpoint has no other registrar.                                         *)
RegSet(t) ==
  LET m == map[t]
      n == name[t]
  IN
  /\ pc[t] = "set"
  /\ \/ /\ buck' = [buck EXCEPT ![m][BucketOf(n)] = Append(@, Entry(t))]
        /\ first' = [first EXCEPT ![m][n] = IF @ = NULL THEN Entry(t) ELSE @]
        /\ pc' = [pc EXCEPT ![t] = "size"]
     \/ /\ pc' = [pc EXCEPT ![t] = "unlock"] /\ UNCHANGED <<buck, first>>
  /\ UNCHANGED <<store_size, lock, args, position, block, started>>

(* *store_size += size                                                      *)
Grown(m, size) == (store_size[m] + size) % (SizeMax + 1)
RegSize(t) ==
  /\ pc[t] = "size"
  /\ store_size' = [store_size EXCEPT ![map[t]] = Grown(map[t], Size[type[t]])]
  /\ pc' = [pc EXCEPT ![t] = "unlock"]
  /\ UNCHANGED <<buck, lock, args, position, block, started, first>>

RegReturn(t) ==
  /\ pc[t] = "unlock"
  /\ IF map[t] = Glob THEN lock' = NULL ELSE UNCHANGED lock
  /\ pc' = [pc EXCEPT ![t] = "idle"]
  /\ UNCHANGED <<buck, store_size, args, position, block, started, first>>

-----------------------------------------------------------------------------
(* Stores: get_req (fra_p_var_store_size_get, then malloc) and              *)
(* fra_p_end_store_set, and their being freed.  A program is taken not to   *)
(* serve a request at the very moment another thread of it registers.       *)

Store(m) ==
  [map |-> m, size |-> store_size[m], names |-> {n \in Names : Find(m, n) # NULL}]

StoreAlloc(b, m) ==
  /\ block[b] = NULL /\ ~Registering(m)
  /\ block' = [block EXCEPT ![b] = Store(m)]
  /\ UNCHANGED <<buck, store_size, lock, pc, args, position, started, first>>

StoreFree(b) ==
  /\ block[b] # NULL /\ block' = [block EXCEPT ![b] = NULL]
  /\ UNCHANGED <<buck, store_size, lock, pc, args, position, started, first>>

(* var_get, for a request whose stores are the blocks rb and eb, eb perhaps *)
(* NULL: where the variable is, or NULL.                                    *)
At(b, entry, ty) ==
  IF entry # NULL /\ entry.type = ty THEN [block |-> b, position |-> entry.position] ELSE NULL
FaultyVarGet(rb, eb, n, ty) ==
  IF Find(Glob, n) # NULL THEN At(rb, Find(Glob, n), ty)
  ELSE IF eb # NULL THEN At(rb, Find(block[eb].map, n), ty)
  ELSE NULL
VarGet(rb, eb, n, ty) ==
  IF Find(Glob, n) # NULL THEN At(rb, Find(Glob, n), ty)
  ELSE IF eb # NULL THEN At(eb, Find(block[eb].map, n), ty)
  ELSE NULL

Next ==
  \/ \E t \in Threads :
       \/ \E m \in Maps, n \in Names, ty \in Types : RegCall(t, m, n, ty)
       \/ RegLock(t) \/ RegCheck(t) \/ RegSet(t) \/ RegSize(t) \/ RegReturn(t)
  \/ \E b \in Blocks : StoreFree(b) \/ \E m \in Maps : StoreAlloc(b, m)

Spec == Init /\ [][Next]_vars

-----------------------------------------------------------------------------
(* Properties                                                               *)

Entries == [name : Names, type : Types, position : 0 .. SizeMax]

Stores == [map : Maps, size : 0 .. SizeMax, names : SUBSET Names]

(* The type of every variable.                                              *)
TypeOK ==
  /\ buck \in [Maps -> [0 .. Buckets - 1 -> Seq(Entries)]]
  /\ store_size \in [Maps -> 0 .. SizeMax] /\ lock \in Threads \cup {NULL}
  /\ pc \in [Threads -> {"idle", "lock", "check", "set", "size", "unlock"}]
  /\ map \in [Threads -> Maps] /\ name \in [Threads -> Names \cup {NULL}]
  /\ type \in [Threads -> Types \cup {NULL}] /\ position \in [Threads -> 0 .. SizeMax]
  /\ block \in [Blocks -> Stores \cup {NULL}]
  /\ started \in [Maps -> 0 .. MaxVars]
  /\ first \in [Maps -> [Names -> Entries \cup {NULL}]]

(* Places of entries in the table of a map, and the entry in one.           *)
Places(m) == UNION {{k} \X (1 .. Len(buck[m][k])) : k \in 0 .. Buckets - 1}
In(m, p) == buck[m][p[1]][p[2]]
Ends(entry) == entry.position + Size[entry.type]

(* No two variables of a map share a byte, however their registrations      *)
(* interleave, fail, or come near SIZE_MAX (var.c:38-48).                   *)
Disjoint ==
  \A m \in Maps : \A p, q \in Places(m) :
    p # q => \/ Ends(In(m, p)) <= In(m, q).position
             \/ Ends(In(m, q)) <= In(m, p).position

(* Every registered variable lies in the stores to come, and no failed      *)
(* registration has left one there that does not.                           *)
InStore ==
  \A m \in Maps : ~Registering(m) => \A p \in Places(m) : Ends(In(m, p)) <= store_size[m]

(* The chains of a table are a map from names to what was registered under  *)
(* them first: collisions and second registrations change no lookup (ht.c). *)
FirstWins == \A m \in Maps, n \in Names : Find(m, n) = first[m][n]

(* The variable that a request finds under n was there when the store was   *)
(* made in which it is looked for.                                          *)
MadeFor(rb, eb, n) ==
  IF Find(Glob, n) # NULL THEN n \in block[rb].names ELSE eb # NULL /\ n \in block[eb].names

(* What a request gets for such a variable lies within the store it points  *)
(* into, whatever is registered while the store is in use, under the same   *)
(* name too (var.c:82-169, ht.c:162-171).  One that was registered after    *)
(* the store was made need not (var.c:48, req.c:46).                        *)
GetInBlock ==
  \A rb \in Blocks, eb \in Blocks \cup {NULL}, n \in Names, ty \in Types :
    LET at == VarGet(rb, eb, n, ty) IN
    /\ block[rb] # NULL /\ block[rb].map = Glob
    /\ eb # NULL => block[eb] # NULL /\ block[eb].map # Glob
    /\ MadeFor(rb, eb, n) /\ at # NULL
    => at.position + Size[ty] <= block[at.block].size

=============================================================================
