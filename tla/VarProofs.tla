------------------------------ MODULE VarProofs ------------------------------
(***************************************************************************)
(* Theorems about Var, for any names, sizes, hashes and threads, provided  *)
(* that no two threads register on the map of one endpoint, which has no   *)
(* lock (OneRegistrar): with two, fra_p_ht_set is not the one step it is   *)
(* in Var.                                                                 *)
(***************************************************************************)
EXTENDS Var, TLAPS, WellFoundedInduction

USE DEF args

-----------------------------------------------------------------------------
(* The inductive invariant                                                  *)

(* A thread inside reg is the only one there on its map.                    *)
InReg(t) == pc[t] \in {"check", "set", "size", "unlock"}
Exclusive ==
  /\ \A t \in Threads : pc[t] # "idle" => t \in Registrars[map[t]]
  /\ \A t \in Threads : InReg(t) /\ map[t] = Glob => lock = t

(* The types of what reg computes with.                                     *)
Pcs == {"idle", "lock", "check", "set", "size", "unlock"}
RegTypes ==
  /\ pc \in [Threads -> Pcs] /\ map \in [Threads -> Maps]
  /\ name \in [Threads -> Names \cup {NULL}] /\ type \in [Threads -> Types \cup {NULL}]
  /\ \A t \in Threads : pc[t] # "idle" => name[t] \in Names /\ type[t] \in Types
SizeTypes ==
  /\ store_size \in [Maps -> 0 .. SizeMax] /\ position \in [Threads -> 0 .. SizeMax]
TableTypes == buck \in [Maps -> [0 .. Buckets - 1 -> Seq(Entries)]]

(* The variable a thread registers goes where the store ends.               *)
Claims ==
  \A t \in Threads : pc[t] \in {"set", "size"} =>
    /\ position[t] = store_size[map[t]]
    /\ position[t] + Size[type[t]] < SizeMax

(* A map in whose registration a thread has set the entry, and not yet      *)
(* added to the size.                                                       *)
Pending(m, t) == pc[t] = "size" /\ map[t] = m
Fitting ==
  \A m \in Maps : \A p \in Places(m) :
    \/ Ends(In(m, p)) <= store_size[m]
    \/ \E t \in Threads : Pending(m, t) /\ In(m, p) = Entry(t)

(* A place of the table of a map is a bucket and an index into its chain.   *)
IsPlace(table, p) ==
  /\ p = <<p[1], p[2]>> /\ p[1] \in 0 .. Buckets - 1 /\ p[2] \in 1 .. Len(table[p[1]])

LEMMA PlaceIs == \A m, p : p \in Places(m) <=> IsPlace(buck[m], p)
  <1>1. ASSUME NEW m, NEW p, p \in Places(m) PROVE IsPlace(buck[m], p)
    <2>1. PICK k \in 0 .. Buckets - 1 : p \in {k} \X (1 .. Len(buck[m][k]))
      BY <1>1 DEF Places
    <2> QED BY <2>1 DEF IsPlace
  <1>2. ASSUME NEW m, NEW p, IsPlace(buck[m], p) PROVE p \in Places(m)
    <2>1. p[1] \in 0 .. Buckets - 1 /\ p \in {p[1]} \X (1 .. Len(buck[m][p[1]]))
      BY <1>2 DEF IsPlace
    <2> QED BY <2>1 DEF Places
  <1> QED BY <1>1, <1>2

LEMMA NextPlaceIs == \A m, p : p \in Places(m)' <=> IsPlace(buck'[m], p)
  <1>1. ASSUME NEW m, NEW p, p \in Places(m)' PROVE IsPlace(buck'[m], p)
    <2>1. PICK k \in 0 .. Buckets - 1 : p \in {k} \X (1 .. Len(buck'[m][k]))
      BY <1>1 DEF Places
    <2> QED BY <2>1 DEF IsPlace
  <1>2. ASSUME NEW m, NEW p, IsPlace(buck'[m], p) PROVE p \in Places(m)'
    <2>1. p[1] \in 0 .. Buckets - 1 /\ p \in {p[1]} \X (1 .. Len(buck'[m][p[1]]))
      BY <1>2 DEF IsPlace
    <2> QED BY <2>1 DEF Places
  <1> QED BY <1>1, <1>2

Inv == Exclusive /\ RegTypes /\ SizeTypes /\ TableTypes /\ Claims /\ Fitting /\ Disjoint

LEMMA InitInv == Init => Inv
  <1> SUFFICES ASSUME Init PROVE Inv
    OBVIOUS
  <1>1. Glob \in Maps
    BY DEF Maps
  <1>2. Exclusive /\ Claims
    BY DEF Init, Exclusive, Claims, InReg
  <1>3. RegTypes
    BY <1>1 DEF Init, RegTypes, Pcs
  <1>4. 0 \in 0 .. SizeMax
    BY SizeType
  <1>5. SizeTypes
    BY <1>4 DEF Init, SizeTypes
  <1>6. TableTypes
    <2>1. <<>> \in Seq(Entries)
      OBVIOUS
    <2> QED BY <2>1 DEF Init, TableTypes
  <1>7. \A m \in Maps : Places(m) = {}
    <2>1. \A m \in Maps : \A p : ~IsPlace(buck[m], p)
      BY DEF Init, IsPlace
    <2> QED BY <2>1, PlaceIs
  <1>8. Fitting /\ Disjoint
    BY <1>7 DEF Fitting, Disjoint
  <1> QED BY <1>2, <1>3, <1>5, <1>6, <1>8 DEF Inv

LEMMA Alone ==
  ASSUME Exclusive, RegTypes, NEW t \in Threads, NEW u \in Threads,
         InReg(t), InReg(u), map[t] = map[u]
  PROVE  t = u
  BY OneRegistrar DEF Exclusive, RegTypes, InReg, Maps

-----------------------------------------------------------------------------
(* Steps                                                                    *)

LEMMA ExclusiveNext == Exclusive /\ RegTypes /\ [Next]_vars => Exclusive'
  <1> SUFFICES ASSUME Exclusive, RegTypes, [Next]_vars PROVE Exclusive'
    OBVIOUS
  <1> USE NullDistinct, GlobDistinct DEF Exclusive, InReg, RegTypes
  <1>1. ASSUME NEW t \in Threads, NEW m \in Maps, NEW n \in Names, NEW ty \in Types,
               RegCall(t, m, n, ty)
        PROVE  Exclusive'
    BY <1>1 DEF RegCall
  <1>2. ASSUME NEW t \in Threads, RegLock(t) PROVE Exclusive'
    BY <1>2 DEF RegLock
  <1>3. ASSUME NEW t \in Threads, RegCheck(t) PROVE Exclusive'
    BY <1>3 DEF RegCheck
  <1>4. ASSUME NEW t \in Threads, RegSet(t) PROVE Exclusive'
    BY <1>4 DEF RegSet
  <1>5. ASSUME NEW t \in Threads, RegSize(t) PROVE Exclusive'
    BY <1>5 DEF RegSize
  <1>6. ASSUME NEW t \in Threads, RegReturn(t) PROVE Exclusive'
    BY <1>6 DEF RegReturn
  <1>7. ASSUME UNCHANGED <<pc, map, lock>> PROVE Exclusive'
    BY <1>7
  <1> QED BY <1>1, <1>2, <1>3, <1>4, <1>5, <1>6, <1>7
          DEF Next, StoreAlloc, StoreFree, vars

LEMMA RegTypesNext == RegTypes /\ [Next]_vars => RegTypes'
  <1> SUFFICES ASSUME RegTypes, [Next]_vars PROVE RegTypes'
    OBVIOUS
  <1> USE DEF RegTypes, Pcs
  <1>1. ASSUME NEW t \in Threads, NEW m \in Maps, NEW n \in Names, NEW ty \in Types,
               RegCall(t, m, n, ty)
        PROVE  RegTypes'
    BY <1>1 DEF RegCall
  <1>2. ASSUME NEW t \in Threads, RegLock(t) PROVE RegTypes'
    BY <1>2 DEF RegLock
  <1>3. ASSUME NEW t \in Threads, RegCheck(t) PROVE RegTypes'
    BY <1>3 DEF RegCheck
  <1>4. ASSUME NEW t \in Threads, RegSet(t) PROVE RegTypes'
    BY <1>4 DEF RegSet
  <1>5. ASSUME NEW t \in Threads, RegSize(t) PROVE RegTypes'
    BY <1>5 DEF RegSize
  <1>6. ASSUME NEW t \in Threads, RegReturn(t) PROVE RegTypes'
    BY <1>6 DEF RegReturn
  <1>7. ASSUME UNCHANGED <<pc, args>> PROVE RegTypes'
    BY <1>7
  <1> QED BY <1>1, <1>2, <1>3, <1>4, <1>5, <1>6, <1>7
          DEF Next, StoreAlloc, StoreFree, vars

(* Only three of the steps change what the rest of Inv is about.            *)
LEMMA Frame ==
  ASSUME [Next]_vars, \A t \in Threads : ~(RegCheck(t) \/ RegSet(t) \/ RegSize(t))
  PROVE  UNCHANGED <<buck, store_size, position>>
  BY DEF Next, RegCall, RegLock, RegReturn, StoreAlloc, StoreFree, vars

LEMMA CheckStep ==
  ASSUME Inv, NEW t \in Threads, RegCheck(t)
  PROVE  /\ position' \in [Threads -> 0 .. SizeMax]
         /\ pc'[t] = "set" =>
              /\ position'[t] = store_size[map[t]]
              /\ position'[t] + Size[type[t]] < SizeMax
  <1> USE DEF Inv, RegTypes, SizeTypes
  <1>1. map[t] \in Maps /\ type[t] \in Types /\ store_size[map[t]] \in 0 .. SizeMax
    BY DEF RegCheck
  <1>2. position' = position \/ position' = [position EXCEPT ![t] = store_size[map[t]]]
    BY DEF RegCheck
  <1>3. position' \in [Threads -> 0 .. SizeMax]
    BY <1>1, <1>2
  <1>4. ASSUME pc'[t] = "set"
        PROVE  /\ position'[t] = store_size[map[t]] /\ Fits(map[t], Size[type[t]])
    BY <1>4 DEF RegCheck
  <1>5. Fits(map[t], Size[type[t]]) => store_size[map[t]] + Size[type[t]] < SizeMax
    BY <1>1, SizeType DEF Fits
  <1> QED BY <1>3, <1>4, <1>5

LEMMA SizeStep ==
  ASSUME Inv, NEW t \in Threads, RegSize(t)
  PROVE  /\ store_size' = [store_size EXCEPT ![map[t]] = store_size[map[t]] + Size[type[t]]]
         /\ store_size' \in [Maps -> 0 .. SizeMax]
         /\ store_size[map[t]] + Size[type[t]] \in 0 .. SizeMax
         /\ Size[type[t]] \in Nat /\ store_size[map[t]] \in Nat
  <1> USE DEF Inv, RegTypes, SizeTypes
  <1>1. map[t] \in Maps /\ type[t] \in Types /\ store_size[map[t]] \in 0 .. SizeMax
    BY DEF RegSize
  <1>2. store_size[map[t]] + Size[type[t]] < SizeMax
    BY DEF RegSize, Claims
  <1>3. Size[type[t]] \in Nat
    BY <1>1, SizeType
  <1>4. Grown(map[t], Size[type[t]]) = store_size[map[t]] + Size[type[t]]
    BY <1>1, <1>2, <1>3, SizeType DEF Grown
  <1>5. store_size[map[t]] + Size[type[t]] \in 0 .. SizeMax
    BY <1>1, <1>2, <1>3, SizeType
  <1> QED BY <1>1, <1>3, <1>4, <1>5 DEF RegSize

(* RegSet makes one place, at the end of a chain, for the entry, or none.   *)
LEMMA SetStep ==
  ASSUME Inv, NEW t \in Threads, RegSet(t)
  PROVE  /\ TableTypes'
         /\ Entry(t) \in Entries
         /\ \A m \in Maps : \A p \in Places(m)' :
              \/ p \in Places(m) /\ In(m, p)' = In(m, p)
              \/ m = map[t] /\ p \notin Places(m) /\ In(m, p)' = Entry(t) /\ pc'[t] = "size"
         /\ \A m \in Maps : \A p, q \in Places(m)' \ Places(m) : p = q
  <1> USE DEF Inv, RegTypes, SizeTypes, TableTypes
  <1>1. /\ map[t] \in Maps /\ type[t] \in Types /\ name[t] \in Names
        /\ position[t] \in 0 .. SizeMax
    BY DEF RegSet
  <1>2. Entry(t) \in Entries
    BY <1>1 DEF Entry, Entries
  <1> PICK k, x, a : k = BucketOf(name[t]) /\ x = Entry(t) /\ a = map[t]
    OBVIOUS
  <1>3. k \in 0 .. Buckets - 1
    BY <1>1, HashType DEF BucketOf
  <1>4. CASE buck' = buck
    BY <1>2, <1>4 DEF Places, In
  <1>5. CASE pc' = [pc EXCEPT ![t] = "size"] /\ buck' = [buck EXCEPT ![a][k] = Append(@, x)]
    <2>1. /\ buck'[a][k] = Append(buck[a][k], x)
          /\ \A m \in Maps, l \in 0 .. Buckets - 1 :
               m # a \/ l # k => buck'[m][l] = buck[m][l]
      BY <1>1, <1>3, <1>5
    <2>2. buck[a][k] \in Seq(Entries)
      BY <1>1, <1>3
    <2>3. /\ Append(buck[a][k], x) \in Seq(Entries)
          /\ Len(Append(buck[a][k], x)) = Len(buck[a][k]) + 1 /\ Len(buck[a][k]) \in Nat
          /\ Append(buck[a][k], x)[Len(buck[a][k]) + 1] = x
          /\ \A j \in 1 .. Len(buck[a][k]) : Append(buck[a][k], x)[j] = buck[a][k][j]
      BY <1>2, <2>2
    <2>4. TableTypes'
      BY <1>1, <1>3, <1>5, <2>3
    <2>5. pc'[t] = "size"
      BY <1>5
    <2>6. ASSUME NEW m \in Maps, NEW p \in Places(m)'
          PROVE  \/ p \in Places(m) /\ In(m, p)' = In(m, p)
                 \/ m = a /\ p = <<k, Len(buck[a][k]) + 1>> /\ In(m, p)' = x
      <3>1. /\ p = <<p[1], p[2]>> /\ p[1] \in 0 .. Buckets - 1
            /\ p[2] \in 1 .. Len(buck'[m][p[1]])
        BY <2>6, NextPlaceIs DEF IsPlace
      <3>2. CASE m # a \/ p[1] # k
        BY <2>1, <3>1, <3>2, PlaceIs DEF IsPlace, In
      <3>3. CASE m = a /\ p[1] = k /\ p[2] <= Len(buck[a][k])
        <4>1. p[2] \in 1 .. Len(buck[a][k])
          BY <2>3, <3>1, <3>3
        <4>2. p \in Places(m)
          BY <3>1, <3>3, <4>1, PlaceIs DEF IsPlace
        <4>3. buck'[a][k][p[2]] = buck[a][k][p[2]]
          BY <2>1, <2>3, <4>1
        <4> QED BY <3>3, <4>2, <4>3 DEF In
      <3>4. CASE m = a /\ p[1] = k /\ ~(p[2] <= Len(buck[a][k]))
        <4>1. p[2] = Len(buck[a][k]) + 1
          BY <2>1, <2>3, <3>1, <3>4
        <4> QED BY <2>1, <2>3, <3>1, <3>4, <4>1 DEF In
      <3> QED BY <3>2, <3>3, <3>4
    <2>7. <<k, Len(buck[a][k]) + 1>> \notin Places(a)
      BY <2>3, PlaceIs DEF IsPlace
    <2> QED BY <1>2, <2>4, <2>5, <2>6, <2>7
  <1> QED BY <1>4, <1>5 DEF RegSet

LEMMA PlaceType ==
  ASSUME TableTypes, NEW m \in Maps, NEW p \in Places(m)
  PROVE  In(m, p) \in Entries
  <1>1. p[1] \in 0 .. Buckets - 1 /\ p[2] \in 1 .. Len(buck[m][p[1]])
    BY PlaceIs DEF IsPlace
  <1>2. buck[m][p[1]] \in Seq(Entries)
    BY <1>1 DEF TableTypes
  <1> QED BY <1>1, <1>2 DEF In

LEMMA EntryType ==
  ASSUME NEW x \in Entries
  PROVE  x.position \in Nat /\ Size[x.type] \in Nat /\ Size[x.type] > 0 /\ Ends(x) \in Nat
  BY SizeType DEF Entries, Ends

LEMMA SizeTypesNext == Inv /\ [Next]_vars => SizeTypes'
  <1> SUFFICES ASSUME Inv, [Next]_vars PROVE SizeTypes'
    OBVIOUS
  <1>1. ASSUME NEW t \in Threads, RegCheck(t) PROVE SizeTypes'
    BY <1>1, CheckStep DEF RegCheck, SizeTypes, Inv
  <1>2. ASSUME NEW t \in Threads, RegSet(t) PROVE SizeTypes'
    BY <1>2 DEF RegSet, SizeTypes, Inv
  <1>3. ASSUME NEW t \in Threads, RegSize(t) PROVE SizeTypes'
    BY <1>3, SizeStep DEF RegSize, SizeTypes, Inv
  <1> QED BY <1>1, <1>2, <1>3, Frame DEF SizeTypes, Inv

LEMMA TableTypesNext == Inv /\ [Next]_vars => TableTypes'
  <1> SUFFICES ASSUME Inv, [Next]_vars PROVE TableTypes'
    OBVIOUS
  <1>1. ASSUME NEW t \in Threads, RegSet(t) PROVE TableTypes'
    BY <1>1, SetStep
  <1>2. ASSUME \A t \in Threads : ~RegSet(t) PROVE UNCHANGED buck
    BY <1>2, Frame DEF RegCheck, RegSize
  <1> QED BY <1>1, <1>2 DEF TableTypes, Inv

LEMMA ClaimsNext == Inv /\ [Next]_vars => Claims'
  <1> SUFFICES ASSUME Inv, [Next]_vars, NEW u \in Threads, pc'[u] \in {"set", "size"}
               PROVE  /\ position'[u] = store_size'[map'[u]]
                      /\ position'[u] + Size[type'[u]] < SizeMax
    BY DEF Claims
  <1> USE DEF Inv, RegTypes, SizeTypes
  <1>1. ASSUME pc[u] \in {"set", "size"}, position'[u] = position[u], map'[u] = map[u],
               type'[u] = type[u], store_size'[map[u]] = store_size[map[u]]
        PROVE  /\ position'[u] = store_size'[map'[u]]
               /\ position'[u] + Size[type'[u]] < SizeMax
    BY <1>1 DEF Claims
  <1>2. ASSUME NEW t \in Threads, RegCheck(t)
        PROVE  /\ position'[u] = store_size'[map'[u]]
               /\ position'[u] + Size[type'[u]] < SizeMax
    <2>1. CASE u = t
      <3>1. pc'[t] = "set" /\ UNCHANGED <<map, type, store_size>>
        BY <1>2, <2>1 DEF RegCheck
      <3> QED BY <1>2, <2>1, <3>1, CheckStep
    <2>2. CASE u # t
      BY <1>1, <1>2, <2>2 DEF RegCheck
    <2> QED BY <2>1, <2>2
  <1>3. ASSUME NEW t \in Threads, RegSet(t)
        PROVE  pc[u] \in {"set", "size"} /\ UNCHANGED <<position, map, type, store_size>>
    BY <1>3 DEF RegSet
  <1>4. ASSUME NEW t \in Threads, RegSize(t)
        PROVE  /\ pc[u] \in {"set", "size"} /\ UNCHANGED <<position, map, type>>
               /\ store_size'[map[u]] = store_size[map[u]]
    <2>1. u # t /\ pc[u] \in {"set", "size"} /\ pc[t] = "size" /\ UNCHANGED <<position, map, type>>
      BY <1>4 DEF RegSize
    <2>2. map[u] # map[t]
      BY <2>1, Alone DEF InReg
    <2> QED BY <1>4, <2>1, <2>2, SizeStep
  <1>5. ASSUME NEW t \in Threads,
               (\E m \in Maps, n \in Names, ty \in Types : RegCall(t, m, n, ty))
                 \/ RegLock(t) \/ RegReturn(t)
        PROVE  /\ pc[u] \in {"set", "size"} /\ position' = position /\ map'[u] = map[u]
               /\ type'[u] = type[u] /\ store_size' = store_size
    BY <1>5 DEF RegCall, RegLock, RegReturn
  <1>6. ASSUME UNCHANGED <<pc, map, type, position, store_size>>
        PROVE  /\ position'[u] = store_size'[map'[u]]
               /\ position'[u] + Size[type'[u]] < SizeMax
    BY <1>1, <1>6
  <1> QED BY <1>1, <1>2, <1>3, <1>4, <1>5, <1>6 DEF Next, StoreAlloc, StoreFree, vars

(* Until a registration has added to the size, all older variables of its   *)
(* map end where its own begins.                                            *)
LEMMA OthersFit ==
  ASSUME Inv, NEW t \in Threads, pc[t] = "set", NEW p \in Places(map[t])
  PROVE  Ends(In(map[t], p)) <= store_size[map[t]]
  <1>1. map[t] \in Maps
    BY DEF Inv, RegTypes
  <1>2. \A u \in Threads : ~Pending(map[t], u)
    BY Alone DEF Inv, InReg, Pending
  <1> QED BY <1>1, <1>2 DEF Inv, Fitting

LEMMA FittingNext == Inv /\ [Next]_vars => Fitting'
  <1> SUFFICES ASSUME Inv, [Next]_vars PROVE Fitting'
    OBVIOUS
  <1> USE DEF Inv, RegTypes, SizeTypes
  <1>1. ASSUME NEW t \in Threads, RegSet(t) PROVE Fitting'
    <2> SUFFICES ASSUME NEW m \in Maps, NEW p \in Places(m)'
                 PROVE  \/ Ends(In(m, p)') <= store_size'[m]
                        \/ \E u \in Threads : pc'[u] = "size" /\ map'[u] = m /\ In(m, p)' = Entry(u)'
      BY DEF Fitting, Pending, Ends
    <2>1. /\ pc[t] = "set" /\ UNCHANGED <<store_size, map, name, type, position>>
          /\ \A u \in Threads : Entry(u)' = Entry(u)
          /\ \A u \in Threads : u # t => pc'[u] = pc[u]
      BY <1>1 DEF RegSet, Entry
    <2>2. CASE p \in Places(m) /\ In(m, p)' = In(m, p)
      <3>1. CASE Ends(In(m, p)) <= store_size[m]
        BY <2>1, <2>2, <3>1
      <3>2. CASE \E u \in Threads : Pending(m, u) /\ In(m, p) = Entry(u)
        BY <2>1, <2>2, <3>2 DEF Pending
      <3> QED BY <2>2, <3>1, <3>2 DEF Fitting
    <2>3. CASE m = map[t] /\ In(m, p)' = Entry(t) /\ pc'[t] = "size"
      BY <2>1, <2>3
    <2> QED BY <1>1, <2>2, <2>3, SetStep
  <1>2. ASSUME NEW t \in Threads, RegSize(t) PROVE Fitting'
    <2>0. \A m \in Maps : Places(m)' = Places(m) /\ \A p : In(m, p)' = In(m, p)
      BY <1>2 DEF RegSize, Places, In
    <2> SUFFICES ASSUME NEW m \in Maps, NEW p \in Places(m)
                 PROVE  \/ Ends(In(m, p)) <= store_size'[m]
                        \/ \E u \in Threads : pc'[u] = "size" /\ map'[u] = m /\ In(m, p) = Entry(u)'
      BY <2>0 DEF Fitting, Pending, Ends
    <2>1. /\ pc[t] = "size" /\ UNCHANGED <<map, name, type, position>>
          /\ \A u \in Threads : Entry(u)' = Entry(u)
          /\ \A u \in Threads : u # t => pc'[u] = pc[u]
      BY <1>2 DEF RegSize, Entry
    <2>2. In(m, p) \in Entries /\ Ends(In(m, p)) \in Nat /\ store_size[m] \in Nat
      BY PlaceType, EntryType
    <2>3. CASE m # map[t]
      <3>1. store_size'[m] = store_size[m]
        BY <1>2, <2>3, SizeStep
      <3>2. CASE Ends(In(m, p)) <= store_size[m]
        BY <3>1, <3>2
      <3>3. CASE \E u \in Threads : Pending(m, u) /\ In(m, p) = Entry(u)
        BY <2>1, <2>3, <3>3 DEF Pending
      <3> QED BY <3>2, <3>3 DEF Fitting
    <2>4. CASE m = map[t]
      <3>1. store_size'[m] = store_size[m] + Size[type[t]] /\ Size[type[t]] \in Nat
        BY <1>2, <2>4, SizeStep
      <3>2. CASE Ends(In(m, p)) <= store_size[m]
        BY <2>2, <3>1, <3>2
      <3>3. CASE \E u \in Threads : Pending(m, u) /\ In(m, p) = Entry(u)
        <4>1. In(m, p) = Entry(t)
          BY <2>1, <2>4, <3>3, Alone DEF Pending, InReg
        <4>2. Ends(In(m, p)) = store_size[m] + Size[type[t]]
          BY <2>1, <2>4, <4>1 DEF Entry, Ends, Claims
        <4> QED BY <2>2, <3>1, <4>2
      <3> QED BY <3>2, <3>3 DEF Fitting
    <2> QED BY <2>3, <2>4
  <1>3. ASSUME UNCHANGED <<buck, store_size>>,
               \A u \in Threads : pc[u] = "size" =>
                 pc'[u] = "size" /\ map'[u] = map[u] /\ Entry(u)' = Entry(u)
        PROVE  Fitting'
    <2>1. \A m \in Maps : Places(m)' = Places(m) /\ \A p : In(m, p)' = In(m, p)
      BY <1>3 DEF Places, In
    <2> SUFFICES ASSUME NEW m \in Maps, NEW p \in Places(m)
                 PROVE  \/ Ends(In(m, p)) <= store_size[m]
                        \/ \E u \in Threads : pc'[u] = "size" /\ map'[u] = m /\ In(m, p) = Entry(u)'
      BY <1>3, <2>1 DEF Fitting, Pending, Ends
    <2> QED BY <1>3 DEF Fitting, Pending
  <1>4. ASSUME NEW t \in Threads,
               (\E m \in Maps, n \in Names, ty \in Types : RegCall(t, m, n, ty))
                 \/ RegLock(t) \/ RegReturn(t) \/ RegCheck(t), NEW u \in Threads,
               pc[u] = "size"
        PROVE  /\ UNCHANGED <<buck, store_size>>
               /\ pc'[u] = "size" /\ map'[u] = map[u] /\ Entry(u)' = Entry(u)
    BY <1>4 DEF RegCall, RegLock, RegReturn, RegCheck, Entry
  <1>5. ASSUME NEW t \in Threads,
               (\E m \in Maps, n \in Names, ty \in Types : RegCall(t, m, n, ty))
                 \/ RegLock(t) \/ RegReturn(t) \/ RegCheck(t)
        PROVE  UNCHANGED <<buck, store_size>>
    BY <1>5 DEF RegCall, RegLock, RegReturn, RegCheck
  <1>6. ASSUME UNCHANGED <<buck, store_size, pc, args, position>> PROVE Fitting'
    BY <1>3, <1>6 DEF Entry
  <1> QED BY <1>1, <1>2, <1>3, <1>4, <1>5, <1>6 DEF Next, StoreAlloc, StoreFree, vars

LEMMA DisjointNext == Inv /\ [Next]_vars => Disjoint'
  <1> SUFFICES ASSUME Inv, [Next]_vars PROVE Disjoint'
    OBVIOUS
  <1>1. ASSUME NEW t \in Threads, RegSet(t) PROVE Disjoint'
    <2> SUFFICES ASSUME NEW m \in Maps, NEW p \in Places(m)', NEW q \in Places(m)', p # q
                 PROVE  \/ Ends(In(m, p)') <= In(m, q)'.position
                        \/ Ends(In(m, q)') <= In(m, p)'.position
      BY DEF Disjoint, Ends
    <2>1. pc[t] = "set" /\ Entry(t).position = store_size[map[t]]
      BY <1>1 DEF RegSet, Entry, Inv, Claims
    <2>2. CASE p \in Places(m) /\ q \in Places(m)
      BY <1>1, <2>2, SetStep DEF Inv, Disjoint
    <2>3. CASE p \notin Places(m) /\ q \in Places(m)
      BY <1>1, <2>1, <2>3, SetStep, OthersFit
    <2>4. CASE p \in Places(m) /\ q \notin Places(m)
      BY <1>1, <2>1, <2>4, SetStep, OthersFit
    <2>5. CASE p \notin Places(m) /\ q \notin Places(m)
      BY <1>1, <2>5, SetStep
    <2> QED BY <2>2, <2>3, <2>4, <2>5
  <1>2. ASSUME \A t \in Threads : ~RegSet(t) PROVE UNCHANGED buck
    BY <1>2, Frame DEF RegCheck, RegSize
  <1>3. ASSUME UNCHANGED buck PROVE Disjoint'
    BY <1>3 DEF Disjoint, Places, In, Ends, Inv
  <1> QED BY <1>1, <1>2, <1>3

LEMMA InvNext == Inv /\ [Next]_vars => Inv'
  BY ExclusiveNext, RegTypesNext, SizeTypesNext, TableTypesNext, ClaimsNext, FittingNext,
     DisjointNext DEF Inv

-----------------------------------------------------------------------------
(* Theorems                                                                 *)

(* No two variables of a request, or of an endpoint, overlap, for any       *)
(* number of them, any sizes and any value of SIZE_MAX.                     *)
THEOREM NoOverlap == Spec => []Disjoint
  <1>1. Inv => Disjoint
    BY DEF Inv
  <1> QED BY InitInv, InvNext, <1>1, PTL DEF Spec

(* Every registered variable lies within the stores that will be allocated. *)
THEOREM AllInStore == Spec => []InStore
  <1>1. Inv => InStore
    BY DEF Inv, Fitting, InStore, Pending, Registering
  <1> QED BY InitInv, InvNext, <1>1, PTL DEF Spec

-----------------------------------------------------------------------------
(* Types                                                                    *)

RestTypes ==
  /\ lock \in Threads \cup {NULL}
  /\ block \in [Blocks -> Stores \cup {NULL}]
  /\ started \in [Maps -> 0 .. MaxVars]
  /\ first \in [Maps -> [Names -> Entries \cup {NULL}]]
AllTypes == RegTypes /\ SizeTypes /\ TableTypes /\ RestTypes

LEMMA GrownType == ASSUME SizeTypes, NEW m \in Maps, NEW s \in Nat PROVE Grown(m, s) \in 0 .. SizeMax
  <1>1. store_size[m] + s \in Nat /\ SizeMax + 1 \in Nat \ {0}
    BY SizeType DEF SizeTypes
  <1>2. \A x \in Nat, y \in Nat \ {0} : x % y \in 0 .. y - 1
    OBVIOUS
  <1>3. (store_size[m] + s) % (SizeMax + 1) \in 0 .. (SizeMax + 1) - 1
    BY <1>1, <1>2
  <1>4. (SizeMax + 1) - 1 = SizeMax
    BY SizeType
  <1> QED BY <1>3, <1>4 DEF Grown

LEMMA AppendType ==
  ASSUME TableTypes, NEW m \in Maps, NEW n \in Names, NEW x \in Entries
  PROVE  [buck EXCEPT ![m][BucketOf(n)] = Append(@, x)] \in [Maps -> [0 .. Buckets - 1 -> Seq(Entries)]]
  <1>1. BucketOf(n) \in 0 .. Buckets - 1
    BY HashType DEF BucketOf
  <1> DEFINE k == BucketOf(n)
             row == [buck[m] EXCEPT ![k] = Append(@, x)]
  <1>2. buck[m] \in [0 .. Buckets - 1 -> Seq(Entries)]
    BY DEF TableTypes
  <1>3. Append(buck[m][k], x) \in Seq(Entries)
    <2> HIDE DEF k
    <2>1. buck[m][k] \in Seq(Entries)
      BY <1>1, <1>2 DEF k
    <2> QED BY <2>1
  <1>4. row \in [0 .. Buckets - 1 -> Seq(Entries)]
    BY <1>2, <1>3
  <1>5. [buck EXCEPT ![m] = row] \in [Maps -> [0 .. Buckets - 1 -> Seq(Entries)]]
    BY <1>4 DEF TableTypes
  <1> QED BY <1>5

LEMMA TypesNext == AllTypes /\ [Next]_vars => AllTypes'
  <1> SUFFICES ASSUME AllTypes, [Next]_vars PROVE AllTypes'
    OBVIOUS
  <1> USE DEF AllTypes, SizeTypes, TableTypes, RestTypes
  <1>0. RegTypes'
    BY RegTypesNext
  <1>1. ASSUME NEW t \in Threads, NEW m \in Maps, NEW n \in Names, NEW ty \in Types,
               RegCall(t, m, n, ty)
        PROVE  AllTypes'
    <2>1. started' = [started EXCEPT ![m] = started[m] + 1] /\ started[m] < MaxVars
      BY <1>1 DEF RegCall
    <2>2. started' \in [Maps -> 0 .. MaxVars]
      BY <2>1, UseType
    <2> QED BY <1>0, <1>1, <2>2 DEF RegCall
  <1>2. ASSUME NEW t \in Threads, RegLock(t) PROVE AllTypes'
    BY <1>0, <1>2 DEF RegLock
  <1>3. ASSUME NEW t \in Threads, RegCheck(t) PROVE AllTypes'
    <2>1. map[t] \in Maps /\ store_size[map[t]] \in 0 .. SizeMax
      BY DEF RegTypes
    <2>2. position' \in [Threads -> 0 .. SizeMax]
      BY <1>3, <2>1 DEF RegCheck
    <2> QED BY <1>0, <1>3, <2>2 DEF RegCheck
  <1>4. ASSUME NEW t \in Threads, RegSet(t) PROVE AllTypes'
    <2>1. map[t] \in Maps /\ name[t] \in Names /\ type[t] \in Types /\ position[t] \in 0 .. SizeMax
      BY <1>4 DEF RegSet, RegTypes
    <2>2. Entry(t) \in Entries
      BY <2>1 DEF Entry, Entries
    <2>3. ASSUME NEW m \in Maps, NEW n \in Names, NEW x \in Entries,
                 buck' = [buck EXCEPT ![m][BucketOf(n)] = Append(@, x)]
          PROVE  buck' \in [Maps -> [0 .. Buckets - 1 -> Seq(Entries)]]
      BY ONLY AllTypes, <2>3, AppendType DEF AllTypes
    <2>4. buck' \in [Maps -> [0 .. Buckets - 1 -> Seq(Entries)]]
      <3>1. CASE buck' = [buck EXCEPT ![map[t]][BucketOf(name[t])] = Append(@, Entry(t))]
        BY ONLY <2>1, <2>2, <2>3, <3>1
      <3>2. buck' = buck \/ buck' = [buck EXCEPT ![map[t]][BucketOf(name[t])] = Append(@, Entry(t))]
        BY <1>4 DEF RegSet
      <3> QED BY <3>1, <3>2
    <2>5. first' \in [Maps -> [Names -> Entries \cup {NULL}]]
      <3> PICK row : row = [first[map[t]] EXCEPT ![name[t]] = IF @ = NULL THEN Entry(t) ELSE @]
        OBVIOUS
      <3>1. row \in [Names -> Entries \cup {NULL}]
        BY <2>1, <2>2
      <3>2. first' = first \/ first' = [first EXCEPT ![map[t]] = row]
        BY <1>4 DEF RegSet
      <3> QED BY <2>1, <3>1, <3>2
    <2> QED BY <1>0, <1>4, <2>4, <2>5 DEF RegSet
  <1>5. ASSUME NEW t \in Threads, RegSize(t) PROVE AllTypes'
    <2>1. map[t] \in Maps /\ type[t] \in Types
      BY <1>5 DEF RegSize, RegTypes
    <2>2. Size[type[t]] \in Nat
      BY <2>1, SizeType
    <2>3. Grown(map[t], Size[type[t]]) \in 0 .. SizeMax
      BY <2>1, <2>2, GrownType
    <2>4. store_size' \in [Maps -> 0 .. SizeMax]
      BY <1>5, <2>1, <2>3 DEF RegSize
    <2> QED BY <1>0, <1>5, <2>4 DEF RegSize
  <1>6. ASSUME NEW t \in Threads, RegReturn(t) PROVE AllTypes'
    BY <1>0, <1>6 DEF RegReturn
  <1>7. ASSUME NEW b \in Blocks, NEW m \in Maps, StoreFree(b) \/ StoreAlloc(b, m) PROVE AllTypes'
    <2>1. Store(m) \in Stores
      BY DEF Store, Stores
    <2>2. block' \in [Blocks -> Stores \cup {NULL}]
      BY <1>7, <2>1 DEF StoreFree, StoreAlloc
    <2> QED BY <1>0, <1>7, <2>2 DEF StoreFree, StoreAlloc
  <1>8. ASSUME UNCHANGED vars PROVE AllTypes'
    BY <1>0, <1>8 DEF vars
  <1> QED BY <1>1, <1>2, <1>3, <1>4, <1>5, <1>6, <1>7, <1>8 DEF Next, Maps

LEMMA TypesInit == Init => AllTypes
  <1> SUFFICES ASSUME Init PROVE AllTypes
    OBVIOUS
  <1>1. RegTypes /\ SizeTypes /\ TableTypes
    BY InitInv DEF Inv
  <1>2. /\ lock = NULL /\ block = [b \in Blocks |-> NULL] /\ started = [m \in Maps |-> 0]
        /\ first = [m \in Maps |-> [n \in Names |-> NULL]]
    BY DEF Init
  <1>3. started \in [Maps -> 0 .. MaxVars]
    BY <1>2, UseType
  <1> QED BY <1>1, <1>2, <1>3 DEF AllTypes, RestTypes

(* Every variable keeps its type, with at most one registrar per endpoint   *)
(* and any number on the global map; in particular sizes and positions stay *)
(* within SIZE_MAX (var.c:32-58).                                           *)
THEOREM Typing == Spec => []TypeOK
  <1>1. AllTypes => TypeOK
    BY DEF AllTypes, RegTypes, Pcs, SizeTypes, TableTypes, RestTypes, TypeOK
  <1> QED BY TypesInit, TypesNext, <1>1, PTL DEF Spec

-----------------------------------------------------------------------------
(* Lookups                                                                  *)

LEMMA FirstIn ==
  ASSUME NEW S \in SUBSET Nat, S # {}
  PROVE  First(S) \in S /\ \A k \in S : First(S) <= k
  <1> DEFINE R == OpToRel(<, Nat)
  <1>1. \E x \in S : \A y \in S : ~(<<y, x>> \in R)
    BY NatLessThanWellFounded, WFMin
  <1>2. \A x, y \in Nat : y < x => <<y, x>> \in R
    BY DEF OpToRel
  <1> HIDE DEF R
  <1>3. PICK x \in S : \A y \in S : ~(<<y, x>> \in R)
    BY <1>1
  <1>4. \A k \in S : ~(k < x)
    BY <1>2, <1>3, Zenon
  <1>5. \A k \in S : x <= k
    BY <1>4
  <1> QED BY <1>5 DEF First

LEMMA FirstIs ==
  ASSUME NEW S \in SUBSET Nat, NEW m \in S, \A k \in S : m <= k
  PROVE  First(S) = m
  <1>1. First(S) \in S /\ \A k \in S : First(S) <= k
    BY FirstIn
  <1>2. First(S) \in Nat /\ m \in Nat /\ First(S) <= m /\ m <= First(S)
    BY <1>1
  <1> QED BY <1>2

LEMMA LookupIn ==
  ASSUME NEW chain \in Seq(Entries), NEW n, Lookup(chain, n) # NULL
  PROVE  \E j \in 1 .. Len(chain) : Lookup(chain, n) = chain[j]
  <1>1. Hits(chain, n) # {} /\ Hits(chain, n) \in SUBSET Nat
    BY DEF Lookup, Hits
  <1>2. First(Hits(chain, n)) \in 1 .. Len(chain)
    BY <1>1, FirstIn DEF Hits
  <1> QED BY <1>1, <1>2 DEF Lookup

(* An entry that is appended is found if, and only if, none was before.     *)
LEMMA LookupAppend ==
  ASSUME NEW chain \in Seq(Entries), NEW x \in Entries, NEW n
  PROVE  Lookup(Append(chain, x), n) =
           IF x.name = n /\ Lookup(chain, n) = NULL THEN x ELSE Lookup(chain, n)
  <1> DEFINE longer == Append(chain, x)
             len == Len(chain)
  <1>1. /\ len \in Nat /\ Len(longer) = len + 1 /\ longer[len + 1] = x
        /\ \A j \in 1 .. len : longer[j] = chain[j]
    OBVIOUS
  <1>2. Hits(longer, n) = IF x.name = n THEN Hits(chain, n) \cup {len + 1} ELSE Hits(chain, n)
    BY <1>1 DEF Hits
  <1>3. Hits(chain, n) \in SUBSET (1 .. len)
    BY <1>1 DEF Hits
  <1>4. \A j \in 1 .. len : chain[j] # NULL
    <2>1. \A e \in Entries : e # NULL
      <3>1. Entries \subseteq [name : Names, type : Types, position : Nat]
        BY DEF Entries
      <3> QED BY <3>1, NullEntry
    <2> QED BY <2>1
  <1> HIDE DEF longer, len
  <1>5. CASE Hits(chain, n) = {}
    <2>1. Lookup(chain, n) = NULL
      BY <1>5 DEF Lookup
    <2>2. CASE x.name = n
      <3>1. First(Hits(longer, n)) = len + 1
        BY <1>1, <1>2, <1>5, <2>2, FirstIs
      <3> QED BY <1>1, <1>2, <2>1, <2>2, <3>1 DEF Lookup, longer
    <2> QED BY <1>2, <1>5, <2>1, <2>2 DEF Lookup, longer
  <1>6. CASE Hits(chain, n) # {}
    <2>1. /\ First(Hits(chain, n)) \in Hits(chain, n)
          /\ \A k \in Hits(chain, n) : First(Hits(chain, n)) <= k
      BY <1>1, <1>3, <1>6, FirstIn
    <2>2. First(Hits(longer, n)) = First(Hits(chain, n))
      BY <1>1, <1>2, <1>3, <2>1, FirstIs
    <2>3. longer[First(Hits(chain, n))] = chain[First(Hits(chain, n))]
      BY <1>1, <1>3, <2>1
    <2>4. Lookup(chain, n) = chain[First(Hits(chain, n))] /\ Lookup(chain, n) # NULL
      BY <1>3, <1>4, <1>6, <2>1 DEF Lookup
    <2>5. Lookup(longer, n) = longer[First(Hits(longer, n))]
      BY <1>2, <1>6 DEF Lookup
    <2> QED BY <2>2, <2>3, <2>4, <2>5 DEF longer
  <1> QED BY <1>5, <1>6

LEMMA FirstWinsNext == AllTypes /\ FirstWins /\ [Next]_vars => FirstWins'
  <1> SUFFICES ASSUME AllTypes, FirstWins, [Next]_vars, NEW m \in Maps, NEW n \in Names
               PROVE  Lookup(buck'[m][BucketOf(n)], n) = first'[m][n]
    BY DEF FirstWins, Find
  <1> USE DEF AllTypes, RegTypes, SizeTypes, TableTypes, RestTypes
  <1>0. Lookup(buck[m][BucketOf(n)], n) = first[m][n]
    BY DEF FirstWins, Find
  <1>1. ASSUME NEW t \in Threads, RegSet(t), ~UNCHANGED <<buck, first>>
        PROVE  Lookup(buck'[m][BucketOf(n)], n) = first'[m][n]
    <2> PICK a, c, x, k : a = map[t] /\ c = name[t] /\ x = Entry(t) /\ k = BucketOf(c)
      OBVIOUS
    <2>1. a \in Maps /\ c \in Names /\ x \in Entries /\ x.name = c
      BY <1>1 DEF RegSet, Entry, Entries
    <2>2. k \in 0 .. Buckets - 1 /\ BucketOf(n) \in 0 .. Buckets - 1
      BY <2>1, HashType DEF BucketOf
    <2>3. /\ buck' = [buck EXCEPT ![a][k] = Append(@, x)]
          /\ first' = [first EXCEPT ![a][c] = IF first[a][c] = NULL THEN x ELSE first[a][c]]
      BY <1>1 DEF RegSet
    <2>4. CASE m = a /\ BucketOf(n) = k
      <3>1. buck'[m][BucketOf(n)] = Append(buck[m][k], x) /\ buck[m][k] \in Seq(Entries)
        BY <2>1, <2>2, <2>3, <2>4
      <3>2. Lookup(buck'[m][BucketOf(n)], n) = IF c = n /\ first[m][n] = NULL THEN x ELSE first[m][n]
        BY <1>0, <2>1, <2>4, <3>1, LookupAppend
      <3>3. first'[m][n] = IF c = n /\ first[m][n] = NULL THEN x ELSE first[m][n]
        BY <2>1, <2>3, <2>4
      <3> QED BY <3>2, <3>3
    <2>5. CASE ~(m = a /\ BucketOf(n) = k)
      <3>1. buck'[m][BucketOf(n)] = buck[m][BucketOf(n)]
        BY <2>1, <2>2, <2>3, <2>5
      <3>2. first'[m][n] = first[m][n]
        BY <2>1, <2>3, <2>5
      <3> QED BY <1>0, <3>1, <3>2
    <2> QED BY <2>4, <2>5
  <1>2. ASSUME UNCHANGED <<buck, first>>
        PROVE  Lookup(buck'[m][BucketOf(n)], n) = first'[m][n]
    BY <1>0, <1>2
  <1>3. (\E t \in Threads : RegSet(t)) \/ UNCHANGED <<buck, first>>
    BY DEF Next, RegCall, RegLock, RegCheck, RegSize, RegReturn, StoreAlloc, StoreFree, vars
  <1> QED BY <1>1, <1>2, <1>3

LEMMA InitFirst == Init => FirstWins
  <1> SUFFICES ASSUME Init, NEW m \in Maps, NEW n \in Names PROVE Find(m, n) = first[m][n]
    BY DEF FirstWins
  <1>1. BucketOf(n) \in 0 .. Buckets - 1
    BY HashType DEF BucketOf
  <1>2. buck[m][BucketOf(n)] = <<>> /\ first[m][n] = NULL
    BY <1>1 DEF Init
  <1>3. Hits(<<>>, n) = {}
    BY DEF Hits
  <1> QED BY <1>2, <1>3 DEF Find, Lookup

(* A lookup finds what was registered first under the name, whichever names *)
(* collide, are registered again, or fail to be, in whatever order, with at *)
(* most one registrar per endpoint (ht.c:89-171).                           *)
THEOREM FirstFound == Spec => []FirstWins
  BY InitFirst, TypesInit, TypesNext, FirstWinsNext, PTL DEF Spec

-----------------------------------------------------------------------------
(* Stores: what was registered when one was made lies in it.                *)
Kept ==
  \A b \in Blocks : block[b] # NULL =>
    \A n \in block[b].names :
      /\ first[block[b].map][n] # NULL
      /\ Ends(first[block[b].map][n]) <= block[b].size

(* What a lookup on the map of a store to be made finds will lie in it.     *)
LEMMA FoundInStore ==
  ASSUME AllTypes, InStore, NEW m \in Maps, ~Registering(m), NEW n \in Names, Find(m, n) # NULL
  PROVE  Ends(Find(m, n)) <= store_size[m]
  <1> PICK k : k = BucketOf(n)
    OBVIOUS
  <1>1. k \in 0 .. Buckets - 1
    BY HashType DEF BucketOf
  <1>2. buck[m][k] \in Seq(Entries)
    BY <1>1 DEF AllTypes, TableTypes
  <1>3. PICK j \in 1 .. Len(buck[m][k]) : Find(m, n) = buck[m][k][j]
    BY <1>2, LookupIn DEF Find
  <1>4. <<k, j>> \in Places(m) /\ In(m, <<k, j>>) = Find(m, n)
    BY <1>1, <1>3, PlaceIs DEF IsPlace, In
  <1> QED BY <1>4 DEF InStore

LEMMA KeptNext == AllTypes /\ InStore /\ FirstWins /\ Kept /\ [Next]_vars => Kept'
  <1> SUFFICES ASSUME AllTypes, InStore, FirstWins, Kept, [Next]_vars,
                      NEW b \in Blocks, block'[b] # NULL, NEW n \in block'[b].names
               PROVE  /\ first'[block'[b].map][n] # NULL
                      /\ Ends(first'[block'[b].map][n]) <= block'[b].size
    BY DEF Kept, Ends
  <1>1. ASSUME NEW c \in Blocks, NEW m \in Maps, StoreAlloc(c, m)
        PROVE  /\ first'[block'[b].map][n] # NULL
               /\ Ends(first'[block'[b].map][n]) <= block'[b].size
    <2>1. first' = first /\ ~Registering(m) /\ block' = [block EXCEPT ![c] = Store(m)]
      BY <1>1 DEF StoreAlloc
    <2>2. CASE b # c
      <3>1. block'[b] = block[b]
        BY <2>1, <2>2
      <3> QED BY <2>1, <3>1 DEF Kept
    <2>3. CASE b = c
      <3>1. block'[b] = Store(m)
        BY <2>1, <2>3 DEF AllTypes, RestTypes
      <3>2. block'[b].map = m /\ block'[b].size = store_size[m] /\ n \in Names /\ Find(m, n) # NULL
        BY <3>1 DEF Store
      <3>3. Find(m, n) = first[m][n]
        BY <3>2 DEF FirstWins
      <3>4. Ends(Find(m, n)) <= store_size[m]
        BY <2>1, <3>2, FoundInStore
      <3> QED BY <2>1, <3>2, <3>3, <3>4
    <2> QED BY <2>2, <2>3
  <1>2. ASSUME NEW c \in Blocks, StoreFree(c)
        PROVE  /\ first'[block'[b].map][n] # NULL
               /\ Ends(first'[block'[b].map][n]) <= block'[b].size
    <2>1. block'[b] = block[b] /\ first' = first
      BY <1>2 DEF StoreFree, AllTypes, RestTypes
    <2> QED BY <2>1 DEF Kept
  <1>3. ASSUME block' = block
        PROVE  /\ block[b] # NULL /\ block'[b] = block[b] /\ block[b].map \in Maps /\ n \in Names
               /\ first[block[b].map][n] # NULL
               /\ Ends(first[block[b].map][n]) <= block[b].size
    <2>1. block[b] \in Stores
      BY <1>3 DEF AllTypes, RestTypes
    <2> QED BY <1>3, <2>1 DEF Kept, Stores
  <1>4. ASSUME NEW t \in Threads, RegSet(t)
        PROVE  /\ first'[block'[b].map][n] # NULL
               /\ Ends(first'[block'[b].map][n]) <= block'[b].size
    <2>1. block' = block
      BY <1>4 DEF RegSet
    <2>2. first[block[b].map][n] # NULL => first'[block[b].map][n] = first[block[b].map][n]
      <3> PICK m, x, a, c : m = block[b].map /\ x = Entry(t) /\ a = map[t] /\ c = name[t]
        OBVIOUS
      <3>1. \/ first' = first
            \/ first' = [first EXCEPT ![a][c] = IF @ = NULL THEN x ELSE @]
        BY <1>4 DEF RegSet
      <3>2. /\ m \in Maps /\ n \in Names
            /\ DOMAIN first = Maps /\ \A q \in Maps : DOMAIN first[q] = Names
        BY <1>3, <2>1 DEF AllTypes, RestTypes
      <3>3. first[m][n] # NULL => first'[m][n] = first[m][n]
        BY <3>1, <3>2
      <3> QED BY <3>3
    <2> QED BY <1>3, <2>1, <2>2
  <1>5. ASSUME block' = block, first' = first
        PROVE  /\ first'[block'[b].map][n] # NULL
               /\ Ends(first'[block'[b].map][n]) <= block'[b].size
    BY <1>3, <1>5
  <1>6. \/ \E c \in Blocks : StoreFree(c) \/ \E m \in Maps : StoreAlloc(c, m)
        \/ \E t \in Threads : RegSet(t)
        \/ block' = block /\ first' = first
    BY DEF Next, RegCall, RegLock, RegCheck, RegSize, RegReturn, vars
  <1> QED BY <1>1, <1>2, <1>4, <1>5, <1>6

(* What a request gets for a variable that was registered when its store    *)
(* was made lies within that store, whatever is registered afterwards       *)
(* (var.c:82-169).                                                          *)
THEOREM InBlock == Spec => []GetInBlock
  <1>1. Init => Kept
    BY DEF Init, Kept
  <1>2. Inv => InStore
    BY DEF Inv, Fitting, InStore, Pending, Registering
  <1>3. AllTypes /\ FirstWins /\ Kept => GetInBlock
    <2> SUFFICES ASSUME AllTypes, FirstWins, Kept, NEW rb \in Blocks, NEW eb \in Blocks \cup {NULL},
                        NEW n \in Names, NEW ty \in Types,
                        block[rb] # NULL, block[rb].map = Glob,
                        eb # NULL => block[eb] # NULL /\ block[eb].map # Glob,
                        MadeFor(rb, eb, n), VarGet(rb, eb, n, ty) # NULL
                 PROVE  VarGet(rb, eb, n, ty).position + Size[ty]
                          <= block[VarGet(rb, eb, n, ty).block].size
      BY DEF GetInBlock
    <2>0. \A m \in Maps : Find(m, n) = first[m][n]
      BY DEF FirstWins
    <2>1. CASE Find(Glob, n) # NULL
      <3>1. VarGet(rb, eb, n, ty) = At(rb, Find(Glob, n), ty) /\ n \in block[rb].names
        BY <2>1 DEF VarGet, MadeFor
      <3>2. /\ Find(Glob, n).type = ty
            /\ VarGet(rb, eb, n, ty) = [block |-> rb, position |-> Find(Glob, n).position]
        BY <3>1 DEF At
      <3>3. Ends(Find(Glob, n)) <= block[rb].size
        BY <2>0, <3>1 DEF Kept, Maps
      <3> QED BY <3>2, <3>3 DEF Ends
    <2>2. CASE Find(Glob, n) = NULL
      <3>1. /\ eb \in Blocks /\ eb # NULL /\ n \in block[eb].names /\ block[eb] # NULL
            /\ VarGet(rb, eb, n, ty) = At(eb, Find(block[eb].map, n), ty)
        BY <2>2 DEF VarGet, MadeFor
      <3>2. /\ Find(block[eb].map, n).type = ty
            /\ VarGet(rb, eb, n, ty) = [block |-> eb, position |-> Find(block[eb].map, n).position]
        BY <3>1 DEF At
      <3>3. Ends(Find(block[eb].map, n)) <= block[eb].size
        <4>1. block[eb].map \in Maps
          BY <3>1 DEF AllTypes, RestTypes, Stores
        <4> QED BY <2>0, <3>1, <4>1 DEF Kept
      <3> QED BY <3>2, <3>3 DEF Ends
    <2> QED BY <2>1, <2>2
  <1> QED BY InitInv, InvNext, TypesInit, TypesNext, InitFirst, FirstWinsNext, KeptNext, <1>1, <1>2,
             <1>3, PTL DEF Spec

=============================================================================
