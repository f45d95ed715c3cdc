----------------------------- MODULE GlobProofs -----------------------------
(***************************************************************************)
(* What Glob and Url keep, for any endpoints, urls, hashes and failures.   *)
(* First the table of urls: a registration appends to the list of its url  *)
(* and leaves the others alone, whichever share its bucket.  Then the      *)
(* inductive invariant Inv, which says for each value of pc which statics  *)
(* hold memory.                                                            *)
(***************************************************************************)
EXTENDS Glob, TLAPS, WellFoundedInduction

Records == [verb : Verbs, e : Ends]

-----------------------------------------------------------------------------
(* First                                                                    *)

LEMMA FirstIn ==
  ASSUME NEW S \in SUBSET Nat, S # {}
  PROVE  First(S) \in S /\ \A k \in S : First(S) <= k
  <1> DEFINE R == OpToRel(<, Nat)
  <1>1. \E x \in S : \A y \in S : ~(<<y, x>> \in R)
    BY NatLessThanWellFounded, WFMin
  <1>2. \A x, y \in Nat : y < x => <<y, x>> \in R
    BY DEF OpToRel
  <1> HIDE DEF R
  <1>3. PICK x \in S : \A y \in S : ~(<<y, x>> \in R)
    BY <1>1
  <1>4. \A k \in S : ~(k < x)
    BY <1>2, <1>3, Zenon
  <1>5. \A k \in S : x <= k
    BY <1>4
  <1> QED BY <1>5 DEF First

LEMMA FirstIs ==
  ASSUME NEW S \in SUBSET Nat, NEW m \in S, \A k \in S : m <= k
  PROVE  First(S) = m
  <1>1. First(S) \in S /\ \A k \in S : First(S) <= k
    BY FirstIn
  <1>2. First(S) \in Nat /\ m \in Nat /\ First(S) <= m /\ m <= First(S)
    BY <1>1
  <1> QED BY <1>2

-----------------------------------------------------------------------------
(* A list of verbs and endpoints                                            *)

LEMMA ValueType ==
  ASSUME NEW vs \in Seq(Records), NEW v
  PROVE  /\ ValueOf(vs, v) \in Ends \cup {NULL}
         /\ ValueOf(vs, v) = NULL <=> Having(vs, v) = {}
  <1>1. Having(vs, v) \in SUBSET Nat
    BY DEF Having
  <1>2. CASE Having(vs, v) = {}
    BY <1>2 DEF ValueOf
  <1>3. CASE Having(vs, v) # {}
    <2>1. First(Having(vs, v)) \in 1 .. Len(vs)
      BY <1>1, <1>3, FirstIn DEF Having
    <2> DEFINE n == First(Having(vs, v))
    <2> HIDE DEF n
    <2>2. vs[n] \in Records
      BY <2>1 DEF n
    <2>3. vs[n].e \in Ends
      BY <2>2 DEF Records
    <2> QED BY <1>3, <2>3, UrlConstants DEF ValueOf, n
  <1> QED BY <1>2, <1>3

(* Of two values with a verb the first one counts.                          *)
LEMMA ValueOfAppend ==
  ASSUME NEW vs \in Seq(Records), NEW x \in Records, NEW v
  PROVE  ValueOf(Append(vs, x), v) =
           IF ValueOf(vs, v) # NULL THEN ValueOf(vs, v)
           ELSE IF x.verb = v THEN x.e ELSE NULL
  <1> DEFINE ws == Append(vs, x)
             n  == Len(vs)
  <1>1. /\ n \in Nat /\ Len(ws) = n + 1 /\ ws[n + 1] = x
        /\ \A j \in 1 .. n : ws[j] = vs[j]
    OBVIOUS
  <1>2. Having(ws, v) = IF x.verb = v THEN Having(vs, v) \cup {n + 1} ELSE Having(vs, v)
    BY <1>1 DEF Having
  <1>3. Having(vs, v) \in SUBSET (1 .. n)
    BY <1>1 DEF Having
  <1> HIDE DEF ws, n
  <1>4. CASE Having(vs, v) = {}
    <2>1. ValueOf(vs, v) = NULL
      BY <1>4 DEF ValueOf
    <2>2. CASE x.verb = v
      <3>1. First(Having(ws, v)) = n + 1
        BY <1>1, <1>2, <1>4, <2>2, FirstIs
      <3> QED BY <1>1, <1>2, <2>1, <2>2, <3>1 DEF ValueOf, ws
    <2> QED BY <1>2, <1>4, <2>1, <2>2 DEF ValueOf, ws
  <1>5. CASE Having(vs, v) # {}
    <2>1. /\ First(Having(vs, v)) \in Having(vs, v)
          /\ \A k \in Having(vs, v) : First(Having(vs, v)) <= k
      BY <1>1, <1>3, <1>5, FirstIn
    <2>2. First(Having(ws, v)) = First(Having(vs, v))
      BY <1>1, <1>2, <1>3, <2>1, FirstIs
    <2>3. ws[First(Having(vs, v))] = vs[First(Having(vs, v))]
      BY <1>1, <1>3, <2>1
    <2>4. ValueOf(vs, v) # NULL
      BY <1>5, ValueType
    <2>5. Having(ws, v) # {}
      BY <1>2, <1>5
    <2> QED BY <1>5, <2>2, <2>3, <2>4, <2>5 DEF ValueOf, ws
  <1> QED BY <1>4, <1>5

-----------------------------------------------------------------------------
(* The table                                                                *)

LEMMA BucketType == ASSUME NEW u \in Urls PROVE BucketOf(u) \in 0 .. Buckets - 1
  <1>1. Hash[u] \in Nat /\ Buckets \in Nat \ {0}
    BY UrlConstants
  <1> QED BY <1>1 DEF BucketOf

LEMMA ChainType ==
  urls \in Tables \cup {NULL} => \A u \in Urls : Chain(u) \in Seq(Entries)
  <1> SUFFICES ASSUME urls \in Tables \cup {NULL}, NEW u \in Urls
               PROVE  Chain(u) \in Seq(Entries)
    OBVIOUS
  <1>1. CASE urls = NULL
    BY <1>1 DEF Chain
  <1>2. CASE urls # NULL
    <2>1. urls \in [0 .. Buckets - 1 -> Seq(Entries)]
      BY <1>2 DEF Tables
    <2> QED BY <1>2, <2>1, BucketType DEF Chain
  <1> QED BY <1>1, <1>2

LEMMA ValuesType ==
  urls \in Tables \cup {NULL} => \A u \in Urls : Values(u) \in Seq(Records)
  <1> SUFFICES ASSUME urls \in Tables \cup {NULL}, NEW u \in Urls
               PROVE  Values(u) \in Seq(Records)
    OBVIOUS
  <1>1. Chain(u) \in Seq(Entries) /\ Hits(u) \in SUBSET Nat
    BY ChainType DEF Hits
  <1>2. CASE Registered(u)
    <2>1. First(Hits(u)) \in Hits(u)
      BY <1>1, <1>2, FirstIn DEF Registered
    <2>2. First(Hits(u)) \in 1 .. Len(Chain(u))
      BY <2>1 DEF Hits
    <2>3. Chain(u)[First(Hits(u))] \in Entries
      BY <1>1, <2>2
    <2> QED BY <1>2, <2>3 DEF Values, Entries, Records
  <1> QED BY <1>2 DEF Values

LEMMA EndpointType ==
  urls \in Tables \cup {NULL} =>
    \A v \in Verbs, u \in Urls : ToEndpoint(v, u) \in Ends \cup {NULL}
  BY ValuesType, ValueType DEF ToEndpoint

(* Without a table, and with an empty one, no url is registered.            *)
LEMMA NoTable ==
  urls = NULL \/ urls = EmptyTable =>
    /\ \A u \in Urls : Values(u) = <<>>
    /\ \A v, u : u \in Urls => ToEndpoint(v, u) = NULL
  <1> SUFFICES ASSUME urls = NULL \/ urls = EmptyTable, NEW u \in Urls, NEW v
               PROVE  Values(u) = <<>> /\ ToEndpoint(v, u) = NULL
    OBVIOUS
  <1>1. Chain(u) = <<>>
    BY BucketType DEF Chain, EmptyTable
  <1>2. Values(u) = <<>>
    BY <1>1 DEF Values, Registered, Hits
  <1>3. Having(<<>>, v) = {}
    BY DEF Having
  <1> QED BY <1>2, <1>3 DEF ToEndpoint, ValueOf

LEMMA EntryAppend ==
  ASSUME NEW d \in Entries, NEW x \in Records
  PROVE  LET r == [d EXCEPT !.values = Append(@, x)] IN
         r \in Entries /\ r.values = Append(d.values, x)
  <1>1. d.values \in Seq(Records) /\ d.key \in Urls /\ d = [key |-> d.key, values |-> d.values]
    BY DEF Entries, Records
  <1>2. Append(d.values, x) \in Seq(Records)
    BY <1>1
  <1>3. [d EXCEPT !.values = Append(@, x)] = [key |-> d.key, values |-> Append(d.values, x)]
    BY <1>1
  <1> QED BY <1>1, <1>2, <1>3 DEF Entries, Records

LEMMA SeqExcept ==
  ASSUME NEW S, NEW s \in Seq(S), NEW j \in 1 .. Len(s), NEW r \in S
  PROVE  LET c == [s EXCEPT ![j] = r] IN
         c \in Seq(S) /\ Len(c) = Len(s) /\ c[j] = r
  OBVIOUS

(* fra_end_url_add appends to the list of its url, whatever else is in its  *)
(* bucket, and keeps the lists of the others.                               *)
LEMMA UrlAddValues ==
  ASSUME urls \in Tables \cup {NULL},
         NEW e \in Ends, NEW v \in Verbs, NEW u \in Urls, UrlAdd(e, v, u)
  PROVE  /\ urls' \in Tables
         /\ \A w \in Urls :
              Values(w)' = IF w = u THEN Append(Values(u), Value(e, v)) ELSE Values(w)
  <1> DEFINE b == BucketOf(u)
             x == Value(e, v)
  <1>1. urls \in Tables /\ urls # NULL /\ b \in 0 .. Buckets - 1
    BY BucketType, UrlConstants DEF UrlAdd
  <1>2. x \in Records
    BY DEF Value, Records
  <1>3. \A w \in Urls : Chain(w) = urls[BucketOf(w)]
    BY <1>1 DEF Chain
  <1>4. \A w \in Urls : BucketOf(w) \in 0 .. Buckets - 1
    BY BucketType
  <1>5. ASSUME NEW c \in Seq(Entries), urls' = [urls EXCEPT ![b] = c]
        PROVE  /\ urls' \in Tables /\ urls' # NULL
               /\ \A w \in Urls : Chain(w)' = IF BucketOf(w) = b THEN c ELSE Chain(w)
    <2>1. urls' \in Tables
      BY <1>1, <1>5 DEF Tables
    <2> urls' # NULL
      BY <2>1, UrlConstants
    <2>2. \A w \in Urls : Chain(w)' = urls'[BucketOf(w)]
      BY <2>1 DEF Chain
    <2> QED BY <1>1, <1>3, <1>4, <1>5, <2>1, <2>2 DEF Tables
  <1>6. Chain(u) \in Seq(Entries) /\ Hits(u) \in SUBSET Nat
    BY <1>1, ChainType DEF Hits
  <1>7. CASE Registered(u)
    <2> DEFINE j == First(Hits(u))
               c == [Chain(u) EXCEPT ![j].values = Append(@, x)]
    <2>1. j \in Hits(u) /\ j \in 1 .. Len(Chain(u)) /\ Chain(u)[j].key = u
      BY <1>6, <1>7, FirstIn DEF Registered, Hits
    <2>2. Chain(u)[j] \in Entries
      BY <1>6, <2>1
    <2>3. c \in Seq(Entries) /\ Len(c) = Len(Chain(u)) /\ c[j].values = Append(Chain(u)[j].values, x)
      <3> DEFINE r == [Chain(u)[j] EXCEPT !.values = Append(@, x)]
      <3>1. r \in Entries /\ r.values = Append(Chain(u)[j].values, x)
        BY <1>2, <2>2, EntryAppend
      <3>2. c = [Chain(u) EXCEPT ![j] = r]
        OBVIOUS
      <3> HIDE DEF r, j, c
      <3> QED BY <1>6, <2>1, <3>1, <3>2, SeqExcept
    <2>4. \A k \in 1 .. Len(c) : c[k].key = Chain(u)[k].key /\ (k # j => c[k] = Chain(u)[k])
      BY <1>6, <2>1, <2>2, <2>3 DEF Entries
    <2>5. urls' = [urls EXCEPT ![b] = c]
      BY <1>1, <1>3, <1>7 DEF UrlAdd, Tables
    <2> HIDE DEF c
    <2>6. /\ urls' \in Tables
          /\ \A w \in Urls : Chain(w)' = IF BucketOf(w) = b THEN c ELSE Chain(w)
      BY <1>5, <2>3, <2>5
    <2>7. \A w \in Urls : BucketOf(w) = b => Chain(w) = Chain(u)
      BY <1>3
    <2>8. \A w \in Urls : Hits(w)' = Hits(w)
      BY <2>3, <2>4, <2>6, <2>7 DEF Hits
    <2>9. Values(u) = Chain(u)[j].values /\ Values(u)' = c[j].values
      BY <1>7, <2>6, <2>8 DEF Values, Registered
    <2>10. ASSUME NEW w \in Urls, w # u PROVE Values(w)' = Values(w)
      <3>1. CASE Hits(w) = {}
        BY <2>8, <3>1 DEF Values, Registered
      <3>2. CASE Hits(w) # {}
        <4>1. Hits(w) \in SUBSET Nat
          BY DEF Hits
        <4>2. First(Hits(w)) \in 1 .. Len(Chain(w)) /\ Chain(w)[First(Hits(w))].key = w
          BY <3>2, <4>1, FirstIn DEF Hits
        <4>3. Chain(w)'[First(Hits(w))] = Chain(w)[First(Hits(w))]
          BY <2>1, <2>3, <2>4, <2>6, <2>7, <2>10, <4>2
        <4> QED BY <2>8, <3>2, <4>3 DEF Values, Registered
      <3> QED BY <3>1, <3>2
    <2> QED BY <2>3, <2>6, <2>9, <2>10
  <1>8. CASE ~Registered(u)
    <2> DEFINE n == Len(Chain(u))
               y == [key |-> u, values |-> <<x>>]
               c == Append(Chain(u), y)
    <2>1. y \in Entries /\ n \in Nat
      BY <1>2, <1>6 DEF Entries, Records
    <2>2. /\ c \in Seq(Entries) /\ Len(c) = n + 1 /\ c[n + 1] = y
          /\ \A k \in 1 .. n : c[k] = Chain(u)[k]
      BY <1>6, <2>1
    <2>3. urls' = [urls EXCEPT ![b] = c]
      BY <1>1, <1>3, <1>8 DEF UrlAdd, Tables
    <2>4. y.key = u /\ y.values = <<x>>
      OBVIOUS
    <2> HIDE DEF c, y
    <2>5. /\ urls' \in Tables
          /\ \A w \in Urls : Chain(w)' = IF BucketOf(w) = b THEN c ELSE Chain(w)
      BY <1>5, <2>2, <2>3
    <2>6. \A w \in Urls : BucketOf(w) = b => Chain(w) = Chain(u)
      BY <1>3
    <2>7. Hits(u) = {} /\ Values(u) = <<>>
      BY <1>8 DEF Registered, Values
    <2>8. Hits(u)' = {n + 1}
      BY <2>1, <2>2, <2>4, <2>5, <2>7 DEF Hits
    <2>9. Values(u)' = <<x>>
      <3>1. First({n + 1}) = n + 1
        BY <2>1, FirstIs
      <3> QED BY <2>2, <2>4, <2>5, <2>8, <3>1 DEF Values, Registered
    <2>10. ASSUME NEW w \in Urls, w # u PROVE Values(w)' = Values(w)
      <3>1. Hits(w)' = Hits(w)
        BY <2>1, <2>2, <2>4, <2>5, <2>6, <2>10 DEF Hits
      <3>2. CASE Hits(w) = {}
        BY <3>1, <3>2 DEF Values, Registered
      <3>3. CASE Hits(w) # {}
        <4>1. Hits(w) \in SUBSET Nat
          BY DEF Hits
        <4>2. First(Hits(w)) \in 1 .. Len(Chain(w))
          BY <3>3, <4>1, FirstIn DEF Hits
        <4>3. Chain(w)'[First(Hits(w))] = Chain(w)[First(Hits(w))]
          BY <2>1, <2>2, <2>5, <2>6, <4>2
        <4> QED BY <3>1, <3>3, <4>3 DEF Values, Registered
      <3> QED BY <3>2, <3>3
    <2> QED BY <2>5, <2>7, <2>9, <2>10
  <1> QED BY <1>7, <1>8

(* Only the verb and url it registers may come to have an endpoint.         *)
LEMMA UrlAddRoutes ==
  ASSUME urls \in Tables \cup {NULL},
         NEW e \in Ends, NEW v \in Verbs, NEW u \in Urls, UrlAdd(e, v, u)
  PROVE  \A w \in Verbs, t \in Urls :
           ToEndpoint(w, t)' =
             IF w = v /\ t = u /\ ToEndpoint(v, u) = NULL THEN e ELSE ToEndpoint(w, t)
  <1> SUFFICES ASSUME NEW w \in Verbs, NEW t \in Urls
               PROVE  ToEndpoint(w, t)' =
                 IF w = v /\ t = u /\ ToEndpoint(v, u) = NULL THEN e ELSE ToEndpoint(w, t)
    OBVIOUS
  <1>1. ToEndpoint(w, t)' = ValueOf(Values(t)', w)
    BY DEF ToEndpoint, ValueOf, Having
  <1>2. Values(t)' = IF t = u THEN Append(Values(u), Value(e, v)) ELSE Values(t)
    BY UrlAddValues
  <1>3. Values(t) \in Seq(Records) /\ Value(e, v) \in Records
    BY ValuesType DEF Value, Records
  <1>4. Value(e, v).verb = v /\ Value(e, v).e = e
    BY DEF Value
  <1> QED BY <1>1, <1>2, <1>3, <1>4, ValueOfAppend DEF ToEndpoint

(* The copies a chain leads to.                                             *)
Copies(c) == UNION {{<<c[j].key, n>> : n \in 0 .. Len(c[j].values)} : j \in 1 .. Len(c)}

LEMMA CopiesAppend ==
  ASSUME NEW c \in Seq(Entries), NEW y \in Entries
  PROVE  Copies(Append(c, y)) = Copies(c) \cup {<<y.key, n>> : n \in 0 .. Len(y.values)}
  <1> DEFINE d == Append(c, y)
             m == Len(c)
  <1>1. /\ m \in Nat /\ Len(d) = m + 1 /\ d[m + 1] = y
        /\ \A j \in 1 .. m : d[j] = c[j]
    OBVIOUS
  <1> HIDE DEF d, m
  <1>2. 1 .. (m + 1) = (1 .. m) \cup {m + 1}
    BY <1>1
  <1>3. Copies(d) = UNION {{<<d[j].key, n>> : n \in 0 .. Len(d[j].values)} : j \in (1 .. m) \cup {m + 1}}
    BY <1>1, <1>2 DEF Copies
  <1>4. Copies(c) = UNION {{<<d[j].key, n>> : n \in 0 .. Len(d[j].values)} : j \in 1 .. m}
    BY <1>1 DEF Copies, m
  <1> QED BY <1>1, <1>3, <1>4 DEF d

LEMMA CopiesGrow ==
  ASSUME NEW c \in Seq(Entries), NEW j \in 1 .. Len(c), NEW x \in Records
  PROVE  Copies([c EXCEPT ![j].values = Append(@, x)]) =
           Copies(c) \cup {<<c[j].key, Len(c[j].values) + 1>>}
  <1> DEFINE r == [c[j] EXCEPT !.values = Append(@, x)]
             d == [c EXCEPT ![j] = r]
             l == Len(c[j].values)
  <1>1. c[j] \in Entries
    OBVIOUS
  <1>2. r \in Entries /\ r.values = Append(c[j].values, x) /\ r.key = c[j].key
    BY <1>1, EntryAppend DEF Entries
  <1>3. l \in Nat /\ Len(r.values) = l + 1
    BY <1>1, <1>2 DEF Entries
  <1>4. [c EXCEPT ![j].values = Append(@, x)] = d
    OBVIOUS
  <1>5. Len(d) = Len(c) /\ d[j] = r /\ \A k \in 1 .. Len(c) : k # j => d[k] = c[k]
    BY <1>2
  <1> HIDE DEF r, d, l
  <1>6. 0 .. (l + 1) = (0 .. l) \cup {l + 1}
    BY <1>3
  <1>7. \A k \in 1 .. Len(c) : {<<d[k].key, n>> : n \in 0 .. Len(d[k].values)} =
          {<<c[k].key, n>> : n \in 0 .. Len(c[k].values)} \cup
            (IF k = j THEN {<<c[j].key, l + 1>>} ELSE {})
    BY <1>2, <1>3, <1>5, <1>6 DEF l
  <1>8. Copies(d) = Copies(c) \cup {<<c[j].key, l + 1>>}
    BY <1>5, <1>7 DEF Copies
  <1> QED BY <1>4, <1>8 DEF l

LEMMA CopiesBucket ==
  ASSUME urls \in Tables, NEW b \in 0 .. Buckets - 1, NEW c \in Seq(Entries), NEW new,
         urls' = [urls EXCEPT ![b] = c], Copies(c) = Copies(urls[b]) \cup new
  PROVE  Reachable' = Reachable \cup new
  <1>1. urls # NULL /\ urls' # NULL
    <2>1. urls' \in Tables
      BY DEF Tables
    <2> QED BY <2>1, UrlConstants
  <1>2. Reachable = UNION {Copies(urls[a]) : a \in 0 .. Buckets - 1}
    BY <1>1 DEF Reachable, Copies
  <1>3. Reachable' = UNION {Copies(urls'[a]) : a \in 0 .. Buckets - 1}
    BY <1>1 DEF Reachable, Copies
  <1>4. \A a \in 0 .. Buckets - 1 : Copies(urls'[a]) = Copies(urls[a]) \cup (IF a = b THEN new ELSE {})
    BY DEF Tables
  <1> QED BY <1>2, <1>3, <1>4

(* ... and the copies it makes are those it adds to the table.              *)
LEMMA UrlAddReachable ==
  ASSUME urls \in Tables \cup {NULL},
         NEW e \in Ends, NEW v \in Verbs, NEW u \in Urls, UrlAdd(e, v, u),
         strings = Reachable
  PROVE  strings' = Reachable'
  <1> DEFINE b == BucketOf(u)
             x == Value(e, v)
  <1>1. urls \in Tables /\ urls # NULL /\ b \in 0 .. Buckets - 1
    BY BucketType, UrlConstants DEF UrlAdd
  <1>2. x \in Records /\ Chain(u) = urls[b] /\ Chain(u) \in Seq(Entries)
    BY <1>1, ChainType DEF Value, Records, Chain
  <1>3. CASE Registered(u)
    <2> DEFINE j == First(Hits(u))
               c == [urls[b] EXCEPT ![j].values = Append(@, x)]
    <2>1. Hits(u) \in SUBSET Nat
      BY DEF Hits
    <2>2. j \in Hits(u)
      BY <1>3, <2>1, FirstIn DEF Registered
    <2>3. j \in 1 .. Len(urls[b]) /\ urls[b][j].key = u
      BY <1>2, <2>2 DEF Hits
    <2>4. urls' = [urls EXCEPT ![b] = c] /\ strings' = strings \cup {<<u, Len(urls[b][j].values) + 1>>}
      BY <1>2, <1>3 DEF UrlAdd, Values
    <2>6. c \in Seq(Entries)
      BY <1>2, <2>3, EntryAppend, SeqExcept
    <2> HIDE DEF j, b, x
    <2>5. Copies(c) = Copies(urls[b]) \cup {<<u, Len(urls[b][j].values) + 1>>}
      BY <1>2, <2>3, CopiesGrow
    <2> QED BY <1>1, <2>4, <2>5, <2>6, CopiesBucket
  <1>4. CASE ~Registered(u)
    <2> DEFINE y == [key |-> u, values |-> <<x>>]
               c == Append(urls[b], y)
    <2>1. y \in Entries /\ y.key = u /\ Len(y.values) = 1
      BY <1>2 DEF Entries, Records
    <2>2. urls' = [urls EXCEPT ![b] = c] /\ strings' = strings \cup {<<u, 0>>, <<u, 1>>}
      BY <1>4 DEF UrlAdd
    <2> HIDE DEF y, b, x
    <2>6. c \in Seq(Entries)
      BY <1>2, <2>1
    <2>3. Copies(c) = Copies(urls[b]) \cup {<<y.key, n>> : n \in 0 .. Len(y.values)}
      BY <1>2, <2>1, CopiesAppend
    <2>4. {<<y.key, n>> : n \in 0 .. Len(y.values)} = {<<u, 0>>, <<u, 1>>}
      BY <2>1
    <2> QED BY <1>1, <2>2, <2>3, <2>4, <2>6, CopiesBucket
  <1> QED BY <1>3, <1>4

-----------------------------------------------------------------------------
(* The inductive invariant                                                  *)

Files == {"main_poll", "callbacks"}
Deinits == {"req_deinit", "var_deinit", "hook_deinit", "poll_deinit"}
NoneLive(S) == \A p \in S : mem[p] # "live"

(* Which statics hold memory while the library is not up, is, and is not    *)
(* any more.                                                                *)
StaticsInv ==
  /\ pc # "undefined" /\ lost = {}
  /\ ~initialized => glob = "new" /\ pc \in {"idle", "poll_init"} /\ NoneLive(Statics)
  /\ pc = "hook_init" => glob = "new" /\ Live(Files) /\ NoneLive(Statics \ Files)
  /\ pc = "var_init" => glob = "new" /\ Live(Files \cup Lists) /\ NoneLive({"glob_store_map"})
  /\ pc \in {"req_init", "url_init"} => glob = "new" /\ Live(Statics)
  /\ glob = "up" /\ pc \notin {"hook_deinit", "poll_deinit"} => Live(Statics)
  /\ pc \in Deinits => glob = "up" /\ poll # "running"
  /\ pc \in {"var_deinit", "hook_deinit", "poll_deinit"} => ~empty_req
  /\ pc = "hook_deinit" => Live(Files \cup Lists) /\ NoneLive({"glob_store_map"})
  /\ pc = "poll_deinit" => Live(Files) /\ NoneLive(Statics \ Files) /\ hooked = {}
  /\ glob = "down" => /\ pc \in {"idle", "poll_init"} /\ NoneLive(Statics)
                      /\ ~empty_req /\ hooked = {}

UrlInv ==
  /\ strings = Reachable
  /\ glob # "up" \/ pc \in Deinits => urls = NULL

EndInv ==
  /\ \A e \in Ends :
       /\ parts[e] \in {{}, Parts}
       /\ store_empty[e] => parts[e] # {} /\ glob = "up" /\ pc \in {"idle", "poll_init"}
  /\ poll = "running" => /\ glob = "up"
                         /\ \A e \in Ends : Named(e) => parts[e] # {}

Inv == TypeOK /\ StaticsInv /\ UrlInv /\ EndInv

LEMMA UrlsSame ==
  ASSUME UNCHANGED urlVars
  PROVE  /\ urls' = urls /\ strings' = strings /\ given' = given /\ Reachable' = Reachable
         /\ \A v, u : ToEndpoint(v, u)' = ToEndpoint(v, u)
         /\ \A e : Named(e)' = Named(e)
  BY DEF urlVars, Reachable, Named, ToEndpoint, ValueOf, Having, Values, Registered, Hits, Chain

LEMMA InvInit == Init => Inv
  <1> SUFFICES ASSUME Init PROVE Inv
    OBVIOUS
  <1>1. TypeOK /\ EndInv
    BY GlobConstants DEF Init, TypeOK, EndInv, Nowhere
  <1>2. StaticsInv
    BY DEF Init, StaticsInv, NoneLive, Deinits
  <1>3. UrlInv
    BY DEF Init, UrlInv, Reachable
  <1> QED BY <1>1, <1>2, <1>3 DEF Inv

LEMMA Assigned ==
  ASSUME TypeOK, lost = {}, NEW got \in SUBSET Statics, NEW null \in SUBSET Statics,
         Assign(got, null), NoneLive(got \cup null)
  PROVE  /\ mem' \in [Statics -> {"null", "live", "freed"}] /\ lost' = {}
         /\ \A p \in Statics : mem'[p] = IF p \in got THEN "live" ELSE IF p \in null THEN "null" ELSE mem[p]
  BY DEF Assign, NoneLive, TypeOK

LEMMA Freed ==
  ASSUME TypeOK, NEW S \in SUBSET Statics, Free(S)
  PROVE  /\ mem' \in [Statics -> {"null", "live", "freed"}]
         /\ \A p \in S : mem'[p] # "live"
         /\ \A p \in Statics \ S : mem'[p] = mem[p]
  BY DEF Free, TypeOK

LEMMA SetsOfStatics ==
  /\ Files \subseteq Statics /\ Lists \subseteq Statics /\ Statics = Files \cup Lists \cup {"glob_store_map"}
  /\ "glob_store_map" \notin Files \cup Lists /\ Files \cap Lists = {}
  BY DEF Files, Lists, Statics

(* The steps of fra_glob_init.                                              *)
LEMMA InitSteps ==
  ASSUME Inv, GlobInit \/ PollInit \/ HookInit \/ VarInit \/ ReqInit
  PROVE  Inv'
  <1> USE DEF Inv, Continue, Return, called
  <1> UNCHANGED <<urlVars, ends, poll>>
    BY DEF GlobInit, PollInit, HookInit, VarInit, ReqInit
  <1> pc \in {"idle", "poll_init", "hook_init", "var_init", "req_init"}
    BY DEF GlobInit, PollInit, HookInit, VarInit, ReqInit
  <1>0. pc' \in {"idle", "poll_init", "hook_init", "var_init", "req_init", "url_init"}
    BY DEF GlobInit, PollInit, HookInit, VarInit, ReqInit
  <1>1. /\ mem' \in [Statics -> {"null", "live", "freed"}]
        /\ StaticsInv'
    <2> StaticsInv /\ TypeOK /\ lost = {}
      BY DEF StaticsInv
    <2> USE SetsOfStatics
    <2>1. CASE GlobInit
      BY <2>1 DEF GlobInit, StaticsInv, NoneLive, Live, Deinits, TypeOK
    <2>2. CASE PollInit
      <3> UNCHANGED <<hooked, empty_req>> /\ pc = "poll_init"
        BY <2>2 DEF PollInit
      <3>1. CASE initialized /\ UNCHANGED <<initialized, mem, lost>> /\ Return(-1)
        <4>1. pc' = "idle" /\ UNCHANGED <<glob, initialized, mem, lost>>
          BY <3>1
        <4> QED BY <4>1 DEF StaticsInv, NoneLive, Live, Deinits, TypeOK
      <3>2. CASE ~initialized
        <4>1. NoneLive(Statics) /\ glob = "new"
          BY <3>2 DEF StaticsInv
        <4>2. CASE initialized' = TRUE /\ Assign(Files, {}) /\ Continue("hook_init")
          <5>1. /\ mem' \in [Statics -> {"null", "live", "freed"}] /\ lost' = {}
                /\ \A p \in Statics : mem'[p] = IF p \in Files THEN "live" ELSE mem[p]
            <6>1. NoneLive(Files \cup {}) /\ Files \in SUBSET Statics /\ {} \in SUBSET Statics
              BY <4>1 DEF NoneLive
            <6>2. /\ mem' \in [Statics -> {"null", "live", "freed"}] /\ lost' = {}
                  /\ \A p \in Statics : mem'[p] = IF p \in Files THEN "live" ELSE IF p \in {} THEN "null" ELSE mem[p]
              BY <4>2, <6>1, Assigned
            <6> QED BY <6>2
          <5>2. pc' = "hook_init" /\ UNCHANGED glob
            BY <4>2
          <5> QED BY <4>1, <4>2, <5>1, <5>2 DEF StaticsInv, NoneLive, Live, Deinits
        <4>3. CASE UNCHANGED initialized /\ Return(-1) /\ Assign({}, {"main_poll"})
          <5>1. /\ mem' \in [Statics -> {"null", "live", "freed"}] /\ lost' = {}
                /\ \A p \in Statics : mem'[p] = IF p \in {"main_poll"} THEN "null" ELSE mem[p]
            <6>1. /\ NoneLive({} \cup {"main_poll"}) /\ {"main_poll"} \in SUBSET Statics
                  /\ {} \in SUBSET Statics
              BY <4>1 DEF NoneLive, Files
            <6> QED BY <4>3, <6>1, Assigned
          <5>2. \A p \in Statics : mem'[p] # "live"
            BY <4>1, <5>1 DEF NoneLive
          <5>3. pc' = "idle" /\ UNCHANGED <<glob, initialized>>
            BY <4>3
          <5> QED BY <4>1, <5>1, <5>2, <5>3 DEF StaticsInv, NoneLive, Live, Deinits
        <4>4. CASE /\ UNCHANGED <<initialized, lost>> /\ Return(-1)
                   /\ mem' = [mem EXCEPT !["main_poll"] = "freed", !["callbacks"] = "null"]
          <5>1. mem' \in [Statics -> {"null", "live", "freed"}] /\ \A p \in Statics : mem'[p] # "live"
            BY <4>1, <4>4 DEF NoneLive, TypeOK
          <5>2. pc' = "idle" /\ UNCHANGED <<glob, initialized, lost>>
            BY <4>4
          <5> QED BY <4>1, <5>1, <5>2 DEF StaticsInv, NoneLive, Live, Deinits
        <4> QED BY <2>2, <3>2, <4>2, <4>3, <4>4 DEF PollInit, Files
      <3> QED BY <2>2, <3>1, <3>2 DEF PollInit
    <2>3. CASE HookInit
      <3>1. glob = "new" /\ Live(Files) /\ NoneLive(Statics \ Files) /\ initialized
        BY <2>3 DEF HookInit, StaticsInv
      <3>2. CASE Assign(Lists, {}) /\ hooked' = {} /\ Continue("var_init")
        <4>1. /\ mem' \in [Statics -> {"null", "live", "freed"}] /\ lost' = {}
              /\ \A p \in Statics : mem'[p] = IF p \in Lists THEN "live" ELSE mem[p]
          <5>1. NoneLive(Lists \cup {}) /\ Lists \in SUBSET Statics /\ {} \in SUBSET Statics
            BY <3>1 DEF NoneLive
          <5>2. /\ mem' \in [Statics -> {"null", "live", "freed"}] /\ lost' = {}
                  /\ \A p \in Statics : mem'[p] = IF p \in Lists THEN "live" ELSE IF p \in {} THEN "null" ELSE mem[p]
              BY <3>2, <5>1, Assigned
          <5> QED BY <5>2
        <4> QED BY <2>3, <3>1, <3>2, <4>1 DEF HookInit, StaticsInv, NoneLive, Live, Deinits
      <3>3. ASSUME NEW got \in SUBSET Lists, NEW null \in SUBSET Lists, Assign(got, null),
                   Return(-1), UNCHANGED hooked
            PROVE  mem' \in [Statics -> {"null", "live", "freed"}] /\ StaticsInv'
        <4>1. mem' \in [Statics -> {"null", "live", "freed"}] /\ lost' = {}
          BY <3>1, <3>3, Assigned DEF NoneLive
        <4> QED BY <2>3, <3>1, <3>3, <4>1 DEF HookInit, StaticsInv, NoneLive, Live, Deinits
      <3>4. {"glob_hooks"} \in SUBSET Lists /\ {"req_hooks"} \in SUBSET Lists /\ {} \in SUBSET Lists
        BY DEF Lists
      <3>5. CASE Return(-1) /\ UNCHANGED hooked /\ Assign({}, {"glob_hooks"})
        BY ONLY <3>3, <3>4, <3>5
      <3>6. CASE Return(-1) /\ UNCHANGED hooked /\ Assign({"glob_hooks"}, {"req_hooks"})
        BY ONLY <3>3, <3>4, <3>6
      <3>7. \/ Assign(Lists, {}) /\ hooked' = {} /\ Continue("var_init")
            \/ Return(-1) /\ UNCHANGED hooked /\ Assign({}, {"glob_hooks"})
            \/ Return(-1) /\ UNCHANGED hooked /\ Assign({"glob_hooks"}, {"req_hooks"})
        BY <2>3 DEF HookInit
      <3> QED BY ONLY <3>2, <3>5, <3>6, <3>7
    <2>4. CASE VarInit
      <3>1. glob = "new" /\ Live(Files \cup Lists) /\ NoneLive({"glob_store_map"}) /\ initialized
        BY <2>4 DEF VarInit, StaticsInv
      <3>2. CASE Assign({"glob_store_map"}, {}) /\ Continue("req_init")
        <4>1. /\ mem' \in [Statics -> {"null", "live", "freed"}] /\ lost' = {}
              /\ \A p \in Statics : mem'[p] = IF p \in {"glob_store_map"} THEN "live" ELSE mem[p]
          BY <3>1, <3>2, Assigned DEF NoneLive
        <4>2. Live(Statics)'
          BY <3>1, <4>1 DEF Live
        <4> QED BY <2>4, <3>1, <3>2, <4>1, <4>2 DEF VarInit, StaticsInv, NoneLive, Live, Deinits
      <3>3. CASE Assign({}, {"glob_store_map"}) /\ Return(-1)
        <4>1. mem' \in [Statics -> {"null", "live", "freed"}] /\ lost' = {}
          BY <3>1, <3>3, Assigned DEF NoneLive
        <4> QED BY <2>4, <3>1, <3>3, <4>1 DEF VarInit, StaticsInv, NoneLive, Live, Deinits
      <3> QED BY <2>4, <3>2, <3>3 DEF VarInit
    <2>5. CASE ReqInit
      BY <2>5 DEF ReqInit, StaticsInv, NoneLive, Live, Deinits, TypeOK
    <2> QED BY <2>1, <2>2, <2>3, <2>4, <2>5
  <1>7. glob' = glob /\ result' \in {0, -1}
    <2>0. result \in {0, -1}
      BY DEF TypeOK
    <2>1. GlobInit \/ ReqInit => glob' = glob /\ result' \in {0, -1}
      BY <2>0 DEF GlobInit, ReqInit
    <2>2. PollInit => glob' = glob /\ result' \in {0, -1}
      <3>1. PollInit => (pc' = "hook_init" /\ UNCHANGED called) \/ Return(-1)
        BY DEF PollInit
      <3> QED BY <2>0, <3>1
    <2>3. HookInit \/ VarInit => glob' = glob /\ result' \in {0, -1}
      BY <2>0 DEF HookInit, VarInit
    <2> QED BY <2>1, <2>2, <2>3
  <1>2. TypeOK'
    <2>1. lost' = {}
      BY <1>1 DEF StaticsInv
    <2>2. initialized' \in BOOLEAN /\ hooked' \subseteq Lists /\ empty_req' \in BOOLEAN
      BY DEF TypeOK, GlobInit, PollInit, HookInit, VarInit, ReqInit
    <2> QED BY <1>0, <1>1, <1>7, <2>1, <2>2 DEF TypeOK, urlVars, ends
  <1>3. pc' \notin Deinits /\ glob' = glob
    BY <1>0, <1>7 DEF Deinits
  <1>4. UrlInv'
    BY <1>3, UrlsSame DEF UrlInv
  <1>5. glob = "up" => pc' \in {"idle", "poll_init"}
    BY DEF GlobInit, PollInit, HookInit, VarInit, ReqInit, StaticsInv
  <1>6. EndInv'
    BY <1>3, <1>5, UrlsSame DEF EndInv, ends
  <1> QED BY <1>1, <1>2, <1>4, <1>6

LEMMA UrlInitInv == ASSUME Inv, UrlInitStep PROVE Inv'
  <1> USE DEF Inv, Return
  <1>1. urls' \in {EmptyTable, NULL} /\ strings' = strings /\ urls = NULL /\ strings = {}
    BY DEF UrlInitStep, UrlInit, UrlInitFails, StaticsInv, UrlInv, Reachable
  <1>2. EmptyTable \in Tables
    BY DEF EmptyTable, Tables
  <1>3. TypeOK'
    BY <1>1, <1>2 DEF TypeOK, UrlInitStep, UrlInit, UrlInitFails, ends
  <1>4. StaticsInv'
    BY DEF UrlInitStep, UrlInit, UrlInitFails, StaticsInv, NoneLive, Live, Deinits
  <1>5. Reachable' = {}
    <2>1. \A b \in 0 .. Buckets - 1 : Len(EmptyTable[b]) = 0
      BY DEF EmptyTable
    <2>2. CASE urls' = NULL
      BY <2>2 DEF Reachable
    <2>3. CASE urls' = EmptyTable
      BY <2>1, <2>3 DEF Reachable
    <2> QED BY <1>1, <2>2, <2>3
  <1>6. UrlInv'
    BY <1>1, <1>5 DEF UrlInv, UrlInitStep, UrlInit, UrlInitFails, StaticsInv, Deinits
  <1>7. EndInv'
    BY DEF EndInv, UrlInitStep, UrlInit, UrlInitFails, StaticsInv, ends
  <1> QED BY <1>3, <1>4, <1>6, <1>7

(* What the program does with the library up, but for urls.                 *)
LEMMA ProgramSteps ==
  ASSUME Inv, \/ \E l \in Lists : HookReg(l)
              \/ \E e \in Ends : EndNew(e) \/ EndCallbackSet(e) \/ EndFree(e)
              \/ Poll \/ PollStop
  PROVE  Inv'
  <1> USE DEF Inv, Running
  <1>1. \A e \in Ends : EndFree(e) /\ store_empty[e] => Live({"req_hooks"})
    BY DEF EndFree, StaticsInv, Live, Statics, Lists
  <1>2. UNCHANGED <<urlVars, pc, called, mem, initialized, empty_req, lost>> /\ pc = "idle"
    BY <1>1 DEF HookReg, EndNew, EndCallbackSet, EndFree, Poll, PollStop
  <1>3. TypeOK'
    <2>1. CASE \E l \in Lists : HookReg(l)
      BY <1>2, <2>1 DEF TypeOK, HookReg, ends, called, urlVars
    <2>2. CASE \E e \in Ends : EndNew(e) \/ EndCallbackSet(e)
      BY <1>2, <2>2 DEF TypeOK, EndNew, EndCallbackSet, ends, called, urlVars
    <2>3. CASE \E e \in Ends : EndFree(e)
      BY <1>1, <1>2, <2>3 DEF TypeOK, EndFree, ends, called, urlVars
    <2>4. CASE Poll \/ PollStop
      BY <1>2, <2>4 DEF TypeOK, Poll, PollStop, ends, called, urlVars
    <2> QED BY <2>1, <2>2, <2>3, <2>4
  <1>4. StaticsInv'
    <2>1. glob = "down" => hooked' = hooked
      BY <1>1 DEF HookReg, EndNew, EndCallbackSet, EndFree, Poll, PollStop
    <2> QED BY <1>2, <2>1 DEF StaticsInv, Live, NoneLive, called, Deinits
  <1>5. UrlInv'
    BY <1>2, UrlsSame DEF UrlInv, called
  <1>6. EndInv'
    <2>1. CASE \E l \in Lists : HookReg(l)
      BY <1>2, <2>1, UrlsSame DEF EndInv, HookReg, ends, called
    <2>2. CASE \E e \in Ends : EndNew(e) \/ EndCallbackSet(e)
      <3>1. UNCHANGED <<store_empty, poll>> /\ glob = "up"
        BY <2>2 DEF EndNew, EndCallbackSet
      <3>2. \A e \in Ends : parts'[e] \in {parts[e], Parts}
        BY <2>2 DEF EndNew, EndCallbackSet, TypeOK
      <3>3. Parts # {}
        BY DEF Parts
      <3> QED BY <1>2, <3>1, <3>2, <3>3, UrlsSame, GlobConstants DEF EndInv, called
    <2>3. ASSUME NEW e \in Ends, EndFree(e) PROVE EndInv'
      <3>1. UNCHANGED <<poll, pc, glob>> /\ (poll = "running" => ~Named(e))
        BY <1>2, <2>3 DEF EndFree, called, Undefined
      <3>2. /\ parts' = [parts EXCEPT ![e] = {}]
            /\ store_empty' = [store_empty EXCEPT ![e] = FALSE]
        BY <1>1, <2>3 DEF EndFree
      <3>3. \A f \in Ends :
              /\ f # e => parts'[f] = parts[f] /\ store_empty'[f] = store_empty[f]
              /\ f = e => parts'[f] = {} /\ store_empty'[f] = FALSE
        BY <3>2 DEF TypeOK
      <3> QED BY <1>2, <3>1, <3>3, UrlsSame, GlobConstants DEF EndInv
    <2>4. CASE Poll \/ PollStop
      BY <1>2, <2>4, UrlsSame DEF EndInv, Poll, PollStop, ends, called
    <2> QED BY <2>1, <2>2, <2>3, <2>4
  <1> QED BY <1>3, <1>4, <1>5, <1>6

LEMMA Stuttering == ASSUME Inv, UNCHANGED vars PROVE Inv'
  <1> /\ UNCHANGED <<pc, glob, result, initialized, poll, mem, hooked, empty_req, lost, urlVars>>
      /\ UNCHANGED <<parts, callback, store_empty>>
    BY DEF vars, called, ends
  <1>1. TypeOK'
    BY DEF Inv, TypeOK, urlVars
  <1>2. StaticsInv'
    BY DEF Inv, StaticsInv, Live, NoneLive
  <1>3. UrlInv' /\ EndInv'
    BY UrlsSame DEF Inv, UrlInv, EndInv
  <1> QED BY <1>1, <1>2, <1>3 DEF Inv

LEMMA GivenType ==
  ASSUME given \in [Verbs -> [Urls -> Ends \cup {NULL}]],
         NEW e \in Ends, NEW v \in Verbs, NEW u \in Urls, Given(e, v, u)
  PROVE  /\ given' \in [Verbs -> [Urls -> Ends \cup {NULL}]]
         /\ \A w \in Verbs, t \in Urls :
              given'[w][t] =
                IF w = v /\ t = u /\ given[v][u] = NULL THEN e ELSE given[w][t]
  BY DEF Given

LEMMA UrlAddInv ==
  ASSUME Inv, NEW e \in Ends, NEW v \in Verbs, NEW u \in Urls, EndUrlAdd(e, v, u)
  PROVE  Inv'
  <1> USE DEF Inv, Running
  <1>1. CASE UrlAddFails(u)
    <2>1. UNCHANGED vars
      BY <1>1 DEF EndUrlAdd, UrlAddFails, vars
    <2> QED BY <2>1, Stuttering
  <1>2. CASE UrlAdd(e, v, u) /\ Given(e, v, u)
    <2>1. urls \in Tables \cup {NULL} /\ strings = Reachable
      BY DEF TypeOK, UrlInv
    <2>2. urls' \in Tables
      BY <1>2, <2>1, UrlAddValues
    <2>3. Len(Values(u)) \in Nat
      BY <2>1, ValuesType
    <2>4. strings' \subseteq Urls \X Nat
      <3>1. strings \subseteq Urls \X Nat
        BY DEF TypeOK
      <3>2. \E S \in SUBSET Nat : strings' = strings \cup {<<u, n>> : n \in S}
        <4>1. CASE Registered(u)
          <5>1. strings' = strings \cup {<<u, n>> : n \in {Len(Values(u)) + 1}}
            BY <1>2, <4>1 DEF UrlAdd
          <5>2. {Len(Values(u)) + 1} \in SUBSET Nat
            BY <2>3
          <5> QED BY <5>1, <5>2
        <4>2. CASE ~Registered(u)
          <5>1. strings' = strings \cup {<<u, n>> : n \in {0, 1}}
            BY <1>2, <4>2 DEF UrlAdd
          <5>2. {0, 1} \in SUBSET Nat
            OBVIOUS
          <5> QED BY <5>1, <5>2
        <4> QED BY <4>1, <4>2
      <3>3. PICK S \in SUBSET Nat : strings' = strings \cup {<<u, n>> : n \in S}
        BY <3>2
      <3>4. {<<u, n>> : n \in S} \subseteq Urls \X Nat
        OBVIOUS
      <3> QED BY <3>1, <3>3, <3>4
    <2>5. UNCHANGED <<pc, called, initialized, poll, mem, hooked, empty_req, ends, lost>>
      BY DEF EndUrlAdd
    <2>13. given' \in [Verbs -> [Urls -> Ends \cup {NULL}]]
      BY <1>2, GivenType DEF EndUrlAdd, TypeOK
    <2>6. TypeOK'
      BY <2>2, <2>4, <2>5, <2>13 DEF TypeOK, called, ends
    <2>7. StaticsInv'
      BY <2>5 DEF StaticsInv, Live, NoneLive, called
    <2>8. strings' = Reachable'
      BY <1>2, <2>1, UrlAddReachable
    <2>9. UrlInv'
      BY <2>5, <2>8 DEF UrlInv, EndUrlAdd, called, Deinits
    <2>10. \A f \in Ends : Named(f)' => Named(f) \/ f = e
      BY <1>2, <2>1, UrlAddRoutes DEF Named
    <2>11. parts[e] # {}
      BY DEF EndUrlAdd
    <2>12. EndInv'
      BY <2>5, <2>10, <2>11 DEF EndInv, called, ends
    <2> QED BY <2>6, <2>7, <2>9, <2>12
  <1> QED BY <1>1, <1>2 DEF EndUrlAdd

LEMMA ServeInv ==
  ASSUME Inv, NEW v \in Verbs, NEW u \in Urls, Serve(v, u)
  PROVE  Inv'
  <1> USE DEF Inv, Running
  <1> DEFINE e == ToEndpoint(v, u)
  <1>1. Live(Statics) /\ glob = "up" /\ poll = "running" /\ pc = "idle"
    BY DEF Serve, StaticsInv
  <1>2. e \in Ends \cup {NULL}
    BY EndpointType DEF TypeOK
  <1>3. e # NULL => e \in Ends /\ parts[e] = Parts /\ parts[e] # {}
    BY <1>1, <1>2 DEF EndInv, Named
  <1>4. /\ empty_req' = TRUE
        /\ \/ store_empty' = store_empty
           \/ e \in Ends /\ parts[e] # {} /\ store_empty' = [store_empty EXCEPT ![e] = TRUE]
        /\ UNCHANGED <<pc, called, initialized, poll, mem, hooked, parts, callback, lost, urlVars>>
    BY <1>1, <1>3 DEF Serve
  <1> HIDE DEF e
  <1>5. TypeOK'
    BY <1>4 DEF TypeOK, called, urlVars
  <1>6. StaticsInv'
    BY <1>1, <1>4 DEF StaticsInv, Live, NoneLive, called
  <1>7. UrlInv'
    BY <1>4, UrlsSame DEF UrlInv, called
  <1>8. \A f \in Ends : store_empty'[f] => parts[f] # {}
    BY <1>4 DEF EndInv, TypeOK
  <1>9. EndInv'
    BY <1>1, <1>4, <1>8, UrlsSame DEF EndInv, called
  <1> QED BY <1>5, <1>6, <1>7, <1>9

(* The steps of fra_glob_deinit.                                            *)
LEMMA DeinitSteps ==
  ASSUME Inv, GlobDeinit \/ ReqDeinit \/ VarDeinit \/ HookDeinit \/ PollDeinit
  PROVE  Inv'
  <1> USE DEF Inv, Running, Continue, After, called, Statics, Lists, Files, Deinits
  <1>1. CASE GlobDeinit
    <2>1. urls' = NULL /\ strings' = {} /\ Reachable' = {}
      BY <1>1 DEF GlobDeinit, UrlDeinit, UrlInv, Reachable
    <2>2. TypeOK'
      BY <1>1, <2>1 DEF GlobDeinit, TypeOK, Nowhere, ends
    <2>3. StaticsInv'
      BY <1>1 DEF GlobDeinit, StaticsInv, Live, NoneLive
    <2>4. UrlInv'
      BY <2>1 DEF UrlInv
    <2>5. EndInv'
      BY <1>1 DEF GlobDeinit, EndInv, ends
    <2> QED BY <2>2, <2>3, <2>4, <2>5
  <1>2. CASE ReqDeinit \/ VarDeinit \/ HookDeinit \/ PollDeinit
    <2>1. UNCHANGED <<urlVars, ends, poll>> /\ pc \in Deinits /\ glob = "up" /\ poll # "running"
      BY <1>2 DEF ReqDeinit, VarDeinit, HookDeinit, PollDeinit, StaticsInv, Undefined
    <2>2. StaticsInv'
      <3>1. CASE ReqDeinit
        BY <3>1, <2>1 DEF ReqDeinit, StaticsInv, Live, NoneLive, Undefined
      <3>2. CASE VarDeinit
        <4>1. Live(Statics) /\ ~empty_req /\ initialized
          BY <2>1, <3>2 DEF VarDeinit, StaticsInv
        <4>2. mem["glob_store_map"] = "live" /\ {"glob_store_map"} \in SUBSET Statics
          BY <4>1 DEF Live
        <4>3. Free({"glob_store_map"}) /\ pc' = "hook_deinit" /\ UNCHANGED <<called, initialized, poll, hooked, empty_req, ends, lost>>
          BY <3>2, <4>2 DEF VarDeinit
        <4>4. /\ mem'["glob_store_map"] # "live"
              /\ \A p \in {"main_poll", "callbacks", "glob_hooks", "req_hooks"} : mem'[p] = "live"
          BY <4>1, <4>2, <4>3, Freed DEF Live
        <4> QED BY <2>1, <4>1, <4>3, <4>4 DEF StaticsInv, Live, NoneLive
      <3>3. CASE HookDeinit
        <4>1. Live(Files \cup Lists) /\ NoneLive({"glob_store_map"}) /\ ~empty_req /\ initialized
          BY <2>1, <3>3 DEF HookDeinit, StaticsInv
        <4>2. Live(Lists) /\ Lists \in SUBSET Statics
          BY <4>1 DEF Live
        <4>3. Free(Lists) /\ hooked' = {} /\ pc' = "poll_deinit" /\ UNCHANGED <<called, initialized, poll, empty_req, ends, lost>>
          BY <3>3, <4>2 DEF HookDeinit
        <4>4. /\ mem'["main_poll"] = "live" /\ mem'["callbacks"] = "live"
              /\ \A p \in {"glob_store_map", "glob_hooks", "req_hooks"} : mem'[p] # "live"
          BY <4>1, <4>2, <4>3, Freed DEF Live, NoneLive
        <4> QED BY <2>1, <4>1, <4>3, <4>4 DEF StaticsInv, Live, NoneLive
      <3>4. CASE PollDeinit
        <4>1. Live(Files) /\ NoneLive(Statics \ Files) /\ hooked = {} /\ ~empty_req /\ initialized
          BY <2>1, <3>4 DEF PollDeinit, StaticsInv
        <4>2. mem["main_poll"] = "live" /\ mem["callbacks"] = "live" /\ Files \in SUBSET Statics
          BY <4>1 DEF Live, Files
        <4>3. /\ Free(Files) /\ pc' = "idle" /\ glob' = "down" /\ lost' = lost
              /\ UNCHANGED <<initialized, poll, hooked, empty_req>>
          BY <3>4, <4>2 DEF PollDeinit, Files
        <4>4. NoneLive(Statics)'
          BY <2>1, <4>1, <4>2, <4>3, Freed DEF NoneLive
        <4> QED BY <2>1, <4>1, <4>3, <4>4 DEF StaticsInv, NoneLive
      <3> QED BY <1>2, <3>1, <3>2, <3>3, <3>4
    <2>3. TypeOK'
      BY <1>2, <2>1 DEF ReqDeinit, VarDeinit, HookDeinit, PollDeinit, TypeOK, Free, ends, urlVars, Undefined
    <2>4. UrlInv'
      BY <2>1, UrlsSame DEF UrlInv
    <2>5. EndInv'
      BY <2>1 DEF EndInv, ends
    <2> QED BY <2>2, <2>3, <2>4, <2>5
  <1> QED BY <1>1, <1>2

LEMMA Invariance == Spec => []Inv
  <1>1. Inv /\ UNCHANGED vars => Inv'
    BY Stuttering
  <1>2. Inv /\ Next => Inv'
    BY InitSteps, UrlInitInv, ProgramSteps, UrlAddInv, ServeInv, DeinitSteps DEF Next
  <1> QED BY InvInit, <1>1, <1>2, PTL DEF Spec

-----------------------------------------------------------------------------
(* The properties                                                           *)

(* TypeOK: every variable has its type.                                     *)
THEOREM Typing == Spec => []TypeOK
  BY Invariance, PTL DEF Inv

(* NoUndefined: no step uses memory that is not there, whatever fails.      *)
THEOREM MemoryThere == Spec => []NoUndefined
  <1>1. Inv => NoUndefined
    BY DEF Inv, StaticsInv, NoUndefined
  <1> QED BY Invariance, <1>1, PTL

(* NoLeak: the library frees what it allocates.                             *)
THEOREM NothingLeaks == Spec => []NoLeak
  <1>1. Inv => NoLeak
    <2> SUFFICES ASSUME Inv PROVE NoLeak
      OBVIOUS
    <2>1. lost = {} /\ strings = Reachable
      BY DEF Inv, StaticsInv, UrlInv
    <2>2. \A e \in Ends : parts[e] \in {{}, Parts} /\ (parts[e] = {} => ~store_empty[e])
      BY DEF Inv, EndInv
    <2>3. glob = "down" => strings = {}
      BY DEF Inv, UrlInv, Reachable
    <2>4. glob = "down" => ~empty_req /\ hooked = {} /\ \A p \in Statics : mem[p] # "live"
      BY DEF Inv, StaticsInv, NoneLive
    <2> QED BY <2>1, <2>2, <2>3, <2>4 DEF NoLeak
  <1> QED BY Invariance, <1>1, PTL

(* A verb and url leads to the endpoint it was given to first.              *)
Leads == \A v \in Verbs, u \in Urls : ToEndpoint(v, u) = given[v][u]

LEMMA LeadsNext ==
  ASSUME Inv, Leads, [Next]_vars
  PROVE  /\ Leads'
         /\ \/ given' = given
            \/ given' = Nowhere
            \/ \E e \in Ends, v \in Verbs, u \in Urls : Given(e, v, u)
  <1>1. CASE UNCHANGED urlVars
    BY <1>1, UrlsSame DEF Leads
  <1>2. ASSUME urls' = NULL \/ urls' = EmptyTable, given' = Nowhere
        PROVE  Leads'
    <2>1. (urls = NULL \/ urls = EmptyTable =>
            /\ \A u \in Urls : Values(u) = <<>>
            /\ \A v, u : u \in Urls => ToEndpoint(v, u) = NULL)'
      BY NoTable, PTL
    <2>2. \A v, u : u \in Urls => ToEndpoint(v, u)' = NULL
      BY <1>2, <2>1 DEF EmptyTable
    <2> QED BY <1>2, <2>2 DEF Leads, Nowhere
  <1>3. CASE UrlInitStep
    <2>1. urls = NULL /\ given' = given
      BY <1>3 DEF UrlInitStep, Inv, StaticsInv, UrlInv
    <2>2. \A v \in Verbs, u \in Urls : given[v][u] = NULL
      BY <2>1, NoTable DEF Leads
    <2>3. given' = Nowhere
      BY <2>1, <2>2 DEF Inv, TypeOK, Nowhere
    <2>4. urls' = NULL \/ urls' = EmptyTable
      BY <1>3 DEF UrlInitStep, UrlInit, UrlInitFails
    <2> QED BY <1>2, <2>1, <2>3, <2>4
  <1>4. CASE GlobDeinit
    BY <1>2, <1>4 DEF GlobDeinit, UrlDeinit
  <1>5. ASSUME NEW e \in Ends, NEW v \in Verbs, NEW u \in Urls, UrlAdd(e, v, u), Given(e, v, u)
        PROVE  Leads'
    <2>1. \A w \in Verbs, t \in Urls :
            ToEndpoint(w, t)' =
              IF w = v /\ t = u /\ ToEndpoint(v, u) = NULL THEN e ELSE ToEndpoint(w, t)
      BY <1>5, UrlAddRoutes DEF Inv, TypeOK
    <2>2. \A w \in Verbs, t \in Urls :
            given'[w][t] = IF w = v /\ t = u /\ given[v][u] = NULL THEN e ELSE given[w][t]
      BY <1>5, GivenType DEF Inv, TypeOK
    <2> QED BY <2>1, <2>2 DEF Leads
  <1>6. \A e \in Ends, v \in Verbs, u \in Urls :
          EndUrlAdd(e, v, u) => (UrlAdd(e, v, u) /\ Given(e, v, u)) \/ UNCHANGED urlVars
    BY DEF EndUrlAdd, UrlAddFails
  <1>7. CASE UNCHANGED vars
    BY <1>1, <1>7 DEF vars
  <1>8. CASE Next
    <2>1. \/ UNCHANGED urlVars \/ UrlInitStep \/ GlobDeinit
          \/ \E e \in Ends, v \in Verbs, u \in Urls : EndUrlAdd(e, v, u)
      BY <1>8 DEF Next, GlobInit, PollInit, HookInit, VarInit, ReqInit, HookReg, EndNew,
           EndCallbackSet, EndFree, Undefined, Poll, PollStop, Serve, ReqDeinit, VarDeinit,
           HookDeinit, PollDeinit
    <2>2. given' = given \/ given' = Nowhere
            \/ \E e \in Ends, v \in Verbs, u \in Urls : Given(e, v, u)
      BY <1>6, <2>1 DEF UrlInitStep, GlobDeinit, urlVars
    <2> QED BY <1>1, <1>3, <1>4, <1>5, <1>6, <2>1, <2>2
  <1>9. given' = given \/ given' = Nowhere
          \/ \E e \in Ends, v \in Verbs, u \in Urls : Given(e, v, u)
    <2>1. UNCHANGED vars => given' = given
      BY DEF vars, urlVars
    <2> QED BY <1>8, <2>1
  <1> QED BY <1>7, <1>8, <1>9

(* RouterSpec: the table of urls gives a request to the endpoint that had   *)
(* its verb and url first, and to none if no fra_end_url_add that succeeded *)
(* named them.                                                              *)
THEOREM Routed == Spec => RouterSpec
  <1> DEFINE R == [v \in Verbs |-> [u \in Urls |-> ToEndpoint(v, u)]]
  <1>1. Init => Leads /\ Routes!Init
    <2>1. Init => \A v \in Verbs, u \in Urls : ToEndpoint(v, u) = NULL
      BY NoTable DEF Init
    <2>2. Init => R = Routes!Nowhere
      BY <2>1 DEF Routes!Nowhere
    <2>3. Init => given = Nowhere /\ Nowhere = Routes!Nowhere
      BY DEF Init, Nowhere, Routes!Nowhere
    <2>4. \A v \in Verbs, u \in Urls : Nowhere[v][u] = NULL
      BY DEF Nowhere
    <2>5. Init => Leads
      BY <2>1, <2>3, <2>4 DEF Leads
    <2> QED BY <2>2, <2>3, <2>5 DEF Routes!Init
  <1>2. Inv /\ Leads /\ [Next]_vars => Leads'
    BY LeadsNext
  <1>3. Inv /\ Inv' /\ Leads /\ Leads' /\ [Next]_vars => [Routes!Next]_<<given, R>>
    <2> SUFFICES ASSUME Inv, Inv', Leads, Leads', [Next]_vars
                 PROVE  Routes!Next \/ UNCHANGED <<given, R>>
      OBVIOUS
    <2>1. given \in [Verbs -> [Urls -> Ends \cup {NULL}]]
      BY DEF Inv, TypeOK
    <2>2. given' \in [Verbs -> [Urls -> Ends \cup {NULL}]]
      BY DEF Inv, TypeOK
    <2>3. R = given
      BY <2>1 DEF Leads
    <2>4. R' = given'
      BY <2>2 DEF Leads
    <2>5. CASE given' = Nowhere
      BY <2>4, <2>5 DEF Routes!Next, Routes!Forget, Routes!Nowhere, Nowhere
    <2>6. CASE \E e \in Ends, v \in Verbs, u \in Urls : Given(e, v, u)
      BY <2>4, <2>6 DEF Routes!Next, Routes!Give, Given
    <2>7. CASE given' = given
      BY <2>3, <2>4, <2>7
    <2> QED BY <2>5, <2>6, <2>7, LeadsNext
  <1> QED BY Invariance, <1>1, <1>2, <1>3, PTL DEF Spec, RouterSpec, Routes!Spec
=============================================================================
