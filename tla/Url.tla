-------------------------------- MODULE Url ---------------------------------
(***************************************************************************)
(* The table of urls: src/url.c over the hash table of src/ht.c.  A bucket *)
(* is a chain of entries, an entry has a url as its key and the list of    *)
(* the verbs and endpoints that were given it.  The strings of the table   *)
(* are copies (bfromcstr), so the module also says which copies exist.     *)
(*                                                                         *)
(* Glob.tla composes these operations with the rest of the library, which  *)
(* calls them one at a time.  The fra_p_lock calls are no-ops, as          *)
(* fra_p_pthreads is 0 (src/lock.c:2).  There is no fra_end_url_del.       *)
(***************************************************************************)
EXTENDS Naturals, Sequences

CONSTANTS
  Ends,     \* endpoints
  Verbs, Urls,
  TooLong,  \* urls of FRA_CORE_MAX_ENDPOINT_LENGTH bytes or more
  Hash,     \* MurmurHash3_x86_32( url, ..., 55 )
  Buckets,  \* 500 in url.c:94
  NULL

Entries == [key : Urls, values : Seq([verb : Verbs, e : Ends])]
Tables  == [0 .. Buckets - 1 -> Seq(Entries)]

ASSUME UrlConstants ==
  /\ TooLong \subseteq Urls
  /\ Hash \in [Urls -> Nat] /\ Buckets \in Nat \ {0}
  /\ NULL \notin Ends /\ NULL \notin Tables

VARIABLES
  urls,     \* NULL, or per bucket the chain of its entries
  strings,  \* copies not destroyed: <<u, 0>> the key of u, <<u, n>> its nth verb
  given     \* history: the endpoint that a verb and url was given to first

urlVars == <<urls, strings, given>>

First(S) == CHOOSE j \in S : \A k \in S : j <= k

-----------------------------------------------------------------------------
(* Lookup                                                                   *)

BucketOf(u) == Hash[u] % Buckets

(* fra_p_ht_get: the first entry of the chain with this key, if there is a  *)
(* table.  Its values are the list that struct url chains.                  *)
Chain(u) == IF urls = NULL THEN <<>> ELSE urls[BucketOf(u)]
Hits(u) == {j \in 1 .. Len(Chain(u)) : Chain(u)[j].key = u}
Registered(u) == Hits(u) # {}
Values(u) == IF Registered(u) THEN Chain(u)[First(Hits(u))].values ELSE <<>>

(* fra_p_url_to_endpoint: the first value with this verb.                   *)
Having(values, v) == {n \in 1 .. Len(values) : values[n].verb = v}
ValueOf(values, v) == IF Having(values, v) = {} THEN NULL ELSE values[First(Having(values, v))].e
ToEndpoint(v, u) == ValueOf(Values(u), v)

-----------------------------------------------------------------------------
(* Operations                                                               *)

(* fra_p_url_init: fra_p_ht_new gives an empty table, or NULL.              *)
EmptyTable == [b \in 0 .. Buckets - 1 |-> <<>>]
UrlInit      == urls' = EmptyTable /\ UNCHANGED strings
UrlInitFails == urls' = NULL /\ UNCHANGED strings

Nowhere == [v \in Verbs |-> [u \in Urls |-> NULL]]
Given(e, v, u) == given' = [given EXCEPT ![v][u] = IF @ = NULL THEN e ELSE @]

(* A struct url.                                                            *)
FaultyValue(e, v) == [verb |-> v, e |-> NULL]
Value(e, v) == [verb |-> v, e |-> e]

(* fra_end_url_add: another value of an entry, or a new entry.              *)
FaultyUrlAdd(e, v, u) ==
  /\ u \notin TooLong /\ urls # NULL
  /\ \/ /\ Registered(u)
        /\ urls' = [urls EXCEPT ![BucketOf(u)][First(Hits(u))].values = <<Value(e, v)>> \o @]
        /\ strings' = strings \cup {<<u, Len(Values(u)) + 1>>}
     \/ /\ ~Registered(u)
        /\ urls' = [urls EXCEPT ![BucketOf(u)] = Append(@, [key |-> u, values |-> <<Value(e, v)>>])]
        /\ strings' = strings \cup {<<u, 0>>, <<u, 1>>}
UrlAdd(e, v, u) ==
  /\ u \notin TooLong /\ urls # NULL
  /\ \/ /\ Registered(u)
        /\ urls' = [urls EXCEPT ![BucketOf(u)][First(Hits(u))].values = Append(@, Value(e, v))]
        /\ strings' = strings \cup {<<u, Len(Values(u)) + 1>>}
     \/ /\ ~Registered(u)
        /\ urls' = [urls EXCEPT ![BucketOf(u)] = Append(@, [key |-> u, values |-> <<Value(e, v)>>])]
        /\ strings' = strings \cup {<<u, 0>>, <<u, 1>>}

(* verb_cleanup: the url is too long, or memory ran out for the new value   *)
(* (which the list then does not lead to), the entry, or its key.           *)
UrlAddFails(u) == UNCHANGED urlVars

(* Every copy the table leads to, from each entry its key and its verbs.    *)
Reachable ==
  IF urls = NULL THEN {}
  ELSE UNION {UNION {{<<urls[b][j].key, n>> : n \in 0 .. Len(urls[b][j].values)} :
                       j \in 1 .. Len(urls[b])} : b \in 0 .. Buckets - 1}

(* fra_p_url_deinit: fra_p_ht_free destroys keys, destroy_url their verbs.  *)
FaultyUrlDeinit ==
  /\ strings' = {s \in strings : s[2] > 1}
  /\ urls' = NULL
UrlDeinit ==
  /\ strings' = strings \ Reachable
  /\ urls' = NULL
=============================================================================
