---------------------------- MODULE ReadsProofs ----------------------------
(***************************************************************************)
(* A load of a configuration gives what the files say, for any files,      *)
(* directories and number of descriptors: GivesTheFiles, at the end, of    *)
(* ReadsTheFiles.  First, what the reference Reads is: the recursive       *)
(* functions it is made of exist, by the least number for which they do    *)
(* not.  Then the invariant: for every call that has not returned, what it *)
(* has set is what the items and directory entries before its place can    *)
(* give.                                                                   *)
(***************************************************************************)
EXTENDS ConfigProofs, WellFoundedInduction

-----------------------------------------------------------------------------
(* Induction over the numbers                                               *)

LEMMA Inductive ==
  ASSUME NEW T, 0 \in T, \A n \in Nat : n \in T => n + 1 \in T
  PROVE  Nat \subseteq T
  <1> DEFINE U == Nat \ T
             R == OpToRel(<, Nat)
  <1> SUFFICES ASSUME U # {} PROVE FALSE
    OBVIOUS
  <1>1. \E x \in U : \A y \in U : ~(<<y, x>> \in R)
    BY NatLessThanWellFounded, WFMin
  <1>2. \A x, y \in Nat : y < x => <<y, x>> \in R
    BY DEF OpToRel
  <1> HIDE DEF R
  <1>3. PICK x \in U : \A y \in U : ~(<<y, x>> \in R)
    BY <1>1
  <1>4. \A y \in U : ~(y < x)
    BY <1>2, <1>3, Zenon
  <1>5. x \in Nat /\ x # 0
    BY <1>3
  <1>6. x - 1 \in Nat /\ x - 1 < x /\ (x - 1) + 1 = x
    BY <1>5
  <1>7. x - 1 \in T
    BY <1>4, <1>6
  <1> QED BY <1>3, <1>6, <1>7

-----------------------------------------------------------------------------
(* What can be set                                                          *)

Results == [bools : Seq(BOOLEAN), plugins : Seq(NewPlugin)]

LEMMA PlusType == \A r, t \in Results : Plus(r, t) \in Results
  <1> SUFFICES ASSUME NEW r \in Results, NEW t \in Results PROVE Plus(r, t) \in Results
    OBVIOUS
  <1>1. /\ r.bools \in Seq(BOOLEAN) /\ t.bools \in Seq(BOOLEAN)
        /\ r.plugins \in Seq(NewPlugin) /\ t.plugins \in Seq(NewPlugin)
    BY DEF Results
  <1>2. r.bools \o t.bools \in Seq(BOOLEAN) /\ r.plugins \o t.plugins \in Seq(NewPlugin)
    BY <1>1, ConcatProperties
  <1> QED BY <1>2 DEF Plus, Results

LEMMA PlusAssociative ==
  ASSUME NEW r \in Results, NEW t \in Results, NEW u \in Results
  PROVE  Plus(Plus(r, t), u) = Plus(r, Plus(t, u))
  <1>1. /\ r.bools \in Seq(BOOLEAN) /\ t.bools \in Seq(BOOLEAN) /\ u.bools \in Seq(BOOLEAN)
        /\ r.plugins \in Seq(NewPlugin) /\ t.plugins \in Seq(NewPlugin) /\ u.plugins \in Seq(NewPlugin)
    BY DEF Results
  <1>a. ASSUME NEW S, NEW a \in Seq(S), NEW b \in Seq(S), NEW c \in Seq(S)
        PROVE  (a \o b) \o c = a \o (b \o c)
    BY ConcatAssociative
  <1>b. \A a, b, c \in Seq(BOOLEAN) : (a \o b) \o c = a \o (b \o c)
    BY <1>a
  <1>c. \A a, b, c \in Seq(NewPlugin) : (a \o b) \o c = a \o (b \o c)
    BY <1>a
  <1>2. (r.bools \o t.bools) \o u.bools = r.bools \o (t.bools \o u.bools)
    BY <1>1, <1>b, Zenon
  <1>3. (r.plugins \o t.plugins) \o u.plugins = r.plugins \o (t.plugins \o u.plugins)
    BY <1>1, <1>c, Zenon
  <1> QED BY <1>2, <1>3 DEF Plus

LEMMA NothingAdds ==
  /\ Nothing \in Results
  /\ \A r \in Results : Plus(r, Nothing) = r /\ Plus(Nothing, r) = r
  <1>1. Nothing \in Results
    BY EmptySeq DEF Nothing, Results
  <1>2. ASSUME NEW r \in Results PROVE Plus(r, Nothing) = r /\ Plus(Nothing, r) = r
    <2>1. /\ r.bools \in Seq(BOOLEAN) /\ r.plugins \in Seq(NewPlugin)
          /\ r = [bools |-> r.bools, plugins |-> r.plugins]
      BY DEF Results
    <2>2. /\ r.bools \o <<>> = r.bools /\ <<>> \o r.bools = r.bools
          /\ r.plugins \o <<>> = r.plugins /\ <<>> \o r.plugins = r.plugins
      BY <2>1, ConcatEmptySeq
    <2> QED BY <2>1, <2>2 DEF Plus, Nothing
  <1> QED BY <1>1, <1>2

LEMMA ThenType ==
  ASSUME NEW S \in SUBSET Results, NEW T \in SUBSET Results
  PROVE  Then(S, T) \in SUBSET Results
  BY PlusType DEF Then

LEMMA InThen ==
  ASSUME NEW S, NEW T, NEW r \in S, NEW t \in T
  PROVE  Plus(r, t) \in Then(S, T)
  BY DEF Then

-----------------------------------------------------------------------------
(* Several things in turn                                                   *)

LEMMA AfterIs ==
  ASSUME NEW ms, Len(ms) \in Nat
  PROVE  /\ After(ms) = [k \in 0 .. Len(ms) |->
                           IF k = 0 THEN {Nothing} ELSE Then(After(ms)[k - 1], ms[k])]
         /\ After(ms)[0] = {Nothing}
         /\ \A k \in 1 .. Len(ms) : After(ms)[k] = Then(After(ms)[k - 1], ms[k])
  <1> DEFINE Is(g, m) == g = [k \in 0 .. m |-> IF k = 0 THEN {Nothing} ELSE Then(g[k - 1], ms[k])]
             T == {m \in Nat : \E g : Is(g, m)}
  <1>1. 0 \in T
    <2>1. Is([k \in 0 .. 0 |-> {Nothing}], 0)
      OBVIOUS
    <2> QED BY <2>1
  <1>2. ASSUME NEW m \in Nat, m \in T PROVE m + 1 \in T
    <2>1. PICK g : Is(g, m)
      BY <1>2
    <2> DEFINE h == [k \in 0 .. m + 1 |-> IF k = m + 1 THEN Then(g[m], ms[m + 1]) ELSE g[k]]
    <2>2. \A k \in 0 .. m : h[k] = g[k]
      OBVIOUS
    <2>3. \A k \in 0 .. m : g[k] = IF k = 0 THEN {Nothing} ELSE Then(g[k - 1], ms[k])
      BY <2>1
    <2>4. \A k \in 0 .. m : k # 0 => k - 1 \in 0 .. m
      OBVIOUS
    <2>5. \A k \in 0 .. m : h[k] = IF k = 0 THEN {Nothing} ELSE Then(h[k - 1], ms[k])
      <3> HIDE DEF h
      <3> SUFFICES ASSUME NEW k \in 0 .. m
                   PROVE  h[k] = IF k = 0 THEN {Nothing} ELSE Then(h[k - 1], ms[k])
        OBVIOUS
      <3>1. CASE k = 0
        BY <3>1, <2>2, <2>3
      <3>2. CASE k # 0
        <4>1. h[k - 1] = g[k - 1]
          BY <3>2, <2>2, <2>4
        <4> QED BY <3>2, <4>1, <2>2, <2>3
      <3> QED BY <3>1, <3>2
    <2>6. h[m + 1] = Then(h[m], ms[m + 1]) /\ m + 1 # 0 /\ (m + 1) - 1 = m
      BY <2>2
    <2>7. \A k \in 0 .. m + 1 : k \in 0 .. m \/ k = m + 1
      OBVIOUS
    <2>8. \A k \in 0 .. m + 1 : h[k] = IF k = 0 THEN {Nothing} ELSE Then(h[k - 1], ms[k])
      BY <2>5, <2>6, <2>7
    <2>9. h = [k \in 0 .. m + 1 |-> h[k]]
      OBVIOUS
    <2> HIDE DEF h
    <2>10. Is(h, m + 1)
      BY <2>8, <2>9
    <2> HIDE DEF Is
    <2> QED BY <2>10
  <1>3. Len(ms) \in T
    <2> HIDE DEF T
    <2> QED BY <1>1, <1>2, Inductive
  <1>4. Is(After(ms), Len(ms))
    BY <1>3 DEF After
  <1>5. After(ms) = [k \in 0 .. Len(ms) |->
                       IF k = 0 THEN {Nothing} ELSE Then(After(ms)[k - 1], ms[k])]
    BY <1>4
  <1> HIDE DEF Is
  <1>6. ASSUME NEW k \in 0 .. Len(ms)
        PROVE  After(ms)[k] = IF k = 0 THEN {Nothing} ELSE Then(After(ms)[k - 1], ms[k])
    BY <1>5
  <1>7. \A k \in 1 .. Len(ms) : k \in 0 .. Len(ms) /\ k # 0
    OBVIOUS
  <1>8. 0 \in 0 .. Len(ms)
    OBVIOUS
  <1> QED BY <1>5, <1>6, <1>7, <1>8

LEMMA AfterType ==
  ASSUME NEW ms, Len(ms) \in Nat, \A k \in 1 .. Len(ms) : ms[k] \in SUBSET Results
  PROVE  \A k \in 0 .. Len(ms) : After(ms)[k] \in SUBSET Results
  <1> DEFINE T == {k \in Nat : k <= Len(ms) => After(ms)[k] \in SUBSET Results}
  <1>1. 0 \in T
    BY AfterIs, NothingAdds
  <1>2. ASSUME NEW k \in Nat, k \in T PROVE k + 1 \in T
    <2> SUFFICES ASSUME k + 1 <= Len(ms) PROVE After(ms)[k + 1] \in SUBSET Results
      OBVIOUS
    <2>1. k + 1 \in 1 .. Len(ms) /\ (k + 1) - 1 = k /\ After(ms)[k] \in SUBSET Results
      BY <1>2
    <2>2. After(ms)[k + 1] = Then(After(ms)[k], ms[k + 1])
      BY <2>1, AfterIs
    <2> QED BY <2>1, <2>2, ThenType
  <1> HIDE DEF T
  <1>3. Nat \subseteq T
    BY <1>1, <1>2, Inductive
  <1> QED BY <1>3 DEF T

(* One that can give nothing leaves nothing.                                *)
LEMMA AfterEmpty ==
  ASSUME NEW ms, Len(ms) \in Nat, NEW i \in 1 .. Len(ms), ms[i] = {}
  PROVE  InTurn(ms) = {}
  <1> DEFINE T == {k \in Nat : i + k <= Len(ms) => After(ms)[i + k] = {}}
  <1>1. 0 \in T
    <2>1. After(ms)[i] = Then(After(ms)[i - 1], {}) /\ i + 0 = i
      BY AfterIs
    <2> QED BY <2>1 DEF Then
  <1>2. ASSUME NEW k \in Nat, k \in T PROVE k + 1 \in T
    <2> SUFFICES ASSUME i + (k + 1) <= Len(ms) PROVE After(ms)[i + (k + 1)] = {}
      OBVIOUS
    <2>1. i + (k + 1) \in 1 .. Len(ms) /\ (i + (k + 1)) - 1 = i + k /\ After(ms)[i + k] = {}
      BY <1>2
    <2>2. After(ms)[i + (k + 1)] = Then({}, ms[i + (k + 1)])
      BY <2>1, AfterIs
    <2> QED BY <2>2 DEF Then
  <1> HIDE DEF T
  <1>3. Nat \subseteq T
    BY <1>1, <1>2, Inductive
  <1>4. Len(ms) - i \in T /\ i + (Len(ms) - i) = Len(ms)
    BY <1>3
  <1>5. Len(ms) - i \in T => (i + (Len(ms) - i) <= Len(ms) => After(ms)[i + (Len(ms) - i)] = {})
    BY DEF T
  <1> QED BY <1>4, <1>5 DEF InTurn

LEMMA AfterSame ==
  ASSUME NEW ms, NEW ns, Len(ms) \in Nat, Len(ns) \in Nat,
         NEW j \in Nat, j <= Len(ms), j <= Len(ns), \A k \in 1 .. j : ns[k] = ms[k]
  PROVE  \A k \in 0 .. j : After(ns)[k] = After(ms)[k]
  <1> DEFINE T == {k \in Nat : k <= j => After(ns)[k] = After(ms)[k]}
  <1>1. 0 \in T
    BY AfterIs
  <1>2. ASSUME NEW k \in Nat, k \in T PROVE k + 1 \in T
    <2> SUFFICES ASSUME k + 1 <= j PROVE After(ns)[k + 1] = After(ms)[k + 1]
      OBVIOUS
    <2>1. k + 1 \in 1 .. j /\ k + 1 \in 1 .. Len(ms) /\ k + 1 \in 1 .. Len(ns) /\ (k + 1) - 1 = k
          /\ After(ns)[k] = After(ms)[k]
      BY <1>2
    <2>2. After(ns)[k + 1] = Then(After(ns)[k], ns[k + 1]) /\ After(ms)[k + 1] = Then(After(ms)[k], ms[k + 1])
      BY <2>1, AfterIs
    <2> QED BY <2>1, <2>2
  <1> HIDE DEF T
  <1>3. Nat \subseteq T
    BY <1>1, <1>2, Inductive
  <1> QED BY <1>3 DEF T

LEMMA OneMore ==
  ASSUME NEW ms, NEW ns, Len(ms) \in Nat, Len(ns) = Len(ms) + 1,
         \A k \in 1 .. Len(ms) : ns[k] = ms[k]
  PROVE  InTurn(ns) = Then(InTurn(ms), ns[Len(ns)])
  <1>1. Len(ns) \in 1 .. Len(ns) /\ Len(ns) - 1 = Len(ms) /\ Len(ns) \in Nat /\ Len(ms) <= Len(ns)
    OBVIOUS
  <1>2. After(ns)[Len(ns)] = Then(After(ns)[Len(ms)], ns[Len(ns)])
    BY <1>1, AfterIs
  <1>3. After(ns)[Len(ms)] = After(ms)[Len(ms)]
    BY <1>1, AfterSame
  <1> QED BY <1>2, <1>3 DEF InTurn

-----------------------------------------------------------------------------
(* The orders of a directory                                                *)

LEMMA LenIs ==
  ASSUME NEW n \in Nat, NEW f, DOMAIN f = 1 .. n, f = [k \in DOMAIN f |-> f[k]]
  PROVE  Len(f) = n
  OBVIOUS

LEMMA OrderIs ==
  ASSUME NEW S, IsFiniteSet(S), NEW order \in SetToSeqs(S)
  PROVE  /\ order \in Seq(S)
         /\ \A e \in S : \E k \in 1 .. Len(order) : order[k] = e
         /\ \A i, j \in 1 .. Len(order) : i # j => order[i] # order[j]
  <1> DEFINE n == Cardinality(S)
  <1>1. n \in Nat
    BY FS_CardinalityType
  <1>2. order \in [1 .. n -> S] /\ \A i, j \in 1 .. n : i # j => order[i] # order[j]
    BY DEF SetToSeqs
  <1> HIDE DEF n
  <1>3. order \in Injection(1 .. n, S)
    BY <1>2 DEF Injection, IsInjective
  <1>4. IsFiniteSet(1 .. n) /\ Cardinality(1 .. n) = n
    BY <1>1, FS_Interval
  <1>5. order \in Surjection(1 .. n, S)
    BY <1>1, <1>3, <1>4, FS_Injection DEF n
  <1>6. order \in Seq(S) /\ Len(order) = n
    BY <1>1, <1>2
  <1> QED BY <1>2, <1>5, <1>6 DEF Surjection

LEMMA IsOrder ==
  ASSUME NEW S, NEW order \in Seq(S),
         \A i, j \in 1 .. Len(order) : i # j => order[i] # order[j],
         \A e \in S : \E k \in 1 .. Len(order) : order[k] = e
  PROVE  order \in SetToSeqs(S)
  <1> DEFINE n == Len(order)
  <1>1. n \in Nat /\ order \in [1 .. n -> S]
    OBVIOUS
  <1>2. IsFiniteSet(1 .. n) /\ Cardinality(1 .. n) = n
    BY <1>1, FS_Interval
  <1>3. order \in Injection(1 .. n, S) /\ order \in Surjection(1 .. n, S)
    BY <1>1 DEF Injection, IsInjective, Surjection
  <1>4. Cardinality(S) = n
    BY <1>2, <1>3, FS_Surjection
  <1> QED BY <1>1, <1>4 DEF SetToSeqs

-----------------------------------------------------------------------------
(* Reads                                                                    *)

LEMMA MeaningsAre ==
  ASSUME NEW n, NEW order, NEW reads, Len(order) \in Nat
  PROVE  /\ Len(Meanings(n, order, reads)) = Len(order)
         /\ \A k \in 1 .. Len(order) : Meanings(n, order, reads)[k] = reads[n - 2][order[k]]
  BY LenIs DEF Meanings

LEMMA ItemsAre ==
  ASSUME NEW n, NEW file, NEW reads, Len(Content[file]) \in Nat
  PROVE  /\ Len(ItemsMean(n, file, reads)) = Len(Content[file])
         /\ \A k \in 1 .. Len(Content[file]) :
              ItemsMean(n, file, reads)[k] = Meaning(n, Content[file][k], reads)
  <1> DEFINE m(k) == Meaning(n, Content[file][k], reads)
  <1> HIDE DEF m
  <1>1. ItemsMean(n, file, reads) = [k \in 1 .. Len(Content[file]) |-> m(k)]
    BY DEF ItemsMean, m
  <1>2. \A k \in 1 .. Len(Content[file]) : m(k) = Meaning(n, Content[file][k], reads)
    BY DEF m
  <1> QED BY <1>1, <1>2, LenIs

(* An item looks at what files give with one or two descriptors less.       *)
LEMMA MeaningAgree ==
  ASSUME NEW n \in Nat, NEW g, NEW h, NEW it, g[n - 1] = h[n - 1], n > 1 => g[n - 2] = h[n - 2]
  PROVE  Meaning(n, it, g) = Meaning(n, it, h)
  <1>1. ASSUME n > 1, NEW order PROVE Meanings(n, order, g) = Meanings(n, order, h)
    BY <1>1 DEF Meanings
  <1>2. n > 1 => \A S : Directory(n, S, g) = Directory(n, S, h)
    BY <1>1 DEF Directory
  <1> QED BY <1>2 DEF Meaning

LEMMA GivenAgree ==
  ASSUME NEW n \in Nat, NEW g, NEW h,
         n > 0 => g[n - 1] = h[n - 1], n > 1 => g[n - 2] = h[n - 2]
  PROVE  Given(n, g) = Given(n, h)
  <1>1. ASSUME NEW file, n > 0 PROVE ItemsMean(n, file, g) = ItemsMean(n, file, h)
    <2>1. \A it : Meaning(n, it, g) = Meaning(n, it, h)
      BY <1>1, MeaningAgree
    <2> QED BY <2>1, Zenon DEF ItemsMean
  <1>2. \A file \in Files :
          (IF n > 0 /\ file \in DOMAIN Content THEN InTurn(ItemsMean(n, file, g)) ELSE {})
          = IF n > 0 /\ file \in DOMAIN Content THEN InTurn(ItemsMean(n, file, h)) ELSE {}
    BY <1>1
  <1> QED BY <1>2, Zenon DEF Given

LEMMA ReadsIs == Reads = [n \in 0 .. MaxOpen |-> Given(n, Reads)]
  <1> DEFINE Is(g, m) == g = [n \in 0 .. m |-> Given(n, g)]
             T == {m \in Nat : \E g : Is(g, m)}
  <1>1. 0 \in T
    <2> DEFINE g == [n \in 0 .. 0 |-> Given(n, {})]
    <2>1. \A n \in 0 .. 0 : Given(n, g) = Given(n, {})
      <3> HIDE DEF g
      <3>1. \A n \in 0 .. 0 : n \in Nat /\ ~(n > 0) /\ ~(n > 1)
        OBVIOUS
      <3> QED BY <3>1, GivenAgree
    <2>2. g = [n \in 0 .. 0 |-> Given(n, g)]
      BY <2>1, Zenon
    <2> HIDE DEF g
    <2> QED BY <2>2
  <1>2. ASSUME NEW m \in Nat, m \in T PROVE m + 1 \in T
    <2>1. PICK g : Is(g, m)
      BY <1>2
    <2> DEFINE h == [n \in 0 .. m + 1 |-> IF n = m + 1 THEN Given(m + 1, g) ELSE g[n]]
    <2>2. /\ h = [n \in 0 .. m + 1 |-> h[n]]
          /\ h[m + 1] = Given(m + 1, g) /\ \A n \in 0 .. m : h[n] = g[n]
      OBVIOUS
    <2>3. \A n \in 0 .. m : g[n] = Given(n, g)
      BY <2>1
    <2> HIDE DEF h, Is
    <2>4. ASSUME NEW n \in 0 .. m + 1 PROVE Given(n, h) = Given(n, g)
      <3>1. n \in Nat /\ (n > 0 => n - 1 \in 0 .. m) /\ (n > 1 => n - 2 \in 0 .. m)
        OBVIOUS
      <3> QED BY <2>2, <3>1, GivenAgree
    <2>5. \A n \in 0 .. m + 1 : h[n] = Given(n, h)
      <3>1. \A n \in 0 .. m + 1 : n \in 0 .. m \/ n = m + 1
        OBVIOUS
      <3> QED BY <2>2, <2>3, <2>4, <3>1
    <2>6. h = [n \in 0 .. m + 1 |-> Given(n, h)]
      BY <2>2, <2>5, Zenon
    <2> QED BY <2>6 DEF Is
  <1>3. MaxOpen \in T
    <2> HIDE DEF T
    <2> QED BY <1>1, <1>2, Inductive, FilesType
  <1> QED BY <1>3 DEF Reads

LEMMA ReadsAt ==
  ASSUME NEW n \in 0 .. MaxOpen, NEW file \in Files
  PROVE  Reads[n][file] = IF n > 0 /\ file \in DOMAIN Content
                          THEN InTurn(ItemsMean(n, file, Reads)) ELSE {}
  <1>1. Reads[n] = Given(n, Reads)
    BY ReadsIs, Zenon
  <1> QED BY <1>1 DEF Given

Typed(n) == \A file \in Files : Reads[n][file] \in SUBSET Results

LEMMA VisibleFiles ==
  ASSUME NEW d \in DOMAIN Entries, NEW S \in SUBSET Visible(d)
  PROVE  S \subseteq Files /\ IsFiniteSet(S)
  BY FilesType, FS_Subset DEF Visible

LEMMA DirectoryType ==
  ASSUME NEW n \in Nat, Typed(n - 2), NEW S \in SUBSET Files, IsFiniteSet(S)
  PROVE  Directory(n, S, Reads) \in SUBSET Results
  <1> SUFFICES ASSUME NEW order \in SetToSeqs(S)
               PROVE  InTurn(Meanings(n, order, Reads)) \in SUBSET Results
    BY DEF Directory
  <1>1. Len(order) \in Nat /\ \A k \in 1 .. Len(order) : order[k] \in Files
    <2>1. order \in Seq(S)
      BY OrderIs
    <2> QED BY <2>1
  <1>2. \A k \in 1 .. Len(order) : Meanings(n, order, Reads)[k] \in SUBSET Results
    BY <1>1, MeaningsAre DEF Typed
  <1>3. Len(Meanings(n, order, Reads)) = Len(order)
    BY <1>1, MeaningsAre
  <1>4. Len(order) \in 0 .. Len(order)
    BY <1>1
  <1> QED BY <1>1, <1>2, <1>3, <1>4, AfterType DEF InTurn

LEMMA MeaningType ==
  ASSUME NEW n \in Nat, n > 0, Typed(n - 1), n > 1 => Typed(n - 2), NEW it, IsItem(it)
  PROVE  Meaning(n, it, Reads) \in SUBSET Results
  <1>1. CASE it.kind = "bool"
    <2>1. ASSUME NEW S, NEW v \in S PROVE <<v>> \in Seq(S)
      OBVIOUS
    <2>2. <<it.val>> \in Seq(BOOLEAN)
      BY <1>1, <2>1, Zenon DEF IsItem
    <2>3. [Nothing EXCEPT !.bools = <<it.val>>] \in Results
      BY <2>2, NothingAdds DEF Nothing, Results
    <2> QED BY <1>1, <2>3 DEF Meaning
  <1>2. CASE it.kind = "other"
    BY <1>2, NothingAdds DEF Meaning
  <1>3. CASE it.kind = "plugins"
    <2>1. [Nothing EXCEPT !.plugins = it.list] \in Results
      BY <1>3, NothingAdds DEF IsItem, Nothing, Results
    <2> QED BY <1>3, <2>1 DEF Meaning
  <1>4. CASE it.kind = "include"
    <2>1. Meaning(n, it, Reads) = Reads[n - 1][it.file]
      BY <1>4 DEF Meaning
    <2> QED BY <1>4, <2>1 DEF IsItem, Typed
  <1>5. CASE it.kind = "include directory"
    <2>1. CASE it.dir \in DOMAIN Entries /\ n > 1
      <3>1. Meaning(n, it, Reads) = Directory(n, Visible(it.dir), Reads)
        BY <1>5, <2>1 DEF Meaning
      <3> QED BY <2>1, <3>1, VisibleFiles, DirectoryType
    <2>2. CASE ~(it.dir \in DOMAIN Entries /\ n > 1)
      BY <1>5, <2>2 DEF Meaning
    <2> QED BY <2>1, <2>2
  <1>6. CASE it.kind = "bad"
    BY <1>6 DEF Meaning
  <1> QED BY <1>1, <1>2, <1>3, <1>4, <1>5, <1>6 DEF IsItem

LEMMA ReadsType == \A n \in 0 .. MaxOpen : Typed(n)
  <1> DEFINE T == {m \in Nat : \A n \in 0 .. m : n <= MaxOpen => Typed(n)}
  <1>1. 0 \in T
    BY ReadsAt, FilesType DEF Typed
  <1>2. ASSUME NEW m \in Nat, m \in T PROVE m + 1 \in T
    <2> SUFFICES ASSUME m + 1 <= MaxOpen PROVE Typed(m + 1)
      BY <1>2
    <2> DEFINE n == m + 1
    <2>1. n \in Nat /\ n > 0 /\ n \in 0 .. MaxOpen /\ Typed(n - 1) /\ (n > 1 => Typed(n - 2))
      <3>1. n \in Nat /\ n > 0 /\ n \in 0 .. MaxOpen /\ n - 1 \in 0 .. m /\ (n > 1 => n - 2 \in 0 .. m)
        BY FilesType
      <3>2. \A k \in 0 .. m : k <= MaxOpen
        BY FilesType
      <3> QED BY <1>2, <3>1, <3>2
    <2> HIDE DEF n
    <2>2. ASSUME NEW file \in DOMAIN Content PROVE InTurn(ItemsMean(n, file, Reads)) \in SUBSET Results
      <3>1. Len(Content[file]) \in Nat /\ \A k \in 1 .. Len(Content[file]) : IsItem(Content[file][k])
        BY ContentType
      <3>2. \A k \in 1 .. Len(Content[file]) : ItemsMean(n, file, Reads)[k] \in SUBSET Results
        BY <2>1, <3>1, ItemsAre, MeaningType
      <3>3. Len(ItemsMean(n, file, Reads)) = Len(Content[file])
        BY <3>1, ItemsAre
      <3>4. Len(Content[file]) \in 0 .. Len(Content[file])
        BY <3>1
      <3> QED BY <3>1, <3>2, <3>3, <3>4, AfterType DEF InTurn
    <2> QED BY <2>1, <2>2, ReadsAt DEF Typed, n
  <1> HIDE DEF T
  <1>3. Nat \subseteq T
    BY <1>1, <1>2, Inductive
  <1>4. MaxOpen \in T
    BY <1>3, FilesType
  <1> QED BY <1>4, FilesType DEF T

-----------------------------------------------------------------------------
(* The invariant                                                            *)

ItemOf(frame) == Content[frame.file][frame.item]
InDirectory(frame) == "dir" \in frame.held

AtDirectory(frame) ==
  /\ frame.item \in 1 .. Len(Content[frame.file])
  /\ ItemOf(frame).kind = "include directory" /\ ItemOf(frame).dir \in DOMAIN Entries
  /\ frame.left \subseteq Entries[ItemOf(frame).dir]

(* frame has called conf_load_recurse with file.                            *)
Waits(frame, file) ==
  IF InDirectory(frame)
  THEN AtDirectory(frame) /\ file \in Visible(ItemOf(frame).dir) \ frame.left
  ELSE /\ frame.item \in 1 .. Len(Content[frame.file])
       /\ ItemOf(frame).kind = "include" /\ file = ItemOf(frame).file

Places ==
  /\ stack # <<>> => stack[1].file = root
  /\ \A p \in 1 .. Len(stack) - 1 : Waits(stack[p], stack[p + 1].file)
  /\ cpc = "open" => stack[Len(stack)].item = 1
  /\ cpc = "items" => stack[Len(stack)].item \in 1 .. Len(Content[stack[Len(stack)].file]) + 1
  /\ cpc = "entries" => AtDirectory(stack[Len(stack)])
  /\ cpc = "return" => \E file \in Files : Waits(stack[Len(stack)], file)

(* How many descriptors were left when the p-th call began.                 *)
Below(p) == {q \in (1 .. p - 1) \X {"f", "dir"} : q[2] \in stack[q[1]].held}
Room(p) == MaxOpen - Cardinality(Below(p))

Rooms ==
  \A p \in 1 .. Len(stack) :
    /\ Room(p) \in Nat
    /\ "f" \in stack[p].held => Room(p) > 0
    /\ InDirectory(stack[p]) => Room(p) > 1

(* What the p-th call can have set, leaving out what the calls above it     *)
(* have.  A call that has returned 0 is part of what its caller has set.    *)
Entered(p) ==
  Visible(ItemOf(stack[p]).dir)
    \ (stack[p].left \cup IF p < Len(stack) THEN {stack[p + 1].file} ELSE {})

ItemsDone(p) ==
  IF p = Len(stack) /\ cpc = "return" THEN stack[p].item ELSE stack[p].item - 1

Part(p) ==
  LET before == After(ItemsMean(Room(p), stack[p].file, Reads))
  IN IF "f" \notin stack[p].held THEN {Nothing}
     ELSE IF ~InDirectory(stack[p]) THEN before[ItemsDone(p)]
     ELSE Then(before[stack[p].item - 1], Directory(Room(p), Entered(p), Reads))

Parts == [p \in 1 .. Len(stack) |-> Part(p)]

SoFar == \E r \in InTurn(Parts) : Settled(r)

(* What the call at the top waited for cannot be read.                      *)
CannotGoOn ==
  Meaning(Room(Len(stack)), ItemOf(stack[Len(stack)]), Reads) = {}

Follows ==
  /\ ~ready => cpc = "idle" /\ rc = "none"
  /\ cpc # "undefined" =>
       /\ Places /\ Rooms
       /\ cpc \in {"open", "items", "entries"} => SoFar
       /\ cpc = "return" => rc \in {"ok", "error"}
       /\ cpc = "return" /\ rc = "ok" => SoFar
       /\ cpc = "return" /\ rc = "error" /\ ~fault => CannotGoOn
  /\ ReadsTheFiles

-----------------------------------------------------------------------------
(* Descriptors                                                              *)

LEMMA RoomType ==
  ASSUME NEW p \in Nat
  PROVE  /\ IsFiniteSet(Below(p)) /\ Cardinality(Below(p)) \in Nat
         /\ Room(p) \in Int /\ Room(p) <= MaxOpen
  <1>1. IsFiniteSet(1 .. p - 1) /\ IsFiniteSet({"f", "dir"})
    <2>1. IsFiniteSet(1 .. p - 1)
      BY FS_Interval
    <2>2. IsFiniteSet({} \cup {"f"}) /\ IsFiniteSet(({} \cup {"f"}) \cup {"dir"})
      BY FS_EmptySet, FS_AddElement
    <2>3. ({} \cup {"f"}) \cup {"dir"} = {"f", "dir"}
      OBVIOUS
    <2> QED BY <2>1, <2>2, <2>3
  <1>2. IsFiniteSet((1 .. p - 1) \X {"f", "dir"})
    BY <1>1, FS_Product
  <1>3. Below(p) \in SUBSET ((1 .. p - 1) \X {"f", "dir"})
    BY DEF Below
  <1>4. IsFiniteSet(Below(p)) /\ Cardinality(Below(p)) \in Nat
    BY <1>2, <1>3, FS_Subset, FS_CardinalityType
  <1> QED BY <1>4, FilesType DEF Room

LEMMA RoomNext ==
  ASSUME NEW p \in Nat \ {0}
  PROVE  /\ stack[p].held \cap {"f", "dir"} = {} => Room(p + 1) = Room(p)
         /\ stack[p].held \cap {"f", "dir"} = {"f"} => Room(p + 1) = Room(p) - 1
         /\ stack[p].held \cap {"f", "dir"} = {"f", "dir"} => Room(p + 1) = Room(p) - 2
  <1>1. IsFiniteSet(Below(p)) /\ Cardinality(Below(p)) \in Nat
    BY RoomType
  <1>2. \A q : q \in Below(p + 1) <=> q \in Below(p) \/ (q \in {<<p, "f">>, <<p, "dir">>} /\ q[2] \in stack[p].held)
    <2>1. 1 .. (p + 1) - 1 = (1 .. p - 1) \cup {p} /\ p \notin 1 .. p - 1
      OBVIOUS
    <2> QED BY <2>1 DEF Below
  <1>3. <<p, "f">> \notin Below(p) /\ <<p, "dir">> \notin Below(p) \cup {<<p, "f">>}
    BY DEF Below
  <1>4. CASE stack[p].held \cap {"f", "dir"} = {}
    <2>1. Below(p + 1) = Below(p)
      BY <1>2, <1>4
    <2> QED BY <1>4, <2>1 DEF Room
  <1>5. CASE stack[p].held \cap {"f", "dir"} = {"f"}
    <2>1. Below(p + 1) = Below(p) \cup {<<p, "f">>}
      BY <1>2, <1>5
    <2>2. Cardinality(Below(p + 1)) = Cardinality(Below(p)) + 1
      BY <1>1, <1>3, <2>1, FS_AddElement
    <2> QED BY <1>1, <1>5, <2>2, FilesType DEF Room
  <1>6. CASE stack[p].held \cap {"f", "dir"} = {"f", "dir"}
    <2>1. Below(p + 1) = (Below(p) \cup {<<p, "f">>}) \cup {<<p, "dir">>}
      BY <1>2, <1>6
    <2>2. /\ IsFiniteSet(Below(p) \cup {<<p, "f">>})
          /\ Cardinality(Below(p) \cup {<<p, "f">>}) = Cardinality(Below(p)) + 1
      BY <1>1, <1>3, FS_AddElement
    <2>3. Cardinality(Below(p + 1)) = Cardinality(Below(p) \cup {<<p, "f">>}) + 1
      BY <1>3, <2>1, <2>2, FS_AddElement
    <2> QED BY <1>1, <1>6, <2>2, <2>3, FilesType DEF Room
  <1> QED BY <1>4, <1>5, <1>6

LEMMA RoomFirst == Room(1) = MaxOpen
  <1>1. Below(1) = {}
    BY DEF Below
  <1> QED BY <1>1, FS_EmptySet, FilesType DEF Room

(* Descriptors is what the frames below the next one hold.                  *)
LEMMA RoomOver ==
  ASSUME stack \in Seq(FrameType)
  PROVE  Descriptors \in Nat /\ Room(Len(stack) + 1) = MaxOpen - Descriptors
  <1>1. DOMAIN stack = 1 .. (Len(stack) + 1) - 1 /\ Len(stack) + 1 \in Nat
    OBVIOUS
  <1>2. Below(Len(stack) + 1) = {p \in (DOMAIN stack) \X {"f", "dir"} : p[2] \in stack[p[1]].held}
    BY <1>1 DEF Below
  <1>3. Cardinality(Below(Len(stack) + 1)) \in Nat
    BY <1>1, RoomType
  <1> QED BY <1>2, <1>3 DEF Room, Descriptors

LEMMA RoomSame ==
  ASSUME NEW p \in Nat, \A q \in 1 .. p - 1 : stack'[q].held \cap {"f", "dir"} = stack[q].held \cap {"f", "dir"}
  PROVE  Room(p)' = Room(p)
  <1>1. Below(p)' = Below(p)
    BY DEF Below
  <1> QED BY <1>1 DEF Room

-----------------------------------------------------------------------------
(* What the calls have set                                                  *)

Busy == Held /\ Calls /\ Places /\ Rooms /\ cpc # "undefined"

LEMMA FrameAt ==
  ASSUME Busy, NEW p \in 1 .. Len(stack), "f" \in stack[p].held
  PROVE  /\ Room(p) \in 1 .. MaxOpen
         /\ stack[p].file \in DOMAIN Content /\ stack[p].file \in Files
         /\ Len(Content[stack[p].file]) \in Nat
         /\ stack[p].item - 1 \in 0 .. Len(Content[stack[p].file])
         /\ ItemsDone(p) \in 0 .. Len(Content[stack[p].file])
         /\ InDirectory(stack[p]) => AtDirectory(stack[p]) /\ Room(p) > 1
  <1>0. p \in Nat /\ Len(stack) \in Nat /\ stack[p] \in FrameType
    BY DEF Held, Busy
  <1> USE DEF Busy
  <1>1. Room(p) \in 1 .. MaxOpen
    BY <1>0, RoomType DEF Rooms
  <1>2. InDirectory(stack[p]) => Room(p) > 1
    BY DEF Rooms
  <1>3. CASE p < Len(stack)
    <2>a. p \in 1 .. Len(stack) - 1
      BY <1>0, <1>3
    <2>1. Holds(stack[p], InCall) /\ Waits(stack[p], stack[p + 1].file)
      BY <2>a DEF Calls, Places
    <2>2. stack[p].item \in 1 .. Len(Content[stack[p].file])
          /\ (InDirectory(stack[p]) => AtDirectory(stack[p]))
      BY <2>1 DEF Waits, AtDirectory
    <2>3. ItemsDone(p) = stack[p].item - 1
      BY <1>3 DEF ItemsDone
    <2> QED BY <1>1, <1>2, <2>1, <2>2, <2>3, ContentType, FilesType DEF Holds
  <1>4. CASE p = Len(stack)
    <2>1. cpc \in {"items", "entries", "return"}
      BY <1>0, <1>4 DEF Held, Calls
    <2>2. stack[p].file \in DOMAIN Content
      BY <1>4, <2>1 DEF Calls, Holds
    <2>3. Len(Content[stack[p].file]) \in Nat
      BY <2>2, ContentType
    <2>4. CASE cpc = "items"
      <3>1. ~InDirectory(stack[p])
        BY <1>4, <2>4 DEF Calls, Holds, AtItem, InDirectory
      <3>2. stack[p].item \in 1 .. Len(Content[stack[p].file]) + 1
        BY <1>4, <2>4 DEF Places
      <3>3. ItemsDone(p) = stack[p].item - 1
        BY <2>4 DEF ItemsDone
      <3>4. stack[p].item - 1 \in 0 .. Len(Content[stack[p].file])
        BY <2>3, <3>2
      <3> QED BY <1>1, <2>2, <2>3, <3>1, <3>3, <3>4, FilesType
    <2>5. CASE cpc = "entries"
      <3>1. AtDirectory(stack[p])
        BY <1>4, <2>5 DEF Places
      <3>2. ItemsDone(p) = stack[p].item - 1
        BY <2>5 DEF ItemsDone
      <3>4. stack[p].item \in 1 .. Len(Content[stack[p].file])
        BY <3>1 DEF AtDirectory
      <3>3. stack[p].item - 1 \in 0 .. Len(Content[stack[p].file])
        BY <2>3, <3>4
      <3> QED BY <1>1, <1>2, <2>2, <2>3, <3>1, <3>2, <3>3, FilesType
    <2>6. CASE cpc = "return"
      <3>1. stack[p].item \in 1 .. Len(Content[stack[p].file])
            /\ (InDirectory(stack[p]) => AtDirectory(stack[p]))
        BY <1>4, <2>6 DEF Places, Waits, AtDirectory
      <3>2. ItemsDone(p) = stack[p].item
        BY <1>4, <2>6 DEF ItemsDone
      <3>3. stack[p].item \in 0 .. Len(Content[stack[p].file])
            /\ stack[p].item - 1 \in 0 .. Len(Content[stack[p].file])
        BY <2>3, <3>1
      <3> QED BY <1>1, <1>2, <2>2, <2>3, <3>1, <3>2, <3>3, FilesType
    <2> QED BY <2>1, <2>4, <2>5, <2>6
  <1> QED BY <1>0, <1>3, <1>4

LEMMA BeforeType ==
  ASSUME NEW n \in 1 .. MaxOpen, NEW file \in DOMAIN Content
  PROVE  /\ Len(ItemsMean(n, file, Reads)) = Len(Content[file])
         /\ \A k \in 1 .. Len(Content[file]) :
              /\ ItemsMean(n, file, Reads)[k] = Meaning(n, Content[file][k], Reads)
              /\ Meaning(n, Content[file][k], Reads) \in SUBSET Results
         /\ \A k \in 0 .. Len(Content[file]) : After(ItemsMean(n, file, Reads))[k] \in SUBSET Results
  <1>1. Len(Content[file]) \in Nat /\ \A k \in 1 .. Len(Content[file]) : IsItem(Content[file][k])
    BY ContentType
  <1>2. n \in Nat /\ n > 0 /\ Typed(n - 1) /\ (n > 1 => Typed(n - 2))
    <2>1. n \in Nat /\ n > 0 /\ n - 1 \in 0 .. MaxOpen /\ (n > 1 => n - 2 \in 0 .. MaxOpen)
      BY FilesType
    <2> QED BY <2>1, ReadsType
  <1>3. /\ Len(ItemsMean(n, file, Reads)) = Len(Content[file])
        /\ \A k \in 1 .. Len(Content[file]) :
              ItemsMean(n, file, Reads)[k] = Meaning(n, Content[file][k], Reads)
    BY <1>1, ItemsAre
  <1>4. \A k \in 1 .. Len(Content[file]) : Meaning(n, Content[file][k], Reads) \in SUBSET Results
    BY <1>1, <1>2, MeaningType
  <1>5. \A k \in 0 .. Len(Content[file]) : After(ItemsMean(n, file, Reads))[k] \in SUBSET Results
    BY <1>1, <1>3, <1>4, AfterType
  <1> QED BY <1>3, <1>4, <1>5

LEMMA EnteredType ==
  ASSUME NEW n \in 1 .. MaxOpen, n > 1, NEW d \in DOMAIN Entries, NEW S \in SUBSET Visible(d)
  PROVE  Directory(n, S, Reads) \in SUBSET Results
  <1>1. n \in Nat /\ n - 2 \in 0 .. MaxOpen
    BY FilesType
  <1> QED BY <1>1, ReadsType, VisibleFiles, DirectoryType

LEMMA PartType ==
  ASSUME Busy, NEW p \in 1 .. Len(stack)
  PROVE  Part(p) \in SUBSET Results
  <1> DEFINE before == After(ItemsMean(Room(p), stack[p].file, Reads))
  <1>1. CASE "f" \notin stack[p].held
    <2>1. Part(p) = {Nothing}
      BY <1>1 DEF Part
    <2> QED BY <2>1, NothingAdds
  <1>2. CASE "f" \in stack[p].held /\ ~InDirectory(stack[p])
    <2>1. Part(p) = before[ItemsDone(p)]
      BY <1>2 DEF Part
    <2> QED BY <1>2, <2>1, FrameAt, BeforeType
  <1>3. CASE "f" \in stack[p].held /\ InDirectory(stack[p])
    <2>1. Part(p) = Then(before[stack[p].item - 1], Directory(Room(p), Entered(p), Reads))
      BY <1>3 DEF Part
    <2>2. before[stack[p].item - 1] \in SUBSET Results
      BY <1>3, FrameAt, BeforeType
    <2>3. Entered(p) \in SUBSET Visible(ItemOf(stack[p]).dir)
      BY DEF Entered
    <2>4. Room(p) \in 1 .. MaxOpen /\ Room(p) > 1 /\ ItemOf(stack[p]).dir \in DOMAIN Entries
      BY <1>3, FrameAt DEF AtDirectory
    <2>5. Directory(Room(p), Entered(p), Reads) \in SUBSET Results
      BY <2>3, <2>4, EnteredType
    <2> QED BY <2>1, <2>2, <2>5, ThenType
  <1> QED BY <1>1, <1>2, <1>3

LEMMA TurnIs ==
  ASSUME NEW n \in Nat, NEW ms, ms = [k \in 1 .. n |-> ms[k]]
  PROVE  /\ Len(ms) = n
         /\ n > 0 => InTurn(ms) = Then(After(ms)[n - 1], ms[n])
         /\ n > 1 => After(ms)[n - 1] = Then(After(ms)[n - 2], ms[n - 1])
         /\ After(ms)[0] = {Nothing}
  <1>1. Len(ms) = n
    BY LenIs
  <1>2. n > 0 => n \in 1 .. Len(ms)
    BY <1>1
  <1>3. n > 1 => n - 1 \in 1 .. Len(ms) /\ (n - 1) - 1 = n - 2
    BY <1>1
  <1> QED BY <1>1, <1>2, <1>3, AfterIs DEF InTurn

LEMMA PartsAre ==
  /\ \A p \in 1 .. Len(stack) : Parts[p] = Part(p)
  /\ Parts = [p \in 1 .. Len(stack) |-> Parts[p]]
  <1>1. \A p \in 1 .. Len(stack) : Parts[p] = Part(p)
    BY DEF Parts
  <1>2. Parts = [p \in 1 .. Len(stack) |-> Parts[p]]
    BY DEF Parts
  <1> QED BY <1>1, <1>2

LEMMA PartsAreNext ==
  /\ \A p \in 1 .. Len(stack') : Parts'[p] = Part(p)'
  /\ Parts' = [p \in 1 .. Len(stack') |-> Parts'[p]]
  <1>1. \A p \in 1 .. Len(stack') : Parts'[p] = Part(p)'
    BY DEF Parts
  <1>2. Parts' = [p \in 1 .. Len(stack') |-> Parts'[p]]
    BY DEF Parts
  <1> QED BY <1>1, <1>2

(* SoFar, when the call at the top sets x ...                               *)
LEMMA SoFarStays ==
  ASSUME Busy, SoFar, NEW m \in Nat \ {0}, Len(stack) = m, Len(stack') = m,
         \A q \in 1 .. m - 1 : Part(q)' = Part(q),
         NEW x \in Results, \A t \in Part(m) : Plus(t, x) \in Part(m)',
         \A r \in Results : Settled(r) => Settled(Plus(r, x))'
  PROVE  SoFar'
  <1> DEFINE P == Parts
             Q == Parts'
  <1>1. /\ Len(P) = m /\ InTurn(P) = Then(After(P)[m - 1], P[m])
        /\ \A p \in 1 .. m : P[p] = Part(p)
    BY PartsAre, TurnIs
  <1>2. /\ Len(Q) = m /\ InTurn(Q) = Then(After(Q)[m - 1], Q[m])
        /\ \A p \in 1 .. m : Q[p] = Part(p)'
    BY PartsAreNext, TurnIs
  <1>3. PICK r \in InTurn(P) : Settled(r)
    BY DEF SoFar
  <1> HIDE DEF P, Q
  <1>4. \A p \in 1 .. Len(P) : P[p] \in SUBSET Results
    BY <1>1, PartType
  <1>5. After(Q)[m - 1] = After(P)[m - 1]
    <2>1. m - 1 \in Nat /\ m - 1 <= m /\ \A k \in 1 .. m - 1 : Q[k] = P[k]
      BY <1>1, <1>2
    <2>2. m - 1 \in 0 .. m - 1
      BY <2>1
    <2> QED BY <1>1, <1>2, <2>1, <2>2, AfterSame
  <1>6. After(P)[m - 1] \in SUBSET Results
    <2>1. m - 1 \in 0 .. m
      OBVIOUS
    <2> QED BY <1>1, <1>4, <2>1, AfterType
  <1>7. PICK a \in After(P)[m - 1], t \in P[m] : r = Plus(a, t)
    BY <1>1, <1>3 DEF Then
  <1>8. m \in 1 .. m
    OBVIOUS
  <1>9. a \in Results /\ t \in Results /\ Plus(t, x) \in Q[m]
    BY <1>1, <1>2, <1>4, <1>6, <1>7, <1>8
  <1>10. r \in Results /\ Plus(r, x) = Plus(a, Plus(t, x))
    BY <1>7, <1>9, PlusType, PlusAssociative
  <1>11. Plus(r, x) \in InTurn(Q)
    BY <1>2, <1>5, <1>9, <1>10, InThen
  <1>12. Settled(Plus(r, x))'
    BY <1>3, <1>10
  <1> QED BY <1>11, <1>12 DEF SoFar, Q

(* ... when it calls for another file ...                                   *)
LEMMA SoFarCalls ==
  ASSUME SoFar, NEW m \in Nat \ {0}, Len(stack) = m, Len(stack') = m + 1, Busy,
         \A q \in 1 .. m : Part(q)' = Part(q), Part(m + 1)' = {Nothing},
         \A r \in Results : Settled(r) => Settled(r)'
  PROVE  SoFar'
  <1> DEFINE P == Parts
             Q == Parts'
  <1>1. /\ Len(P) = m /\ InTurn(P) = After(P)[m] /\ \A p \in 1 .. m : P[p] = Part(p)
    BY PartsAre, TurnIs DEF InTurn
  <1>2. /\ Len(Q) = m + 1 /\ \A p \in 1 .. m + 1 : Q[p] = Part(p)'
    BY PartsAreNext, TurnIs
  <1>3. PICK r \in InTurn(P) : Settled(r)
    BY DEF SoFar
  <1> HIDE DEF P, Q
  <1>4. InTurn(P) \in SUBSET Results
    <2>1. \A p \in 1 .. Len(P) : P[p] \in SUBSET Results
      BY <1>1, PartType
    <2> QED BY <1>1, <2>1, AfterType
  <1>5. InTurn(Q) = Then(InTurn(P), {Nothing})
    <2>1. Q[m + 1] = {Nothing} /\ \A k \in 1 .. m : Q[k] = P[k]
      BY <1>1, <1>2
    <2>2. /\ Len(P) \in Nat /\ Len(Q) = Len(P) + 1 /\ Q[Len(Q)] = {Nothing}
          /\ \A k \in 1 .. Len(P) : Q[k] = P[k]
      BY <1>1, <1>2, <2>1
    <2> QED BY <2>2, OneMore
  <1>6. Plus(r, Nothing) = r /\ Plus(r, Nothing) \in InTurn(Q)
    BY <1>3, <1>4, <1>5, NothingAdds, InThen
  <1>7. Settled(r)'
    BY <1>3, <1>4
  <1> QED BY <1>6, <1>7 DEF SoFar, Q

(* ... and when it returns 0.                                               *)
LEMMA SoFarReturns ==
  ASSUME SoFar, NEW m \in Nat, m > 1, Len(stack) = m, Len(stack') = m - 1, Busy,
         \A q \in 1 .. m - 2 : Part(q)' = Part(q),
         \A b \in Part(m - 1), c \in Part(m) : Plus(b, c) \in Part(m - 1)',
         \A r \in Results : Settled(r) => Settled(r)'
  PROVE  SoFar'
  <1> DEFINE P == Parts
             Q == Parts'
  <1>0. /\ m - 1 \in Nat /\ m - 1 > 0 /\ (m - 1) - 1 = m - 2 /\ m - 1 \in 1 .. m /\ m \in 1 .. m
        /\ m - 1 \in 1 .. m - 1 /\ m - 2 \in Nat /\ m - 2 \in 0 .. m /\ m - 2 \in 0 .. m - 2
    OBVIOUS
  <1>1. /\ Len(P) = m /\ \A p \in 1 .. m : P[p] = Part(p)
        /\ InTurn(P) = Then(Then(After(P)[m - 2], P[m - 1]), P[m])
    <2>1. \A p \in 1 .. m : P[p] = Part(p)
      BY PartsAre
    <2>2. P = [p \in 1 .. m |-> P[p]]
      BY PartsAre
    <2> HIDE DEF P
    <2>3. /\ Len(P) = m /\ InTurn(P) = Then(After(P)[m - 1], P[m])
          /\ After(P)[m - 1] = Then(After(P)[m - 2], P[m - 1])
      BY <2>2, TurnIs
    <2> QED BY <2>1, <2>3
  <1>2. /\ Len(Q) = m - 1 /\ \A p \in 1 .. m - 1 : Q[p] = Part(p)'
        /\ InTurn(Q) = Then(After(Q)[m - 2], Q[m - 1])
    BY <1>0, PartsAreNext, TurnIs
  <1>3. PICK r \in InTurn(P) : Settled(r)
    BY DEF SoFar
  <1> HIDE DEF P, Q
  <1>4. \A p \in 1 .. Len(P) : P[p] \in SUBSET Results
    BY <1>1, PartType
  <1>5. After(Q)[m - 2] = After(P)[m - 2]
    <2>1. m - 2 <= m /\ m - 2 <= m - 1 /\ \A k \in 1 .. m - 2 : Q[k] = P[k]
      BY <1>1, <1>2
    <2> QED BY <1>0, <1>1, <1>2, <2>1, AfterSame
  <1>6. After(P)[m - 2] \in SUBSET Results
    BY <1>0, <1>1, <1>4, AfterType
  <1>7. PICK a \in After(P)[m - 2], b \in P[m - 1], c \in P[m] : r = Plus(Plus(a, b), c)
    BY <1>1, <1>3 DEF Then
  <1>8. a \in Results /\ b \in Results /\ c \in Results /\ Plus(b, c) \in Q[m - 1]
    BY <1>0, <1>1, <1>2, <1>4, <1>6, <1>7
  <1>9. r = Plus(a, Plus(b, c)) /\ r \in Results
    BY <1>7, <1>8, PlusType, PlusAssociative
  <1>10. r \in InTurn(Q)
    BY <1>2, <1>5, <1>7, <1>8, <1>9, InThen
  <1>11. Settled(r)'
    BY <1>3, <1>9
  <1> QED BY <1>10, <1>11 DEF SoFar, Q

LEMMA SoFarEnds ==
  ASSUME SoFar, Len(stack) = 1, Busy
  PROVE  \E r \in Part(1) : r \in Results /\ Settled(r)
  <1>1. InTurn(Parts) = Then({Nothing}, Part(1))
    <2> DEFINE P == Parts
    <2>1. P[1] = Part(1) /\ P = [p \in 1 .. 1 |-> P[p]]
      BY PartsAre
    <2> HIDE DEF P
    <2>2. Len(P) = 1
      BY <2>1, LenIs
    <2>3. After(P)[0] = {Nothing} /\ After(P)[1] = Then(After(P)[1 - 1], P[1])
      BY <2>2, AfterIs
    <2> QED BY <2>1, <2>2, <2>3 DEF InTurn, P
  <1>2. PICK r \in InTurn(Parts) : Settled(r)
    BY DEF SoFar
  <1>3. PICK t \in Part(1) : r = Plus(Nothing, t)
    BY <1>1, <1>2 DEF Then
  <1>4. t \in Results
    BY <1>3, PartType
  <1> QED BY <1>2, <1>3, <1>4, NothingAdds

(* What the calls below have set, and the descriptors they have, change     *)
(* only with their frames and with the file above them.                     *)
LEMMA LowerSame ==
  ASSUME stack \in Seq(FrameType), stack' \in Seq(FrameType),
         NEW k \in Nat, k < Len(stack), k < Len(stack'),
         \A q \in 1 .. k : stack'[q] = stack[q] /\ stack'[q + 1].file = stack[q + 1].file
  PROVE  /\ \A q \in 1 .. k + 1 : Room(q)' = Room(q)
         /\ \A q \in 1 .. k : Part(q)' = Part(q)
  <1>1. ASSUME NEW q \in 1 .. k + 1 PROVE Room(q)' = Room(q)
    <2>1. q \in Nat /\ \A i \in 1 .. q - 1 : i \in 1 .. k
      OBVIOUS
    <2> QED BY <2>1, RoomSame
  <1>2. ASSUME NEW q \in 1 .. k PROVE Part(q)' = Part(q)
    <2>1. q \in Nat /\ q < Len(stack) /\ q < Len(stack') /\ q \in 1 .. k + 1
          /\ Len(stack) \in Nat /\ Len(stack') \in Nat
      OBVIOUS
    <2>2. Room(q)' = Room(q)
      BY <1>1, <2>1
    <2>3. ItemsDone(q)' = stack[q].item - 1 /\ ItemsDone(q) = stack[q].item - 1
      BY <2>1 DEF ItemsDone
    <2>4. Entered(q)' = Entered(q)
      BY <2>1 DEF Entered
    <2>5. stack'[q] = stack[q]
      OBVIOUS
    <2> QED BY <2>2, <2>3, <2>4, <2>5 DEF Part
  <1> QED BY <1>1, <1>2

-----------------------------------------------------------------------------
(* The three kinds of steps: a frame replaced, pushed, popped               *)

LEMMA TopIs ==
  ASSUME Busy, stack # <<>>
  PROVE  /\ Len(stack) \in Nat \ {0} /\ Len(stack) \in 1 .. Len(stack)
         /\ Top = stack[Len(stack)] /\ Top \in FrameType
  BY TopFrame DEF Busy, Held

LEMMA Moves ==
  ASSUME Busy, stack # <<>>, NEW m, m = Len(stack), Room(m) > 0, root' = root,
         NEW frame \in FrameType, SetTop(frame), frame.file = Top.file,
         cpc' \in {"items", "entries"},
         cpc' = "items" => frame.item \in 1 .. Len(Content[frame.file]) + 1,
         cpc' = "entries" => AtDirectory(frame),
         InDirectory(frame) => Room(m) > 1
  PROVE  /\ Places' /\ Rooms'
         /\ Len(stack') = m /\ stack'[m] = frame /\ Room(m)' = Room(m)
         /\ \A q \in 1 .. m - 1 : Part(q)' = Part(q)
  <1>1. /\ m \in Nat \ {0} /\ stack \in Seq(FrameType)
        /\ stack' \in Seq(FrameType) /\ Len(stack') = m /\ stack' # <<>>
        /\ stack'[m] = frame
        /\ \A k \in 1 .. m - 1 : stack'[k] = stack[k]
        /\ stack[m].file = frame.file
    BY SetTopEffect, TopIs DEF Busy, Held
  <1>2. \A q \in 1 .. m - 1 : stack'[q] = stack[q] /\ stack'[q + 1].file = stack[q + 1].file
    <2> SUFFICES ASSUME NEW q \in 1 .. m - 1 PROVE stack'[q + 1].file = stack[q + 1].file
      BY <1>1
    <2>1. q + 1 \in 1 .. m - 1 \/ q + 1 = m
      BY <1>1
    <2> QED BY <1>1, <2>1
  <1>3. /\ \A q \in 1 .. m : Room(q)' = Room(q)
        /\ \A q \in 1 .. m - 1 : Part(q)' = Part(q)
    <2> DEFINE k == m - 1
    <2>1. k \in Nat /\ k < Len(stack) /\ k < Len(stack') /\ k + 1 = m
      BY <1>1
    <2> HIDE DEF k
    <2>2. \A q \in 1 .. k : stack'[q] = stack[q] /\ stack'[q + 1].file = stack[q + 1].file
      BY <1>2 DEF k
    <2>3. /\ \A q \in 1 .. k + 1 : Room(q)' = Room(q)
          /\ \A q \in 1 .. k : Part(q)' = Part(q)
      BY <1>1, <2>1, <2>2, LowerSame
    <2> QED BY <2>1, <2>3 DEF k
  <1>4. Places'
    <2>1. stack'[1].file = root'
      <3>1. 1 \in 1 .. m - 1 \/ 1 = m
        BY <1>1
      <3> QED BY <1>1, <3>1 DEF Busy, Places
    <2>2. \A p \in 1 .. Len(stack') - 1 : Waits(stack'[p], stack'[p + 1].file)
      BY <1>1, <1>2 DEF Busy, Places
    <2> QED BY <1>1, <2>1, <2>2 DEF Places
  <1>5. Rooms'
    <2> SUFFICES ASSUME NEW p \in 1 .. m
                 PROVE  /\ Room(p)' \in Nat
                        /\ "f" \in stack'[p].held => Room(p)' > 0
                        /\ InDirectory(stack'[p]) => Room(p)' > 1
      BY <1>1 DEF Rooms
    <2>1. Room(p)' = Room(p) /\ Room(p) \in Nat
      BY <1>3 DEF Busy, Rooms
    <2>2. p \in 1 .. m - 1 \/ p = m
      BY <1>1
    <2> QED BY <1>1, <2>1, <2>2 DEF Busy, Rooms
  <1>6. m \in 1 .. m
    BY <1>1
  <1> QED BY <1>1, <1>3, <1>4, <1>5, <1>6

LEMMA Deeper ==
  ASSUME Busy, stack # <<>>, NEW m, m = Len(stack), root' = root,
         "f" \in Top.held, NEW frame \in FrameType, NEW file \in Files, Call(frame, file),
         frame.file = Top.file, frame.held = Top.held, Waits(Waiting(frame), file)
  PROVE  /\ Places' /\ Rooms'
         /\ Len(stack') = m + 1 /\ stack'[m] = Waiting(frame) /\ Room(m)' = Room(m)
         /\ stack'[m + 1] = Frame(file)
         /\ \A q \in 1 .. m - 1 : Part(q)' = Part(q)
         /\ Part(m + 1)' = {Nothing}
  <1>0. /\ Waiting(frame) \in FrameType /\ Waiting(frame).file = frame.file
        /\ Waiting(frame).held = frame.held \cup {"new_filename"}
        /\ Frame(file) \in FrameType /\ Frame(file).held = {} /\ Frame(file).file = file
        /\ Frame(file).item = 1
    BY DEF Waiting, Frame, FrameType, Resources
  <1>1. /\ m \in Nat \ {0} /\ stack \in Seq(FrameType) /\ Top = stack[m]
        /\ stack' \in Seq(FrameType) /\ Len(stack') = m + 1 /\ stack' # <<>>
        /\ stack'[m] = Waiting(frame) /\ stack'[m + 1] = Frame(file)
        /\ \A k \in 1 .. m - 1 : stack'[k] = stack[k]
        /\ cpc' = "open"
    BY <1>0, CallEffect, TopIs DEF Busy, Held, Call
  <1> HIDE DEF FrameType
  <1>2. \A q \in 1 .. m - 1 : stack'[q] = stack[q] /\ stack'[q + 1].file = stack[q + 1].file
    <2> SUFFICES ASSUME NEW q \in 1 .. m - 1 PROVE stack'[q + 1].file = stack[q + 1].file
      BY <1>1
    <2>1. q + 1 \in 1 .. m - 1 \/ q + 1 = m
      BY <1>1
    <2> QED BY <1>0, <1>1, <2>1
  <1>3. /\ \A q \in 1 .. m : Room(q)' = Room(q)
        /\ \A q \in 1 .. m - 1 : Part(q)' = Part(q)
    <2> DEFINE k == m - 1
    <2>1. k \in Nat /\ k < Len(stack) /\ k < Len(stack') /\ k + 1 = m
      BY <1>1
    <2> HIDE DEF k
    <2>2. \A q \in 1 .. k : stack'[q] = stack[q] /\ stack'[q + 1].file = stack[q + 1].file
      BY <1>2 DEF k
    <2>3. /\ \A q \in 1 .. k + 1 : Room(q)' = Room(q)
          /\ \A q \in 1 .. k : Part(q)' = Part(q)
      BY <1>1, <2>1, <2>2, LowerSame
    <2> QED BY <2>1, <2>3 DEF k
  <1>4. Room(m + 1)' = Room(m + 1) /\ Room(m + 1) \in Nat
    <2>1. \A q \in 1 .. m : stack'[q].held \cap {"f", "dir"} = stack[q].held \cap {"f", "dir"}
      <3>1. \A q \in 1 .. m : q \in 1 .. m - 1 \/ q = m
        BY <1>1
      <3> QED BY <1>0, <1>1, <3>1
    <2>2. m + 1 \in Nat /\ (m + 1) - 1 = m
      BY <1>1
    <2>3. Room(m + 1)' = Room(m + 1)
      BY <2>1, <2>2, RoomSame
    <2>4. m \in 1 .. m /\ "f" \in stack[m].held
      BY <1>1
    <2>5. Room(m) \in Nat /\ Room(m) > 0 /\ ("dir" \in stack[m].held => Room(m) > 1)
      BY <2>4 DEF Busy, Rooms, InDirectory
    <2>6. CASE "dir" \in stack[m].held
      <3>1. Room(m + 1) = Room(m) - 2
        BY <1>1, <2>4, <2>6, RoomNext
      <3> QED BY <2>3, <2>5, <2>6, <3>1
    <2>7. CASE "dir" \notin stack[m].held
      <3>1. Room(m + 1) = Room(m) - 1
        BY <1>1, <2>4, <2>7, RoomNext
      <3> QED BY <2>3, <2>5, <3>1
    <2> QED BY <2>6, <2>7
  <1>5. Places'
    <2>1. stack'[1].file = root'
      <3>1. 1 \in 1 .. m - 1 \/ 1 = m
        BY <1>1
      <3> QED BY <1>0, <1>1, <3>1 DEF Busy, Places
    <2>2. ASSUME NEW p \in 1 .. (m + 1) - 1 PROVE Waits(stack'[p], stack'[p + 1].file)
      <3>1. CASE p = m
        BY <1>0, <1>1, <3>1
      <3>2. CASE p # m
        <4>1. p \in 1 .. m - 1
          BY <1>1, <3>2
        <4> QED BY <1>2, <4>1 DEF Busy, Places
      <3> QED BY <3>1, <3>2
    <2> QED BY <1>0, <1>1, <2>1, <2>2 DEF Places
  <1>6. Rooms'
    <2> SUFFICES ASSUME NEW p \in 1 .. m + 1
                 PROVE  /\ Room(p)' \in Nat
                        /\ "f" \in stack'[p].held => Room(p)' > 0
                        /\ InDirectory(stack'[p]) => Room(p)' > 1
      BY <1>1 DEF Rooms
    <2>1. CASE p = m + 1
      BY <1>0, <1>1, <1>4, <2>1 DEF InDirectory
    <2>2. CASE p # m + 1
      <3>1. p \in 1 .. m
        BY <1>1, <2>2
      <3>2. Room(p)' = Room(p) /\ Room(p) \in Nat
        BY <1>3, <3>1 DEF Busy, Rooms
      <3>3. ("f" \in stack'[p].held => "f" \in stack[p].held)
            /\ ("dir" \in stack'[p].held => "dir" \in stack[p].held)
        <4>1. p \in 1 .. m - 1 \/ p = m
          BY <1>1, <3>1
        <4> QED BY <1>0, <1>1, <4>1
      <3> QED BY <3>1, <3>2, <3>3 DEF Busy, Rooms, InDirectory
    <2> QED BY <2>1, <2>2
  <1>7. Part(m + 1)' = {Nothing}
    <2>1. "f" \notin stack'[m + 1].held
      BY <1>0, <1>1
    <2> QED BY <2>1 DEF Part
  <1>8. m \in 1 .. m
    BY <1>1
  <1> QED BY <1>1, <1>3, <1>5, <1>6, <1>7, <1>8

LEMMA Shallower ==
  ASSUME Busy, NEW m, m = Len(stack), m > 1, root' = root,
         NEW held, NEW released, NEW code, Leave(held, released, code)
  PROVE  /\ Places' /\ Rooms' /\ Len(stack') = m - 1 /\ cpc' = "return"
         /\ \A k \in 1 .. m - 1 : stack'[k] = stack[k] /\ Room(k)' = Room(k)
         /\ \A q \in 1 .. m - 2 : Part(q)' = Part(q)
  <1>0. stack # <<>> /\ stack \in Seq(FrameType) /\ m \in Nat
    BY DEF Busy, Held
  <1>1. /\ stack' \in Seq(FrameType) /\ Len(stack') = m - 1
        /\ \A k \in 1 .. m - 1 : stack'[k] = stack[k]
        /\ cpc' = "return"
    BY <1>0, LeaveEffect DEF Leave
  <1>2. /\ \A q \in 1 .. m - 1 : Room(q)' = Room(q)
        /\ \A q \in 1 .. m - 2 : Part(q)' = Part(q)
    <2> DEFINE k == m - 2
    <2>1. k \in Nat /\ k < Len(stack) /\ k < Len(stack') /\ k + 1 = m - 1
      BY <1>0, <1>1
    <2>2. \A q \in 1 .. k : stack'[q] = stack[q] /\ stack'[q + 1] = stack[q + 1]
      BY <1>0, <1>1
    <2> HIDE DEF k
    <2>3. /\ \A q \in 1 .. k + 1 : Room(q)' = Room(q)
          /\ \A q \in 1 .. k : Part(q)' = Part(q)
      BY <1>0, <1>1, <2>1, <2>2, LowerSame
    <2> QED BY <2>1, <2>3 DEF k
  <1>3. \A p \in 1 .. m - 1 : Waits(stack[p], stack[p + 1].file)
    BY DEF Busy, Places
  <1>4. Places'
    <2>1. stack'[1].file = root'
      <3>1. 1 \in 1 .. m - 1
        BY <1>0
      <3> QED BY <1>0, <1>1, <3>1 DEF Busy, Places
    <2>2. \A p \in 1 .. Len(stack') - 1 : Waits(stack'[p], stack'[p + 1].file)
      <3>1. \A p \in 1 .. (m - 1) - 1 : p \in 1 .. m - 1 /\ p + 1 \in 1 .. m - 1
        BY <1>0
      <3> QED BY <1>1, <1>3, <3>1
    <2>3. m - 1 \in 1 .. m - 1 /\ (m - 1) + 1 = m /\ stack[m].file \in Files
      <3>1. m - 1 \in 1 .. m - 1 /\ (m - 1) + 1 = m /\ m \in 1 .. Len(stack)
        BY <1>0
      <3>2. stack[m] \in FrameType
        BY <1>0, <3>1
      <3> QED BY <3>1, <3>2 DEF FrameType
    <2>4. Waits(stack'[m - 1], stack[m].file)
      BY <1>1, <1>3, <2>3
    <2> QED BY <1>1, <2>1, <2>2, <2>3, <2>4 DEF Places
  <1>5. Rooms'
    <2> SUFFICES ASSUME NEW p \in 1 .. m - 1
                 PROVE  /\ Room(p)' \in Nat
                        /\ "f" \in stack'[p].held => Room(p)' > 0
                        /\ InDirectory(stack'[p]) => Room(p)' > 1
      BY <1>1 DEF Rooms
    <2>1. p \in 1 .. Len(stack)
      BY <1>0
    <2> QED BY <1>1, <1>2, <2>1 DEF Busy, Rooms
  <1> QED BY <1>1, <1>2, <1>4, <1>5

-----------------------------------------------------------------------------
(* What one more item, or one more entry, adds                              *)

LEMMA ItemAdds ==
  ASSUME NEW n \in 1 .. MaxOpen, NEW file \in DOMAIN Content, NEW k \in 1 .. Len(Content[file])
  PROVE  After(ItemsMean(n, file, Reads))[k]
           = Then(After(ItemsMean(n, file, Reads))[k - 1], Meaning(n, Content[file][k], Reads))
  <1> DEFINE ms == ItemsMean(n, file, Reads)
  <1>1. Len(ms) = Len(Content[file]) /\ ms[k] = Meaning(n, Content[file][k], Reads)
    BY BeforeType
  <1>2. Len(Content[file]) \in Nat
    BY ContentType
  <1> HIDE DEF ms
  <1>3. After(ms)[k] = Then(After(ms)[k - 1], ms[k])
    BY <1>1, <1>2, AfterIs
  <1> QED BY <1>1, <1>3 DEF ms

LEMMA FileReads ==
  ASSUME NEW n \in 1 .. MaxOpen, NEW file \in DOMAIN Content
  PROVE  Reads[n][file] = After(ItemsMean(n, file, Reads))[Len(Content[file])]
  <1>1. n \in 0 .. MaxOpen /\ n > 0 /\ file \in Files
    BY FilesType
  <1>2. Len(ItemsMean(n, file, Reads)) = Len(Content[file])
    BY BeforeType
  <1> QED BY <1>1, <1>2, ReadsAt DEF InTurn

LEMMA ItemEmpty ==
  ASSUME NEW n \in 1 .. MaxOpen, NEW file \in DOMAIN Content, NEW k \in 1 .. Len(Content[file]),
         Meaning(n, Content[file][k], Reads) = {}
  PROVE  Reads[n][file] = {}
  <1> DEFINE ms == ItemsMean(n, file, Reads)
  <1>1. Len(ms) = Len(Content[file]) /\ ms[k] = {}
    BY BeforeType
  <1>2. Len(Content[file]) \in Nat
    BY ContentType
  <1>3. Reads[n][file] = InTurn(ms)
    BY <1>1, FileReads DEF InTurn
  <1> HIDE DEF ms
  <1> QED BY <1>1, <1>2, <1>3, AfterEmpty

LEMMA DirectoryNone == ASSUME NEW n PROVE Nothing \in Directory(n, {}, Reads)
  <1> DEFINE order == <<>>
             ms == Meanings(n, order, Reads)
  <1>1. order \in SetToSeqs({})
    <2>1. order \in Seq({}) /\ Len(order) = 0
      BY EmptySeq
    <2> HIDE DEF order
    <2>2. \A i, j \in 1 .. Len(order) : i # j => order[i] # order[j]
      BY <2>1
    <2>3. \A e \in {} : \E k \in 1 .. Len(order) : order[k] = e
      OBVIOUS
    <2> QED BY <2>1, <2>2, <2>3, IsOrder
  <1>2. Len(ms) = 0
    <2>1. Len(order) = 0
      OBVIOUS
    <2> HIDE DEF order
    <2> QED BY <2>1, MeaningsAre
  <1> HIDE DEF ms, order
  <1>3. InTurn(ms) = {Nothing}
    BY <1>2, AfterIs DEF InTurn
  <1> QED BY <1>1, <1>3 DEF Directory, ms

LEMMA DirectoryAdds ==
  ASSUME NEW n, NEW S, IsFiniteSet(S), NEW e, e \notin S,
         NEW a \in Directory(n, S, Reads), NEW b \in Reads[n - 2][e]
  PROVE  Plus(a, b) \in Directory(n, S \cup {e}, Reads)
  <1>1. PICK order \in SetToSeqs(S) : a \in InTurn(Meanings(n, order, Reads))
    BY DEF Directory
  <1>2. /\ order \in Seq(S) /\ Len(order) \in Nat
        /\ \A i \in S : \E k \in 1 .. Len(order) : order[k] = i
        /\ \A i, j \in 1 .. Len(order) : i # j => order[i] # order[j]
    BY OrderIs
  <1> DEFINE more == Append(order, e)
  <1>3. /\ more \in Seq(S \cup {e}) /\ Len(more) = Len(order) + 1 /\ more[Len(order) + 1] = e
        /\ \A k \in 1 .. Len(order) : more[k] = order[k]
    <2>1. order \in Seq(S \cup {e})
      BY <1>2, SeqMonotonic
    <2> QED BY <2>1, <1>2
  <1> HIDE DEF more
  <1>4. more \in SetToSeqs(S \cup {e})
    <2>1. \A k \in 1 .. Len(more) : k \in 1 .. Len(order) \/ k = Len(order) + 1
      BY <1>2, <1>3
    <2>2. \A k \in 1 .. Len(order) : order[k] \in S /\ k \in 1 .. Len(more)
      BY <1>2, <1>3
    <2>3. \A i, j \in 1 .. Len(more) : i # j => more[i] # more[j]
      BY <1>2, <1>3, <2>1, <2>2
    <2>4. \A i \in S \cup {e} : \E k \in 1 .. Len(more) : more[k] = i
      <3>1. Len(order) + 1 \in 1 .. Len(more)
        BY <1>2, <1>3
      <3> QED BY <1>2, <1>3, <2>2, <3>1
    <2> QED BY <1>3, <2>3, <2>4, IsOrder
  <1> DEFINE ms == Meanings(n, order, Reads)
             ns == Meanings(n, more, Reads)
  <1>5. /\ Len(ms) = Len(order) /\ Len(ns) = Len(order) + 1
        /\ ns[Len(ns)] = Reads[n - 2][e] /\ \A k \in 1 .. Len(order) : ns[k] = ms[k]
    <2>1. Len(order) + 1 \in 1 .. Len(more) /\ Len(more) \in Nat
          /\ \A k \in 1 .. Len(order) : k \in 1 .. Len(more)
      BY <1>2, <1>3
    <2>2. Len(ms) = Len(order) /\ \A k \in 1 .. Len(order) : ms[k] = Reads[n - 2][order[k]]
      BY <1>2, MeaningsAre
    <2>3. Len(ns) = Len(more) /\ \A k \in 1 .. Len(more) : ns[k] = Reads[n - 2][more[k]]
      BY <2>1, MeaningsAre
    <2> HIDE DEF ms, ns
    <2> QED BY <1>2, <1>3, <2>1, <2>2, <2>3
  <1> HIDE DEF ms, ns
  <1>6. InTurn(ns) = Then(InTurn(ms), Reads[n - 2][e])
    BY <1>2, <1>5, OneMore
  <1>7. Plus(a, b) \in InTurn(ns)
    BY <1>1, <1>6, InThen DEF ms
  <1> QED BY <1>4, <1>7 DEF Directory, ns

LEMMA DirectoryEmpty ==
  ASSUME NEW n, NEW S, IsFiniteSet(S), NEW e \in S, Reads[n - 2][e] = {}
  PROVE  Directory(n, S, Reads) = {}
  <1> SUFFICES ASSUME NEW order \in SetToSeqs(S) PROVE InTurn(Meanings(n, order, Reads)) = {}
    BY DEF Directory
  <1>1. Len(order) \in Nat /\ \E k \in 1 .. Len(order) : order[k] = e
    <2>1. order \in Seq(S) /\ \E k \in 1 .. Len(order) : order[k] = e
      BY OrderIs
    <2> QED BY <2>1
  <1> DEFINE ms == Meanings(n, order, Reads)
  <1>2. Len(ms) = Len(order) /\ \A k \in 1 .. Len(order) : ms[k] = Reads[n - 2][order[k]]
    BY <1>1, MeaningsAre
  <1> HIDE DEF ms
  <1>3. PICK k \in 1 .. Len(ms) : ms[k] = {}
    BY <1>1, <1>2
  <1>4. InTurn(ms) = {}
    BY <1>1, <1>2, <1>3, AfterEmpty
  <1> QED BY <1>4 DEF ms

(* The frame under the top one, and what it waits for.                      *)
LEMMA Caller ==
  ASSUME Busy, NEW m, m = Len(stack), m > 1
  PROVE  /\ m - 1 \in 1 .. m - 1 /\ m - 1 \in 1 .. Len(stack) /\ m \in Nat
         /\ "f" \in stack[m - 1].held /\ Waits(stack[m - 1], stack[m].file)
         /\ stack[m - 1].file \in DOMAIN Content /\ Room(m - 1) \in 1 .. MaxOpen
         /\ stack[m - 1].item \in 1 .. Len(Content[stack[m - 1].file])
         /\ ~InDirectory(stack[m - 1]) =>
              Meaning(Room(m - 1), ItemOf(stack[m - 1]), Reads) = Reads[Room(m)][stack[m].file]
         /\ InDirectory(stack[m - 1]) =>
              /\ Room(m - 1) > 1 /\ Room(m - 1) - 2 = Room(m)
              /\ Meaning(Room(m - 1), ItemOf(stack[m - 1]), Reads)
                   = Directory(Room(m - 1), Visible(ItemOf(stack[m - 1]).dir), Reads)
  <1> DEFINE p == m - 1
  <1>0. /\ m \in Nat /\ p \in Nat \ {0} /\ p \in 1 .. m - 1 /\ p \in 1 .. Len(stack) - 1
        /\ p \in 1 .. Len(stack) /\ p + 1 = m
    BY DEF Busy, Held
  <1> HIDE DEF p
  <1>1. Holds(stack[p], InCall) /\ Waits(stack[p], stack[p + 1].file)
    BY <1>0 DEF Busy, Calls, Places
  <1>2. "f" \in stack[p].held
    BY <1>1 DEF Holds, InCall, InEntry, AtItem
  <1>3. /\ stack[p].file \in DOMAIN Content /\ Room(p) \in 1 .. MaxOpen
        /\ InDirectory(stack[p]) => AtDirectory(stack[p]) /\ Room(p) > 1
    BY <1>0, <1>2, FrameAt
  <1>4. CASE ~InDirectory(stack[p])
    <2>1. stack[p].held \cap {"f", "dir"} = {"f"}
      BY <1>2, <1>4 DEF InDirectory
    <2>2. Room(m) = Room(p) - 1
      BY <1>0, <2>1, RoomNext
    <2>3. /\ stack[p].item \in 1 .. Len(Content[stack[p].file])
          /\ ItemOf(stack[p]).kind = "include" /\ stack[m].file = ItemOf(stack[p]).file
      BY <1>0, <1>1, <1>4 DEF Waits
    <2>4. Meaning(Room(p), ItemOf(stack[p]), Reads) = Reads[Room(p) - 1][ItemOf(stack[p]).file]
      BY <2>3 DEF Meaning
    <2> QED BY <1>0, <1>1, <1>2, <1>3, <1>4, <2>2, <2>3, <2>4 DEF p
  <1>5. CASE InDirectory(stack[p])
    <2>1. stack[p].held \cap {"f", "dir"} = {"f", "dir"}
      BY <1>2, <1>5 DEF InDirectory
    <2>2. Room(m) = Room(p) - 2
      BY <1>0, <2>1, RoomNext
    <2>3. /\ stack[p].item \in 1 .. Len(Content[stack[p].file])
          /\ ItemOf(stack[p]).kind = "include directory" /\ ItemOf(stack[p]).dir \in DOMAIN Entries
      BY <1>3, <1>5 DEF AtDirectory
    <2>4. Meaning(Room(p), ItemOf(stack[p]), Reads)
            = Directory(Room(p), Visible(ItemOf(stack[p]).dir), Reads)
      BY <1>3, <1>5, <2>3 DEF Meaning
    <2> QED BY <1>0, <1>1, <1>2, <1>3, <1>5, <2>2, <2>3, <2>4 DEF p
  <1> QED BY <1>4, <1>5

-----------------------------------------------------------------------------
(* The steps that keep the invariant                                        *)

(* What a call at an item, or in a directory, can have set.                 *)
PartOf(n, frame) ==
  LET before == After(ItemsMean(n, frame.file, Reads))
  IN IF "f" \notin frame.held THEN {Nothing}
     ELSE IF ~InDirectory(frame) THEN before[frame.item - 1]
     ELSE Then(before[frame.item - 1], Directory(n, Visible(ItemOf(frame).dir) \ frame.left, Reads))

LEMMA PartTop ==
  ASSUME NEW m, m = Len(stack), cpc # "return" \/ InDirectory(stack[m])
  PROVE  Part(m) = PartOf(Room(m), stack[m])
  <1>1. Entered(m) = Visible(ItemOf(stack[m]).dir) \ stack[m].left
    <2>1. ~(m < m)
      OBVIOUS
    <2> QED BY DEF Entered
  <1>2. cpc # "return" => ItemsDone(m) = stack[m].item - 1
    BY DEF ItemsDone
  <1> QED BY <1>1, <1>2 DEF Part, PartOf

LEMMA PartTopNext ==
  ASSUME NEW m \in Nat, m = Len(stack'), cpc' # "return"
  PROVE  Part(m)' = PartOf(Room(m)', stack'[m])
  <1>1. Entered(m)' = Visible(ItemOf(stack'[m]).dir) \ stack'[m].left
    BY DEF Entered, ItemOf
  <1>2. ItemsDone(m)' = stack'[m].item - 1
    BY DEF ItemsDone
  <1> QED BY <1>1, <1>2 DEF Part, PartOf, ItemOf, InDirectory

(* The top frame is replaced, and x is set.                                 *)
LEMMA Stepped ==
  ASSUME Busy, SoFar, ready, ready' = ready, root' = root,
         stack # <<>>, NEW m, m = Len(stack), Room(m) > 0,
         NEW frame \in FrameType, SetTop(frame), frame.file = Top.file,
         cpc' \in {"items", "entries"},
         cpc' = "items" => frame.item \in 1 .. Len(Content[frame.file]) + 1,
         cpc' = "entries" => AtDirectory(frame),
         InDirectory(frame) => Room(m) > 1,
         NEW x \in Results, \A t \in Part(m) : Plus(t, x) \in PartOf(Room(m), frame),
         \A r \in Results : Settled(r) => Settled(Plus(r, x))'
  PROVE  Follows'
  <1>1. /\ Places' /\ Rooms'
        /\ Len(stack') = m /\ stack'[m] = frame /\ Room(m)' = Room(m)
        /\ \A q \in 1 .. m - 1 : Part(q)' = Part(q)
    BY Moves
  <1>2. m \in Nat \ {0}
    BY TopIs
  <1>3. Part(m)' = PartOf(Room(m), frame)
    BY <1>1, <1>2, PartTopNext
  <1>4. SoFar'
    BY <1>1, <1>2, <1>3, SoFarStays
  <1> QED BY <1>1, <1>4 DEF Follows, ReadsTheFiles

(* A file is called for.                                                    *)
LEMMA Pushed ==
  ASSUME Busy, SoFar, ready, ready' = ready, root' = root, cpc # "return",
         stack # <<>>, NEW m, m = Len(stack), "f" \in Top.held, NEW frame \in FrameType, NEW file \in Files,
         Call(frame, file), frame.file = Top.file, frame.held = Top.held, frame.item = Top.item,
         InDirectory(Top) => frame.left \cup {file} = Top.left,
         Waits(Waiting(frame), file),
         thread_safe' = thread_safe, list' = list
  PROVE  Follows'
  <1> DEFINE w == Waiting(frame)
  <1>1. m \in Nat \ {0} /\ Top = stack[m]
    BY TopIs
  <1>2. /\ Places' /\ Rooms'
        /\ Len(stack') = m + 1 /\ stack'[m] = w /\ Room(m)' = Room(m)
        /\ stack'[m + 1] = Frame(file)
        /\ \A q \in 1 .. m - 1 : Part(q)' = Part(q)
        /\ Part(m + 1)' = {Nothing}
    BY Deeper
  <1>3. /\ w.file = Top.file /\ w.item = Top.item /\ w.left = frame.left
        /\ w.held = Top.held \cup {"new_filename"} /\ Frame(file).file = file
    BY DEF Waiting, Frame, FrameType
  <1>4. Part(m)' = PartOf(Room(m), Top)
    <2>1. ItemsDone(m)' = Top.item - 1
      BY <1>1, <1>2, <1>3 DEF ItemsDone
    <2>2. Entered(m)' = Visible(ItemOf(Top).dir) \ (frame.left \cup {file})
      BY <1>1, <1>2, <1>3 DEF Entered, ItemOf
    <2>3. InDirectory(w) <=> InDirectory(Top)
      BY <1>3 DEF InDirectory
    <2>4. "f" \in stack'[m].held /\ stack'[m].file = Top.file /\ stack'[m].item = Top.item
          /\ (InDirectory(stack'[m]) <=> InDirectory(Top))
      BY <1>2, <1>3, <2>3
    <2> HIDE DEF w
    <2>5. CASE InDirectory(Top)
      BY <1>2, <2>1, <2>2, <2>4, <2>5 DEF Part, PartOf
    <2>6. CASE ~InDirectory(Top)
      BY <1>2, <2>1, <2>4, <2>6 DEF Part, PartOf
    <2> QED BY <2>5, <2>6
  <1>5. Part(m) = PartOf(Room(m), Top)
    BY <1>1, PartTop
  <1>6. \A q \in 1 .. m : Part(q)' = Part(q)
    <2>1. \A q \in 1 .. m : q \in 1 .. m - 1 \/ q = m
      BY <1>1
    <2> QED BY <1>2, <1>4, <1>5, <2>1
  <1>7. \A r \in Results : Settled(r) => Settled(r)'
    BY DEF Settled
  <1>8. SoFar'
    BY <1>1, <1>2, <1>6, <1>7, SoFarCalls
  <1>9. cpc' = "open"
    BY DEF Call
  <1> QED BY <1>2, <1>8, <1>9 DEF Follows, ReadsTheFiles

LEMMA Emptied ==
  ASSUME stack' = <<>>, cpc' = "idle"
  PROVE  Places' /\ Rooms'
  BY DEF Places, Rooms

(* A call returns -1.                                                       *)
LEMMA Failed ==
  ASSUME Busy, ready, ready' = ready, root' = root, stack # <<>>,
         NEW m, m = Len(stack), NEW held, NEW released, Leave(held, released, "error"),
         fault' \/ Reads[Room(m)][Top.file] = {}
  PROVE  Follows'
  <1>1. m \in Nat \ {0} /\ Top = stack[m]
    BY TopIs
  <1>2. rc' = "error" /\ stack' = Front(stack) /\ cpc' = IF m = 1 THEN "idle" ELSE "return"
    BY DEF Leave
  <1>3. CASE m = 1
    <2>1. stack' = <<>>
      BY <1>2, <1>3, LeaveEffect DEF Busy, Held
    <2>2. Reads[Room(m)][Top.file] = Reads[MaxOpen][root]
      BY <1>1, <1>3, RoomFirst DEF Busy, Places
    <2> QED BY <1>2, <1>3, <2>1, <2>2, Emptied DEF Follows, ReadsTheFiles
  <1>4. CASE m # 1
    <2>0. m > 1
      BY <1>1, <1>4
    <2>1. /\ Places' /\ Rooms' /\ Len(stack') = m - 1 /\ cpc' = "return"
          /\ \A k \in 1 .. m - 1 : stack'[k] = stack[k] /\ Room(k)' = Room(k)
      BY <2>0, Shallower
    <2>2. /\ m - 1 \in 1 .. m - 1 /\ m - 1 \in 1 .. Len(stack)
          /\ "f" \in stack[m - 1].held /\ Waits(stack[m - 1], stack[m].file)
          /\ ~InDirectory(stack[m - 1]) =>
               Meaning(Room(m - 1), ItemOf(stack[m - 1]), Reads) = Reads[Room(m)][stack[m].file]
          /\ InDirectory(stack[m - 1]) =>
              /\ Room(m - 1) > 1 /\ Room(m - 1) - 2 = Room(m)
              /\ Meaning(Room(m - 1), ItemOf(stack[m - 1]), Reads)
                   = Directory(Room(m - 1), Visible(ItemOf(stack[m - 1]).dir), Reads)
      BY <2>0, Caller
    <2>3. ASSUME Reads[Room(m)][stack[m].file] = {}
          PROVE  Meaning(Room(m - 1), ItemOf(stack[m - 1]), Reads) = {}
      <3>1. CASE ~InDirectory(stack[m - 1])
        BY <2>2, <2>3, <3>1
      <3>2. CASE InDirectory(stack[m - 1])
        <4> DEFINE d == ItemOf(stack[m - 1]).dir
        <4>1. d \in DOMAIN Entries /\ stack[m].file \in Visible(d)
          BY <2>2, <3>2 DEF Waits, AtDirectory
        <4> HIDE DEF d
        <4>2. IsFiniteSet(Visible(d))
          BY <4>1, VisibleFiles
        <4>3. Directory(Room(m - 1), Visible(d), Reads) = {}
          <5>1. Reads[Room(m - 1) - 2][stack[m].file] = {}
            BY <2>2, <2>3, <3>2
          <5> QED BY <4>1, <4>2, <5>1, DirectoryEmpty
        <4> QED BY <2>2, <3>2, <4>3 DEF d
      <3> QED BY <3>1, <3>2
    <2>4. CannotGoOn' <=> Meaning(Room(m - 1), ItemOf(stack[m - 1]), Reads) = {}
      BY <2>1, <2>2 DEF CannotGoOn, ItemOf
    <2>5. fault' \/ CannotGoOn'
      BY <1>1, <2>3, <2>4
    <2> QED BY <1>2, <2>1, <2>5 DEF Follows, ReadsTheFiles
  <1> QED BY <1>3, <1>4

(* A call returns 0.                                                        *)
LEMMA FileDone ==
  ASSUME Busy, stack # <<>>, NEW m, m = Len(stack), cpc = "items", Top.item > Len(Items)
  PROVE  Part(m) = Reads[Room(m)][Top.file]
  <1> DEFINE n == Room(m)
  <1>1. m \in 1 .. Len(stack) /\ Top = stack[m]
    BY TopIs
  <1>2. "f" \in Top.held /\ ~InDirectory(Top) /\ Top.file \in DOMAIN Content
    BY <1>1 DEF Busy, Calls, Holds, AtItem, InDirectory
  <1>3. n \in 1 .. MaxOpen /\ Len(Content[Top.file]) \in Nat
    BY <1>1, <1>2, FrameAt
  <1>4. Top.item - 1 = Len(Content[Top.file])
    <2>1. Top.item \in 1 .. Len(Content[Top.file]) + 1
      BY <1>1 DEF Busy, Places
    <2>2. Top.item > Len(Content[Top.file])
      BY DEF Items
    <2> QED BY <1>3, <2>1, <2>2
  <1>5. Part(m) = PartOf(n, Top)
    BY <1>1, PartTop
  <1> HIDE DEF n
  <1>6. PartOf(n, Top) = After(ItemsMean(n, Top.file, Reads))[Len(Content[Top.file])]
    BY <1>2, <1>4 DEF PartOf
  <1>7. Reads[n][Top.file] = After(ItemsMean(n, Top.file, Reads))[Len(Content[Top.file])]
    BY <1>2, <1>3, FileReads
  <1> QED BY <1>5, <1>6, <1>7 DEF n

(* What the caller can have set then.                                       *)
LEMMA CallerGets ==
  ASSUME Busy, NEW m, m = Len(stack), m > 1,
         Len(stack') = m - 1, stack'[m - 1] = stack[m - 1], Room(m - 1)' = Room(m - 1), cpc' = "return",
         NEW b \in Part(m - 1), NEW c \in Reads[Room(m)][stack[m].file]
  PROVE  Plus(b, c) \in Part(m - 1)'
  <1> DEFINE p == m - 1
             frame == stack[p]
             n == Room(p)
             before == After(ItemsMean(n, frame.file, Reads))
  <1>1. /\ p \in 1 .. Len(stack) /\ m \in Nat /\ p < Len(stack) /\ p + 1 = m
        /\ "f" \in frame.held /\ Waits(frame, stack[m].file)
        /\ frame.file \in DOMAIN Content /\ n \in 1 .. MaxOpen
        /\ frame.item \in 1 .. Len(Content[frame.file])
        /\ ~InDirectory(frame) => Meaning(n, ItemOf(frame), Reads) = Reads[Room(m)][stack[m].file]
        /\ InDirectory(frame) => n > 1 /\ n - 2 = Room(m)
    BY Caller
  <1>2. ItemsDone(p) = frame.item - 1 /\ ItemsDone(p)' = frame.item
    BY <1>1 DEF ItemsDone
  <1>3. before[frame.item] = Then(before[frame.item - 1], Meaning(n, ItemOf(frame), Reads))
    BY <1>1, ItemAdds DEF ItemOf
  <1>4. CASE ~InDirectory(frame)
    <2>1. Part(p) = before[frame.item - 1]
      BY <1>1, <1>2, <1>4 DEF Part
    <2>2. Part(p)' = before[frame.item]
      BY <1>1, <1>2, <1>4 DEF Part, InDirectory
    <2>3. c \in Meaning(n, ItemOf(frame), Reads)
      BY <1>1, <1>4
    <2> HIDE DEF before, n, frame
    <2>4. b \in before[frame.item - 1]
      BY <2>1
    <2>5. Plus(b, c) \in before[frame.item]
      BY <1>3, <2>3, <2>4, InThen
    <2> QED BY <2>2, <2>5
  <1>5. CASE InDirectory(frame)
    <2> DEFINE d == ItemOf(frame).dir
               e == stack[m].file
               S == Visible(d) \ (frame.left \cup {e})
    <2>1. d \in DOMAIN Entries /\ e \in Visible(d) \ frame.left
      BY <1>1, <1>5 DEF Waits, AtDirectory
    <2>2. Entered(p) = S
      BY <1>1 DEF Entered
    <2>3. Entered(p)' = Visible(d) \ frame.left
      BY <1>1 DEF Entered, ItemOf
    <2>4. Part(p) = Then(before[frame.item - 1], Directory(n, S, Reads))
      BY <1>1, <1>5, <2>2 DEF Part
    <2>5. Part(p)' = Then(before[frame.item - 1], Directory(n, Visible(d) \ frame.left, Reads))
      BY <1>1, <1>5, <2>3 DEF Part, InDirectory
    <2> HIDE DEF before, n, frame, d, e
    <2>6. /\ S \cup {e} = Visible(d) \ frame.left /\ e \notin S /\ S \in SUBSET Visible(d)
      BY <2>1
    <2> HIDE DEF S
    <2>7. PICK r \in before[frame.item - 1], t \in Directory(n, S, Reads) : b = Plus(r, t)
      BY <2>4 DEF Then
    <2>8. c \in Reads[n - 2][e]
      BY <1>1, <1>5 DEF e
    <2>9. IsFiniteSet(S)
      BY <2>1, <2>6, VisibleFiles
    <2>10. Plus(t, c) \in Directory(n, S \cup {e}, Reads)
      BY <2>6, <2>8, <2>9, DirectoryAdds
    <2>11. r \in Results /\ t \in Results /\ c \in Results
      <3>1. frame.item - 1 \in 0 .. Len(Content[frame.file])
        BY <1>1, ContentType
      <3>2. r \in Results
        BY <1>1, <2>7, <3>1, BeforeType DEF before
      <3>3. t \in Results
        BY <1>1, <1>5, <2>1, <2>6, <2>7, EnteredType
      <3>4. n - 2 \in 0 .. MaxOpen /\ e \in Files
        <4>1. MaxOpen \in Nat /\ n \in 1 .. MaxOpen /\ n > 1
          BY <1>1, <1>5, FilesType
        <4>2. Visible(d) \subseteq Files
          BY <2>1, VisibleFiles
        <4> QED BY <2>1, <4>1, <4>2
      <3>5. c \in Results
        BY <2>8, <3>4, ReadsType DEF Typed
      <3> QED BY <3>2, <3>3, <3>5
    <2>12. Plus(b, c) = Plus(r, Plus(t, c))
      BY <2>7, <2>11, PlusAssociative
    <2>13. Plus(r, Plus(t, c)) \in Then(before[frame.item - 1], Directory(n, S \cup {e}, Reads))
      BY <2>7, <2>10, InThen
    <2> QED BY <2>5, <2>6, <2>12, <2>13
  <1> QED BY <1>4, <1>5

LEMMA Succeeded ==
  ASSUME Busy, SoFar, ready, ready' = ready, root' = root, stack # <<>>,
         NEW m, m = Len(stack), cpc = "items", Top.item > Len(Items), NEW held, Leave(held, held, "ok"),
         thread_safe' = thread_safe, list' = list
  PROVE  Follows'
  <1>1. m \in Nat \ {0} /\ m \in 1 .. Len(stack) /\ Top = stack[m]
    BY TopIs
  <1>2. rc' = "ok" /\ stack' = Front(stack) /\ cpc' = IF m = 1 THEN "idle" ELSE "return"
    BY DEF Leave
  <1>3. Part(m) = Reads[Room(m)][stack[m].file]
    BY <1>1, FileDone
  <1>4. \A r \in Results : Settled(r) => Settled(r)'
    BY DEF Settled
  <1>5. CASE m = 1
    <2>1. stack' = <<>>
      BY <1>2, <1>5, LeaveEffect DEF Busy, Held
    <2>2. Part(1) = Reads[MaxOpen][root]
      BY <1>1, <1>3, <1>5, RoomFirst DEF Busy, Places
    <2>3. PICK r \in Part(1) : r \in Results /\ Settled(r)
      BY <1>5, SoFarEnds
    <2>4. \E t \in Reads[MaxOpen][root'] : Settled(t)'
      BY <1>4, <2>2, <2>3
    <2>5. ReadsTheFiles'
      BY <1>2, <2>4 DEF ReadsTheFiles
    <2> QED BY <1>2, <1>5, <2>1, <2>5, Emptied DEF Follows
  <1>6. CASE m # 1
    <2>0. m > 1
      BY <1>1, <1>6
    <2>1. /\ Places' /\ Rooms' /\ Len(stack') = m - 1 /\ cpc' = "return"
          /\ \A k \in 1 .. m - 1 : stack'[k] = stack[k] /\ Room(k)' = Room(k)
          /\ \A q \in 1 .. m - 2 : Part(q)' = Part(q)
      BY <2>0, Shallower
    <2>2. stack'[m - 1] = stack[m - 1] /\ Room(m - 1)' = Room(m - 1)
      <3>1. m - 1 \in 1 .. m - 1
        BY <1>1, <2>0
      <3> QED BY <2>1, <3>1
    <2>3. \A b \in Part(m - 1), c \in Part(m) : Plus(b, c) \in Part(m - 1)'
      BY <1>3, <2>0, <2>1, <2>2, CallerGets
    <2>4. SoFar'
      BY <1>1, <1>4, <2>0, <2>1, <2>3, SoFarReturns
    <2> QED BY <1>2, <2>1, <2>4 DEF Follows, ReadsTheFiles
  <1> QED BY <1>5, <1>6

LEMMA SteppedQuietly ==
  ASSUME Busy, SoFar, ready, ready' = ready, root' = root,
         stack # <<>>, NEW m, m = Len(stack), Room(m) > 0,
         NEW frame \in FrameType, SetTop(frame), frame.file = Top.file,
         cpc' \in {"items", "entries"},
         cpc' = "items" => frame.item \in 1 .. Len(Content[frame.file]) + 1,
         cpc' = "entries" => AtDirectory(frame),
         InDirectory(frame) => Room(m) > 1,
         Part(m) \subseteq PartOf(Room(m), frame),
         thread_safe' = thread_safe, list' = list
  PROVE  Follows'
  <1>1. m \in 1 .. Len(stack)
    BY TopIs
  <1>2. Part(m) \in SUBSET Results
    BY <1>1, PartType
  <1>3. Nothing \in Results /\ \A t \in Part(m) : Plus(t, Nothing) \in PartOf(Room(m), frame)
    BY <1>2, NothingAdds
  <1>4. \A r \in Results : Settled(r) => Settled(Plus(r, Nothing))'
    <2> SUFFICES ASSUME NEW r \in Results, Settled(r) PROVE Settled(Plus(r, Nothing))'
      OBVIOUS
    <2>1. Plus(r, Nothing) = r
      BY NothingAdds
    <2>2. Settled(r)'
      BY DEF Settled
    <2> QED BY <2>1, <2>2
  <1> QED BY <1>3, <1>4, Stepped

-----------------------------------------------------------------------------
(* The actions                                                              *)

LEMMA Ongoing ==
  ASSUME Held, Follows, Reading
  PROVE  /\ Busy /\ stack # <<>> /\ ready /\ ready' = ready /\ root' = root
         /\ cpc \in {"open", "items", "entries", "return"}
  <1>1. cpc \in {"open", "items", "entries", "return"} /\ ready' = ready /\ root' = root
    BY DEF Reading, Open, OpenMoved, OpenFails, ParseFails, ReadFails, SetBool, Ignore, WrongType,
       SetPlugins, SetPluginsFails, NameFails, Include, IncludeFails, OpenDir, OpenDirFails,
       DirNameFails, ReadEntry, SkipEntry, ReadEntryFails, CloseDir, CloseDirFails, DirCleanupFails,
       Return, Done, DoneFails, At
  <1>2. cpc # "idle" /\ cpc # "undefined"
    BY <1>1
  <1> QED BY <1>1, <1>2 DEF Busy, Held, Calls, Follows

(* At an item.                                                              *)
LEMMA Reached ==
  ASSUME Busy, NEW m, m = Len(stack), NEW kind, At(kind)
  PROVE  /\ stack # <<>> /\ cpc = "items" /\ m \in Nat \ {0} /\ m \in 1 .. Len(stack)
         /\ Top = stack[m] /\ Top \in FrameType
         /\ Top.held = AtItem /\ "f" \in Top.held /\ ~InDirectory(Top)
         /\ IsItem(Item) /\ Item.kind = kind /\ Item = Content[Top.file][Top.item]
         /\ Top.file \in DOMAIN Content /\ Top.item \in 1 .. Len(Content[Top.file])
         /\ Len(Content[Top.file]) \in Nat /\ Room(m) \in 1 .. MaxOpen
         /\ Part(m) = After(ItemsMean(Room(m), Top.file, Reads))[Top.item - 1]
  <1>1. /\ stack # <<>> /\ Holds(Top, {AtItem}) /\ IsItem(Item) /\ Item.kind = kind
        /\ Top.item \in 1 .. Len(Content[Top.file])
    BY ItemAt DEF Busy
  <1>2. m \in Nat \ {0} /\ m \in 1 .. Len(stack) /\ Top = stack[m] /\ Top \in FrameType
    BY <1>1, TopIs
  <1>3. cpc = "items"
    BY DEF At
  <1>4. Top.held = AtItem /\ Top.file \in DOMAIN Content
    BY <1>1 DEF Holds
  <1>5. "f" \in Top.held /\ ~InDirectory(Top)
    BY <1>4 DEF AtItem, InDirectory
  <1>6. Room(m) \in 1 .. MaxOpen /\ Len(Content[Top.file]) \in Nat
    BY <1>2, <1>5, FrameAt
  <1>7. Part(m) = PartOf(Room(m), Top)
    BY <1>2, <1>3, PartTop
  <1>8. PartOf(Room(m), Top) = After(ItemsMean(Room(m), Top.file, Reads))[Top.item - 1]
    BY <1>5 DEF PartOf
  <1>9. Item = Content[Top.file][Top.item]
    BY DEF Item, Items
  <1> QED BY <1>1, <1>2, <1>3, <1>4, <1>5, <1>6, <1>7, <1>8, <1>9

LEMMA ItemStep ==
  ASSUME Busy, SoFar, ready, ready' = ready, root' = root,
         NEW m, m = Len(stack), NEW kind, At(kind), SetTop(Step), cpc' = cpc,
         NEW x \in Meaning(Room(m), Item, Reads),
         \A r \in Results : Settled(r) => Settled(Plus(r, x))'
  PROVE  Follows'
  <1> DEFINE n == Room(m)
             before == After(ItemsMean(n, Top.file, Reads))
  <1>1. /\ stack # <<>> /\ cpc = "items" /\ m \in Nat \ {0}
        /\ Top.held = AtItem /\ "f" \in Top.held /\ ~InDirectory(Top)
        /\ Item = Content[Top.file][Top.item]
        /\ Top.file \in DOMAIN Content /\ Top.item \in 1 .. Len(Content[Top.file])
        /\ Len(Content[Top.file]) \in Nat /\ n \in 1 .. MaxOpen
        /\ Part(m) = before[Top.item - 1]
    BY Reached
  <1>2. /\ Step \in FrameType /\ Step.held = Top.held /\ Step.file = Top.file /\ Step.item = Top.item + 1
    BY <1>1, TopFrame DEF Busy, FrameType
  <1>3. before[Top.item] = Then(before[Top.item - 1], Meaning(n, Item, Reads))
    BY <1>1, ItemAdds
  <1>4. x \in Results
    BY <1>1, BeforeType
  <1>5. PartOf(n, Step) = before[Top.item]
    <2>1. (Top.item + 1) - 1 = Top.item /\ ~InDirectory(Step)
      BY <1>1, <1>2 DEF InDirectory
    <2> QED BY <1>1, <1>2, <2>1 DEF PartOf
  <1> HIDE DEF before
  <1>6. \A t \in Part(m) : Plus(t, x) \in PartOf(n, Step)
    BY <1>1, <1>3, <1>5, InThen
  <1>7. n > 0 /\ Step.item \in 1 .. Len(Content[Step.file]) + 1 /\ ~InDirectory(Step)
    BY <1>1, <1>2 DEF InDirectory
  <1> QED BY <1>1, <1>2, <1>4, <1>6, <1>7, Stepped

LEMMA ItemFails ==
  ASSUME Busy, ready, ready' = ready, root' = root,
         NEW m, m = Len(stack), NEW kind, At(kind), NEW held, Leave(held, held, "error"),
         fault' \/ Meaning(Room(m), Item, Reads) = {}
  PROVE  Follows'
  <1>1. /\ stack # <<>> /\ Item = Content[Top.file][Top.item]
        /\ Top.file \in DOMAIN Content /\ Top.item \in 1 .. Len(Content[Top.file])
        /\ Room(m) \in 1 .. MaxOpen
    BY Reached
  <1>2. Meaning(Room(m), Item, Reads) = {} => Reads[Room(m)][Top.file] = {}
    BY <1>1, ItemEmpty
  <1> QED BY <1>1, <1>2, Failed

LEMMA FollowsFile ==
  ASSUME Held, Follows, Reading, Open \/ OpenFails \/ ParseFails \/ ReadFails \/ Done \/ DoneFails
  PROVE  Follows'
  <1>0. PICK m : m = Len(stack)
    OBVIOUS
  <1>a. /\ Busy /\ stack # <<>> /\ ready /\ ready' = ready /\ root' = root /\ m = Len(stack)
        /\ stack \in Seq(FrameType)
    BY <1>0, Ongoing DEF Held
  <1>b. /\ m \in Nat \ {0} /\ m \in 1 .. Len(stack) /\ Top = stack[m] /\ Top \in FrameType
    BY <1>a, TopIs
  <1>c. ASSUME cpc = "open"
        PROVE  /\ Top.held = {} /\ Top.item = 1 /\ Part(m) = {Nothing} /\ SoFar
               /\ Descriptors \in Nat /\ Room(m) = MaxOpen - Descriptors
               /\ Room(m) \in 0 .. MaxOpen /\ Top.file \in Files
    <2>1. Top.held = {} /\ Top.item = 1
      BY <1>a, <1>b, <1>c DEF Busy, Calls, Places
    <2>2. Room(m + 1) = Room(m)
      <3>1. stack[m].held \cap {"f", "dir"} = {}
        BY <1>b, <2>1
      <3> QED BY <1>b, <3>1, RoomNext
    <2>3. Descriptors \in Nat /\ Room(m + 1) = MaxOpen - Descriptors
      BY <1>a, RoomOver
    <2>4. Room(m) \in Nat
      BY <1>a, <1>b DEF Busy, Rooms
    <2>5. Part(m) = {Nothing}
      BY <1>b, <2>1 DEF Part
    <2>6. Top.file \in Files
      BY <1>b DEF FrameType
    <2> QED BY <1>c, <2>1, <2>2, <2>3, <2>4, <2>5, <2>6, FilesType DEF Follows
  <1>1. CASE Open
    <2> DEFINE frame == [Top EXCEPT !.held = {"f", "f_str", "t", "r"}]
               n == Room(m)
    <2>1. /\ cpc = "open" /\ Top.file \in DOMAIN Content /\ Descriptors < MaxOpen /\ SetTop(frame)
          /\ cpc' = "items" /\ thread_safe' = thread_safe /\ list' = list
      BY <1>1 DEF Open, plvars
    <2>2. Len(Content[Top.file]) \in Nat
      BY <2>1, ContentType
    <2>3. n > 0 /\ n \in 1 .. MaxOpen
      BY <1>c, <2>1, FilesType
    <2>4. /\ frame \in FrameType /\ frame.file = Top.file /\ frame.item = 1
          /\ "f" \in frame.held /\ ~InDirectory(frame)
      BY <1>b, <1>c, <2>1 DEF FrameType, Resources, InDirectory
    <2> HIDE DEF frame
    <2>5. PartOf(n, frame) = {Nothing}
      <3>1. PartOf(n, frame) = After(ItemsMean(n, Top.file, Reads))[0]
        BY <2>4 DEF PartOf
      <3>2. Len(ItemsMean(n, Top.file, Reads)) \in Nat
        BY <2>1, <2>2, <2>3, BeforeType
      <3> QED BY <3>1, <3>2, AfterIs
    <2>6. Part(m) \subseteq PartOf(n, frame)
      BY <1>c, <2>1, <2>5
    <2>7. frame.item \in 1 .. Len(Content[frame.file]) + 1
      BY <2>2, <2>4
    <2> QED BY <1>a, <1>c, <2>1, <2>3, <2>4, <2>6, <2>7, SteppedQuietly
  <1>f. ASSUME NEW held, Leave(held, held, "error"), fault' \/ Reads[Room(m)][Top.file] = {}
        PROVE  Follows'
    BY <1>a, <1>f, Failed
  <1>2. CASE OpenFails
    <2>1. cpc = "open" /\ (Top.file \notin DOMAIN Content \/ Descriptors >= MaxOpen)
          /\ Leave({}, {}, "error")
      BY <1>2, Labels DEF OpenFails, Exists, Fail
    <2>2. Top.file \notin DOMAIN Content \/ ~(Room(m) > 0)
      BY <1>c, <2>1, FilesType
    <2>3. Reads[Room(m)][Top.file] = {}
      BY <1>c, <2>1, <2>2, ReadsAt
    <2> QED BY <1>f, <2>1, <2>3
  <1>3. CASE ParseFails
    <2>1. cpc = "open" /\ Top.file \in Refused
          /\ Leave({"f", "f_str", "t"}, {"f", "f_str", "t"}, "error")
      BY <1>3, Labels DEF ParseFails, Fail
    <2>2. Top.file \notin DOMAIN Content
      BY <2>1, FilesType
    <2>3. Reads[Room(m)][Top.file] = {}
      BY <1>c, <2>1, <2>2, ReadsAt
    <2> QED BY <1>f, <2>1, <2>3
  <1>4. CASE ReadFails
    <2>1. /\ \/ Leave({}, {}, "error") \/ Leave({"f"}, {"f"}, "error")
             \/ Leave({"f", "f_str"}, {"f", "f_str"}, "error")
             \/ Leave({"f", "f_str", "t"}, {"f", "f_str", "t"}, "error")
          /\ fault'
      BY <1>4, Labels DEF ReadFails, Fail
    <2> QED BY <1>f, <2>1
  <1>5. CASE Done
    <2>1. /\ cpc = "items" /\ Top.item > Len(Items) /\ Leave(Top.held, {"r", "t", "f_str", "f"}, "ok")
          /\ thread_safe' = thread_safe /\ list' = list
      BY <1>5 DEF Done, plvars
    <2>2. Top.held = {"r", "t", "f_str", "f"}
      BY <1>a, <1>b, <2>1 DEF Busy, Calls, Holds, AtItem
    <2>3. SoFar
      BY <2>1 DEF Follows
    <2> QED BY <1>a, <2>1, <2>2, <2>3, Succeeded
  <1>6. CASE DoneFails
    <2>1. Leave(Top.held, {"r", "t", "f_str", "f"}, "error") /\ fault'
      BY <1>6 DEF DoneFails
    <2> QED BY <1>a, <2>1, Failed
  <1> QED BY <1>1, <1>2, <1>3, <1>4, <1>5, <1>6

LEMMA PluginsAdded ==
  ASSUME NEW l \in Seq(PluginType), NEW ps \in Seq(NewPlugin)
  PROVE  [k \in DOMAIN (l \o ps) |-> Plugin((l \o ps)[k].lib, (l \o ps)[k].argc)]
           = [k \in DOMAIN l |-> Plugin(l[k].lib, l[k].argc)] \o ps
  <1> DEFINE c == l \o ps
             s == [k \in 1 .. Len(l) |-> Plugin(l[k].lib, l[k].argc)]
             t == [k \in 1 .. Len(c) |-> Plugin(c[k].lib, c[k].argc)]
  <1>1. /\ Len(l) \in Nat /\ Len(ps) \in Nat /\ Len(c) = Len(l) + Len(ps)
        /\ \A k \in 1 .. Len(c) : c[k] = IF k <= Len(l) THEN l[k] ELSE ps[k - Len(l)]
        /\ DOMAIN l = 1 .. Len(l) /\ DOMAIN c = 1 .. Len(c)
    OBVIOUS
  <1>2. \A k \in 1 .. Len(ps) : Plugin(ps[k].lib, ps[k].argc) = ps[k]
    <2>1. \A p \in NewPlugin : Plugin(p.lib, p.argc) = p
      BY DEF Plugin, NewPlugin
    <2>2. \A k \in 1 .. Len(ps) : ps[k] \in NewPlugin
      OBVIOUS
    <2> QED BY <2>1, <2>2
  <1> HIDE DEF c
  <1>3. s \in Seq(NewPlugin) /\ Len(s) = Len(l)
    <2>1. \A p \in PluginType : Plugin(p.lib, p.argc) \in NewPlugin
      BY DEF Plugin, NewPlugin, PluginType
    <2>2. \A k \in 1 .. Len(l) : l[k] \in PluginType
      OBVIOUS
    <2>3. \A k \in 1 .. Len(l) : Plugin(l[k].lib, l[k].argc) \in NewPlugin
      BY <2>1, <2>2
    <2> QED BY <1>1, <2>3
  <1>4. /\ Len(s \o ps) = Len(l) + Len(ps) /\ s \o ps \in Seq(NewPlugin)
        /\ \A k \in 1 .. Len(l) + Len(ps) : (s \o ps)[k] = IF k <= Len(l) THEN s[k] ELSE ps[k - Len(l)]
    <2> HIDE DEF s
    <2> QED BY <1>3
  <1>5. t = s \o ps
    <2>1. \A k \in 1 .. Len(c) : t[k] = (s \o ps)[k]
      <3> SUFFICES ASSUME NEW k \in 1 .. Len(c) PROVE t[k] = (s \o ps)[k]
        OBVIOUS
      <3>1. CASE k <= Len(l)
        BY <1>1, <1>4, <3>1
      <3>2. CASE ~(k <= Len(l))
        <4>1. k - Len(l) \in 1 .. Len(ps) /\ c[k] = ps[k - Len(l)]
          BY <1>1, <3>2
        <4> QED BY <1>1, <1>2, <1>4, <3>2, <4>1
      <3> QED BY <3>1, <3>2
    <2>2. s \o ps = [k \in 1 .. Len(c) |-> (s \o ps)[k]]
      <3> DEFINE q == s \o ps
      <3>1. q \in Seq(NewPlugin) /\ Len(q) = Len(c)
        BY <1>1, <1>4
      <3> HIDE DEF q
      <3>2. q = [k \in 1 .. Len(q) |-> q[k]]
        BY <3>1
      <3> QED BY <3>1, <3>2 DEF q
    <2>3. t = [k \in 1 .. Len(c) |-> t[k]]
      OBVIOUS
    <2> HIDE DEF s, t
    <2> QED BY <2>1, <2>2, <2>3
  <1> QED BY <1>1, <1>5 DEF c

LEMMA MeaningIs ==
  ASSUME NEW n, NEW it
  PROVE  /\ it.kind = "bool" => Meaning(n, it, Reads) = {[bools |-> <<it.val>>, plugins |-> <<>>]}
         /\ it.kind = "other" => Meaning(n, it, Reads) = {Nothing}
         /\ it.kind = "plugins" /\ it.ok =>
              Meaning(n, it, Reads) = {[bools |-> <<>>, plugins |-> it.list]}
         /\ it.kind = "plugins" /\ ~it.ok => Meaning(n, it, Reads) = {}
         /\ it.kind = "bad" => Meaning(n, it, Reads) = {}
  <1>1. it.kind = "bool" => Meaning(n, it, Reads) = {[bools |-> <<it.val>>, plugins |-> <<>>]}
    BY DEF Meaning, Nothing
  <1>2. it.kind = "other" => Meaning(n, it, Reads) = {Nothing}
    BY DEF Meaning
  <1>3. it.kind = "plugins" /\ it.ok => Meaning(n, it, Reads) = {[bools |-> <<>>, plugins |-> it.list]}
    BY DEF Meaning, Nothing
  <1>4. it.kind = "plugins" /\ ~it.ok => Meaning(n, it, Reads) = {}
    BY DEF Meaning
  <1>5. it.kind = "bad" => Meaning(n, it, Reads) = {}
    BY DEF Meaning
  <1> QED BY <1>1, <1>2, <1>3, <1>4, <1>5

LEMMA FollowsItem ==
  ASSUME Held, Handles, Follows, Reading,
         SetBool \/ Ignore \/ WrongType \/ SetPlugins \/ SetPluginsFails
  PROVE  Follows'
  <1>0. PICK m : m = Len(stack)
    OBVIOUS
  <1>a. /\ Busy /\ ready /\ ready' = ready /\ root' = root /\ m = Len(stack)
    BY <1>0, Ongoing
  <1>s. cpc = "items" => SoFar
    BY DEF Follows
  <1>b. ASSUME NEW kind, At(kind)
        PROVE  /\ SoFar /\ Top.held = AtItem /\ IsItem(Item) /\ Item.kind = kind
               /\ Top.held = FallThrough("r")
    <2>1. cpc = "items" /\ Top.held = AtItem /\ IsItem(Item) /\ Item.kind = kind
      BY <1>a, <1>b, Reached
    <2> QED BY <1>s, <2>1, Labels DEF AtItem
  <1>1. CASE SetBool
    <2>x. PICK x : x = [bools |-> <<Item.val>>, plugins |-> <<>>]
      OBVIOUS
    <2>1. At("bool") /\ SetTop(Step) /\ cpc' = cpc /\ thread_safe' = Item.val /\ list' = list
      BY <1>1 DEF SetBool, plvars
    <2>2. x \in Meaning(Room(m), Item, Reads) /\ Item.val \in BOOLEAN
      BY <1>b, <2>x, <2>1, MeaningIs DEF IsItem
    <2>3. \A r \in Results : Settled(r) => Settled(Plus(r, x))'
      <3> SUFFICES ASSUME NEW r \in Results, Settled(r) PROVE Settled(Plus(r, x))'
        OBVIOUS
      <3>1. r.bools \in Seq(BOOLEAN) /\ r.plugins \in Seq(NewPlugin)
        BY DEF Results
      <3>2. Plus(r, x) = [bools |-> r.bools \o <<Item.val>>, plugins |-> r.plugins \o <<>>]
        BY <2>x DEF Plus
      <3>3. r.plugins \o <<>> = r.plugins
        BY <3>1, ConcatEmptySeq
      <3>4. ASSUME NEW S, NEW q \in Seq(S), NEW v \in S
            PROVE  q \o <<v>> # <<>> /\ Last(q \o <<v>>) = v
        BY DEF Last
      <3>5. r.bools \o <<Item.val>> # <<>> /\ Last(r.bools \o <<Item.val>>) = Item.val
        BY <2>2, <3>1, <3>4, Zenon
      <3>6. Plus(r, x).bools = r.bools \o <<Item.val>> /\ Plus(r, x).plugins = r.plugins
        BY <3>2, <3>3
      <3>7. thread_safe' = (Plus(r, x).bools # <<>> /\ Last(Plus(r, x).bools))
        BY <2>1, <2>2, <3>5, <3>6
      <3>8. [k \in DOMAIN list' |-> Plugin(list'[k].lib, list'[k].argc)] = Plus(r, x).plugins
        BY <2>1, <3>6 DEF Settled
      <3> QED BY <3>7, <3>8 DEF Settled
    <2> QED BY <1>a, <1>b, <2>1, <2>2, <2>3, ItemStep
  <1>2. CASE Ignore
    <2>1. At("other") /\ SetTop(Step) /\ cpc' = cpc /\ thread_safe' = thread_safe /\ list' = list
      BY <1>2 DEF Ignore, plvars
    <2>2. Nothing \in Meaning(Room(m), Item, Reads)
      BY <1>b, <2>1, MeaningIs
    <2>3. \A r \in Results : Settled(r) => Settled(Plus(r, Nothing))'
      <3> SUFFICES ASSUME NEW r \in Results, Settled(r) PROVE Settled(Plus(r, Nothing))'
        OBVIOUS
      <3>1. Plus(r, Nothing) = r
        BY NothingAdds
      <3>2. Settled(r)'
        BY <2>1 DEF Settled
      <3> QED BY <3>1, <3>2
    <2> QED BY <1>a, <1>b, <2>1, <2>2, <2>3, ItemStep
  <1>f. ASSUME NEW kind, At(kind), Fail(Top.held, "r"), fault' \/ Meaning(Room(m), Item, Reads) = {}
        PROVE  Follows'
    <2>1. Leave(Top.held, Top.held, "error")
      BY <1>b, <1>f DEF Fail
    <2> QED BY <1>a, <1>f, <2>1, ItemFails
  <1>3. CASE WrongType
    <2>1. At("bad") /\ Fail(Top.held, "r")
      BY <1>3 DEF WrongType
    <2>2. Meaning(Room(m), Item, Reads) = {}
      BY <1>b, <2>1, MeaningIs
    <2> QED BY <1>f, <2>1, <2>2
  <1>4. CASE SetPlugins /\ Item.ok
    <2>x. PICK x : x = [bools |-> <<>>, plugins |-> Item.list]
      OBVIOUS
    <2>1. At("plugins") /\ SetTop(Step) /\ cpc' = cpc /\ thread_safe' = thread_safe
          /\ list' = list \o Item.list
      BY <1>4 DEF SetPlugins, Add
    <2>2. x \in Meaning(Room(m), Item, Reads) /\ Item.list \in Seq(NewPlugin)
      BY <1>4, <1>b, <2>x, <2>1, MeaningIs DEF IsItem
    <2>3. \A r \in Results : Settled(r) => Settled(Plus(r, x))'
      <3> SUFFICES ASSUME NEW r \in Results, Settled(r) PROVE Settled(Plus(r, x))'
        OBVIOUS
      <3>1. r.bools \in Seq(BOOLEAN) /\ r.plugins \in Seq(NewPlugin)
        BY DEF Results
      <3>2. Plus(r, x) = [bools |-> r.bools \o <<>>, plugins |-> r.plugins \o Item.list]
        BY <2>x DEF Plus
      <3>3. r.bools \o <<>> = r.bools
        BY <3>1, ConcatEmptySeq
      <3>4. list \in Seq(PluginType)
        BY DEF Handles, PluginTypes
      <3>5. [k \in DOMAIN list' |-> Plugin(list'[k].lib, list'[k].argc)]
              = [k \in DOMAIN list |-> Plugin(list[k].lib, list[k].argc)] \o Item.list
        BY <2>1, <2>2, <3>4, PluginsAdded
      <3>6. Plus(r, x).bools = r.bools /\ Plus(r, x).plugins = r.plugins \o Item.list
        <4>1. ASSUME NEW a, NEW b, Plus(r, x) = [bools |-> a, plugins |-> b]
              PROVE  Plus(r, x).bools = a /\ Plus(r, x).plugins = b
          BY <4>1
        <4> QED BY <3>2, <3>3, <4>1, Zenon
      <3>7. thread_safe' = (Plus(r, x).bools # <<>> /\ Last(Plus(r, x).bools))
        BY <2>1, <3>6 DEF Settled
      <3>8. [k \in DOMAIN list' |-> Plugin(list'[k].lib, list'[k].argc)] = Plus(r, x).plugins
        BY <3>5, <3>6 DEF Settled
      <3> QED BY <3>7, <3>8 DEF Settled
    <2> QED BY <1>a, <1>b, <2>1, <2>2, <2>3, ItemStep
  <1>5. CASE SetPlugins /\ ~Item.ok
    <2>1. At("plugins") /\ Fail(Top.held, "r")
      BY <1>5 DEF SetPlugins
    <2>2. Meaning(Room(m), Item, Reads) = {}
      BY <1>5, <1>b, <2>1, MeaningIs
    <2> QED BY <1>f, <2>1, <2>2
  <1>6. CASE SetPluginsFails
    <2>1. At("plugins") /\ Fail(Top.held, "r") /\ fault'
      BY <1>6 DEF SetPluginsFails
    <2> QED BY <1>f, <2>1
  <1> QED BY <1>1, <1>2, <1>3, <1>4, <1>5, <1>6

LEMMA FollowsInclude ==
  ASSUME Held, Follows, Reading, Include \/ IncludeFails \/ Return
  PROVE  Follows'
  <1>0. PICK m : m = Len(stack)
    OBVIOUS
  <1>a. /\ Busy /\ stack # <<>> /\ ready /\ ready' = ready /\ root' = root /\ m = Len(stack)
    BY <1>0, Ongoing
  <1>b. m \in Nat \ {0} /\ m \in 1 .. Len(stack) /\ Top = stack[m] /\ Top \in FrameType
    BY <1>a, TopIs
  <1>1. CASE Include
    <2>1. At("include") /\ Call(Top, Item.file) /\ thread_safe' = thread_safe /\ list' = list
      BY <1>1 DEF Include, plvars
    <2>2. /\ cpc = "items" /\ Top.held = AtItem /\ "f" \in Top.held /\ ~InDirectory(Top)
          /\ IsItem(Item) /\ Item.kind = "include" /\ Item = Content[Top.file][Top.item]
          /\ Top.item \in 1 .. Len(Content[Top.file])
      BY <1>a, <2>1, Reached
    <2>3. Item.file \in Files
      BY <2>2 DEF IsItem
    <2>4. Waits(Waiting(Top), Item.file)
      <3>1. /\ Waiting(Top).file = Top.file /\ Waiting(Top).item = Top.item
            /\ Waiting(Top).held = Top.held \cup {"new_filename"}
        BY <1>b DEF Waiting, FrameType
      <3>2. ~InDirectory(Waiting(Top))
        BY <2>2, <3>1 DEF InDirectory
      <3> QED BY <2>2, <3>1, <3>2 DEF Waits, ItemOf
    <2>5. SoFar /\ cpc # "return"
      BY <2>2 DEF Follows
    <2> DEFINE file0 == Item.file
               top0 == Top
    <2>6. PICK file : file = file0
      OBVIOUS
    <2>7. PICK frame : frame = top0
      OBVIOUS
    <2>8. /\ file \in Files /\ frame \in FrameType /\ Call(frame, file)
          /\ frame.file = Top.file /\ frame.held = Top.held /\ frame.item = Top.item
          /\ Waits(Waiting(frame), file)
      BY <1>b, <2>1, <2>3, <2>4, <2>6, <2>7
    <2> QED BY <1>a, <2>1, <2>2, <2>5, <2>8, Pushed
  <1>2. CASE IncludeFails
    <2>1. At("include") /\ Fail(Top.held, "r") /\ fault'
      BY <1>2 DEF IncludeFails
    <2>2. Top.held = FallThrough("r")
      BY <1>a, <2>1, Reached, Labels DEF AtItem
    <2>3. Leave(Top.held, Top.held, "error")
      BY <2>1, <2>2 DEF Fail
    <2> QED BY <1>a, <2>1, <2>3, ItemFails
  <1>3. CASE Return
    <2> DEFINE n == Room(m)
               before == After(ItemsMean(n, Top.file, Reads))
    <2>1. /\ cpc = "return" /\ Holds(Top, InCall) /\ rc \in {"ok", "error"}
          /\ thread_safe' = thread_safe /\ list' = list /\ fault' = fault
      BY <1>3, <1>a, <1>b DEF Return, Busy, Calls, Follows, plvars
    <2>2. "f" \in Top.held /\ Top.file \in DOMAIN Content
      BY <2>1 DEF Holds, InCall, InEntry, AtItem
    <2>3. /\ n \in 1 .. MaxOpen /\ Len(Content[Top.file]) \in Nat
          /\ InDirectory(Top) => AtDirectory(Top) /\ n > 1
      BY <1>a, <1>b, <2>2, FrameAt
    <2>4. Top.item \in 1 .. Len(Content[Top.file])
      <3>1. PICK file \in Files : Waits(Top, file)
        BY <1>a, <1>b, <2>1 DEF Busy, Places
      <3> QED BY <3>1 DEF Waits, AtDirectory
    <2>5. InDir <=> InDirectory(Top)
      BY DEF InDir, InDirectory
    <2>6. /\ Resumed.file = Top.file /\ Resumed.item = Top.item /\ Resumed.left = Top.left
          /\ Resumed.held = Top.held \ {"new_filename"} /\ Resumed \in FrameType
      BY <1>b DEF Resumed, FrameType
    <2>7. CASE rc = "ok" /\ InDirectory(Top)
      <3>1. SetTop(Resumed) /\ cpc' = "entries" /\ SoFar
        BY <1>3, <2>1, <2>5, <2>7 DEF Return, Follows
      <3>2. InDirectory(Resumed) /\ "f" \in Resumed.held /\ AtDirectory(Resumed)
        BY <2>2, <2>3, <2>6, <2>7 DEF InDirectory, AtDirectory, ItemOf
      <3>3. Part(m) = PartOf(n, Top)
        BY <1>a, <1>b, <2>7, PartTop
      <3>4. PartOf(n, Top) = PartOf(n, Resumed)
        BY <2>2, <2>6, <2>7, <3>2 DEF PartOf, ItemOf
      <3>5. Part(m) \subseteq PartOf(n, Resumed) /\ n > 0 /\ n > 1
        BY <2>3, <2>7, <3>3, <3>4
      <3> DEFINE top0 == Resumed
      <3>6. PICK frame : frame = top0
        OBVIOUS
      <3>7. /\ frame \in FrameType /\ SetTop(frame) /\ frame.file = Top.file
            /\ AtDirectory(frame) /\ Part(m) \subseteq PartOf(n, frame)
        BY <2>6, <3>1, <3>2, <3>5, <3>6
      <3> QED BY <1>a, <2>1, <3>1, <3>5, <3>7, SteppedQuietly
    <2>8. CASE rc = "ok" /\ ~InDirectory(Top)
      <3> DEFINE top0 == [Resumed EXCEPT !.item = Resumed.item + 1]
      <3>1. SetTop(top0) /\ cpc' = "items" /\ SoFar
        BY <1>3, <2>1, <2>5, <2>8 DEF Return, Follows
      <3>2. /\ top0.file = Top.file /\ top0.item = Top.item + 1 /\ top0 \in FrameType
            /\ "f" \in top0.held /\ ~InDirectory(top0)
        BY <2>2, <2>6, <2>8 DEF InDirectory, FrameType
      <3> HIDE DEF top0
      <3>3. PICK frame : frame = top0
        OBVIOUS
      <3>4. /\ frame \in FrameType /\ SetTop(frame) /\ frame.file = Top.file /\ frame.item = Top.item + 1
            /\ "f" \in frame.held /\ ~InDirectory(frame)
        BY <3>1, <3>2, <3>3
      <3>5. ItemsDone(m) = Top.item
        BY <1>a, <1>b, <2>1 DEF ItemsDone
      <3>6. Part(m) = before[Top.item]
        BY <1>b, <2>2, <2>8, <3>5 DEF Part
      <3>7. PartOf(n, frame) = before[Top.item]
        <4>1. frame.item - 1 = Top.item
          BY <2>3, <2>4, <3>4
        <4> QED BY <3>4, <4>1 DEF PartOf
      <3>8. n > 0 /\ frame.item \in 1 .. Len(Content[frame.file]) + 1
        BY <2>3, <2>4, <3>4
      <3>9. Part(m) \subseteq PartOf(n, frame)
        BY <3>6, <3>7
      <3> QED BY <1>a, <2>1, <3>1, <3>4, <3>8, <3>9, SteppedQuietly
    <2>9. CASE rc = "error"
      <3>1. Fail(Resumed.held, IF InDir THEN "dir" ELSE "r")
        BY <1>3, <2>9 DEF Return
      <3>2. Resumed.held = FallThrough(IF InDir THEN "dir" ELSE "r")
        BY <2>1, <2>6, Labels DEF InDir, Holds, InCall, InEntry, AtItem
      <3>3. Leave(Resumed.held, Resumed.held, "error")
        BY <3>1, <3>2 DEF Fail
      <3>4. fault \/ Meaning(n, Content[Top.file][Top.item], Reads) = {}
        BY <1>a, <1>b, <2>1, <2>9 DEF Follows, CannotGoOn, ItemOf
      <3>5. fault' \/ Reads[n][Top.file] = {}
        BY <2>1, <2>2, <2>3, <2>4, <3>4, ItemEmpty
      <3> QED BY <1>a, <3>3, <3>5, Failed
    <2> QED BY <2>1, <2>7, <2>8, <2>9
  <1> QED BY <1>1, <1>2, <1>3

(* In a directory.                                                          *)
LEMMA Inside ==
  ASSUME Busy, stack # <<>>, NEW m, m = Len(stack), cpc = "entries"
  PROVE  /\ Top.held = InEntry /\ "f" \in Top.held /\ InDirectory(Top) /\ AtDirectory(Top)
         /\ Top.file \in DOMAIN Content /\ Top.item \in 1 .. Len(Content[Top.file])
         /\ Len(Content[Top.file]) \in Nat
         /\ Room(m) \in 1 .. MaxOpen /\ Room(m) > 1 /\ Part(m) = PartOf(Room(m), Top)
  <1>1. m \in 1 .. Len(stack) /\ Top = stack[m]
    BY TopIs
  <1>2. Top.held = InEntry /\ Top.file \in DOMAIN Content
    BY <1>1 DEF Busy, Calls, Holds
  <1>3. "f" \in Top.held /\ InDirectory(Top)
    BY <1>2 DEF InEntry, AtItem, InDirectory
  <1>4. /\ AtDirectory(Top) /\ Room(m) \in 1 .. MaxOpen /\ Room(m) > 1
        /\ Len(Content[Top.file]) \in Nat
    BY <1>1, <1>3, FrameAt
  <1>5. Top.item \in 1 .. Len(Content[Top.file])
    BY <1>4 DEF AtDirectory
  <1>6. Part(m) = PartOf(Room(m), Top)
    BY <1>1, PartTop
  <1> QED BY <1>2, <1>3, <1>4, <1>5, <1>6

LEMMA FollowsOpenDir ==
  ASSUME Held, Follows, Reading, OpenDir \/ OpenDirFails \/ DirNameFails
  PROVE  Follows'
  <1>0. PICK m : m = Len(stack)
    OBVIOUS
  <1> DEFINE n == Room(m)
             before == After(ItemsMean(n, Top.file, Reads))
  <1>a. /\ Busy /\ stack # <<>> /\ ready /\ ready' = ready /\ root' = root /\ m = Len(stack)
        /\ stack \in Seq(FrameType)
    BY <1>0, Ongoing DEF Held
  <1>b. At("include directory")
    BY DEF OpenDir, OpenDirFails, DirNameFails
  <1>c. /\ cpc = "items" /\ m \in Nat \ {0}
        /\ Top = stack[m] /\ Top \in FrameType
        /\ Top.held = AtItem /\ "f" \in Top.held /\ ~InDirectory(Top)
        /\ Item.kind = "include directory" /\ Item = Content[Top.file][Top.item]
        /\ Top.file \in DOMAIN Content /\ Top.item \in 1 .. Len(Content[Top.file])
        /\ n \in 1 .. MaxOpen /\ Part(m) = before[Top.item - 1]
    BY <1>a, <1>b, Reached
  <1>d. Descriptors \in Nat /\ n - 1 = MaxOpen - Descriptors
    <2>1. stack[m].held \cap {"f", "dir"} = {"f"}
      BY <1>c DEF AtItem
    <2>2. Room(m + 1) = n - 1
      BY <1>c, <2>1, RoomNext
    <2> QED BY <1>a, <2>2, RoomOver
  <1>e. n > 0 /\ (n > 1 <=> Descriptors < MaxOpen)
    <2>1. n \in Nat /\ n > 0 /\ MaxOpen \in Nat
      <3>1. MaxOpen \in Nat
        BY FilesType
      <3>2. \A x \in 1 .. MaxOpen : x \in Nat /\ x > 0
        BY <3>1
      <3> QED BY <1>c, <3>1, <3>2, Zenon
    <2>2. ASSUME NEW x \in Nat, NEW y \in Nat, NEW z \in Nat, x - 1 = y - z
          PROVE  x > 1 <=> z < y
      BY <2>2
    <2> QED BY <1>d, <2>1, <2>2
  <1>1. CASE OpenDir
    <2> DEFINE frame0 == [Top EXCEPT !.held = Top.held \cup {"dirname", "dir"}, !.left = Entries[Item.dir]]
    <2>1. /\ Item.dir \in DOMAIN Entries /\ Descriptors < MaxOpen /\ SetTop(frame0)
          /\ cpc' = "entries" /\ thread_safe' = thread_safe /\ list' = list
      BY <1>1 DEF OpenDir, plvars
    <2>2. Entries[Item.dir] \in SUBSET Files
      BY <2>1, FilesType
    <2>3. /\ frame0 \in FrameType /\ frame0.file = Top.file /\ frame0.item = Top.item
          /\ frame0.left = Entries[Item.dir] /\ "f" \in frame0.held /\ InDirectory(frame0)
      BY <1>c, <2>2 DEF FrameType, Resources, InDirectory
    <2> HIDE DEF frame0
    <2>4. PICK frame : frame = frame0
      OBVIOUS
    <2>5. /\ frame \in FrameType /\ frame.file = Top.file /\ frame.item = Top.item
          /\ frame.left = Entries[Item.dir] /\ "f" \in frame.held /\ InDirectory(frame) /\ SetTop(frame)
      BY <2>1, <2>3, <2>4
    <2>6. ItemOf(frame) = Item
      BY <1>c, <2>5 DEF ItemOf
    <2>7. AtDirectory(frame)
      BY <1>c, <2>1, <2>5, <2>6 DEF AtDirectory
    <2>8. PartOf(n, frame) = Then(before[Top.item - 1], Directory(n, {}, Reads))
      <3>1. Visible(ItemOf(frame).dir) \ frame.left = {}
        BY <2>5, <2>6 DEF Visible
      <3> QED BY <2>5, <3>1 DEF PartOf
    <2>9. Part(m) \subseteq PartOf(n, frame)
      <3> SUFFICES ASSUME NEW t \in Part(m) PROVE t \in PartOf(n, frame)
        OBVIOUS
      <3>1. m \in 1 .. Len(stack)
        BY <1>a, TopIs
      <3>2. Part(m) \in SUBSET Results
        BY <1>a, <3>1, PartType
      <3>3. Plus(t, Nothing) = t
        BY <3>2, NothingAdds
      <3>4. t \in before[Top.item - 1] /\ Nothing \in Directory(n, {}, Reads)
        BY <1>c, DirectoryNone
      <3> HIDE DEF before
      <3>5. Plus(t, Nothing) \in Then(before[Top.item - 1], Directory(n, {}, Reads))
        BY <3>4, InThen
      <3> QED BY <2>8, <3>3, <3>5
    <2>10. n > 0 /\ n > 1
      BY <1>e, <2>1
    <2>11. SoFar
      BY <1>c DEF Follows
    <2> QED BY <1>a, <2>1, <2>5, <2>7, <2>9, <2>10, <2>11, SteppedQuietly
  <1>l. Top.held = FallThrough("r") /\ Top.held \cup {"dirname"} = FallThrough("dirname")
    BY <1>c, Labels DEF AtItem
  <1>2. CASE OpenDirFails
    <2>1. Leave(Top.held \cup {"dirname"}, Top.held \cup {"dirname"}, "error")
      BY <1>2, <1>l DEF OpenDirFails, Fail
    <2>2. Item.dir \notin DOMAIN Entries \/ ~(Descriptors < MaxOpen)
      <3>1. MaxOpen \in Nat
        BY FilesType
      <3>2. \A x \in Nat : x >= MaxOpen => ~(x < MaxOpen)
        BY <3>1
      <3>3. Item.dir \notin DOMAIN Entries \/ Descriptors >= MaxOpen
        BY <1>2 DEF OpenDirFails
      <3> QED BY <1>d, <3>2, <3>3, Zenon
    <2>3. ~(Item.dir \in DOMAIN Entries /\ n > 1)
      BY <1>e, <2>2
    <2>4. Meaning(n, Item, Reads) = {}
      <3>1. ASSUME NEW it, it.kind = "include directory", ~(it.dir \in DOMAIN Entries /\ n > 1)
            PROVE  Meaning(n, it, Reads) = {}
        BY <3>1 DEF Meaning
      <3> QED BY <1>c, <2>3, <3>1
    <2> QED BY <1>a, <1>b, <2>1, <2>4, ItemFails
  <1>3. CASE DirNameFails
    <2>1. /\ \/ Leave(Top.held, Top.held, "error")
             \/ Leave(Top.held \cup {"dirname"}, Top.held \cup {"dirname"}, "error")
          /\ fault'
      BY <1>3, <1>l DEF DirNameFails, Fail
    <2> QED BY <1>a, <1>b, <2>1, ItemFails
  <1> QED BY <1>1, <1>2, <1>3

LEMMA FollowsDirectory ==
  ASSUME Held, Follows, Reading, ReadEntry \/ SkipEntry \/ ReadEntryFails \/ CloseDir
  PROVE  Follows'
  <1> DEFINE d == ItemOf(Top).dir
  <1>0. PICK m : m = Len(stack)
    OBVIOUS
  <1> DEFINE n == Room(m)
             before == After(ItemsMean(n, Top.file, Reads))
  <1>a. /\ Busy /\ stack # <<>> /\ ready /\ ready' = ready /\ root' = root /\ m = Len(stack)
    BY <1>0, Ongoing
  <1>b. cpc = "entries"
    BY DEF ReadEntry, SkipEntry, ReadEntryFails, CloseDir
  <1>c. /\ Top.held = InEntry /\ "f" \in Top.held /\ InDirectory(Top) /\ AtDirectory(Top)
        /\ Top.file \in DOMAIN Content /\ Top.item \in 1 .. Len(Content[Top.file])
        /\ Len(Content[Top.file]) \in Nat
        /\ n \in 1 .. MaxOpen /\ n > 1 /\ Part(m) = PartOf(n, Top)
    BY <1>a, <1>b, Inside
  <1>d. m \in 1 .. Len(stack) /\ Top = stack[m] /\ Top \in FrameType /\ Top.left \subseteq Files
        /\ Top.item \in Nat
    BY <1>a, TopIs DEF FrameType
  <1>e. SoFar
    BY <1>b DEF Follows
  <1>g. d \in DOMAIN Entries /\ Top.left \subseteq Entries[d]
    BY <1>c DEF AtDirectory
  <1>h. PartOf(n, Top) = Then(before[Top.item - 1], Directory(n, Visible(d) \ Top.left, Reads))
    BY <1>c DEF PartOf
  <1> HIDE DEF d
  (* The frame without e, whether a file is called for or not.              *)
  <1>k. ASSUME NEW e \in Top.left, NEW frame, frame = [Top EXCEPT !.left = Top.left \ {e}]
        PROVE  /\ frame \in FrameType /\ frame.file = Top.file /\ frame.item = Top.item
               /\ frame.held = Top.held /\ frame.left = Top.left \ {e}
               /\ frame.left \cup {e} = Top.left
               /\ InDirectory(frame) /\ AtDirectory(frame) /\ ItemOf(frame) = ItemOf(Top)
    <2>1. /\ frame \in FrameType /\ frame.file = Top.file /\ frame.item = Top.item
          /\ frame.held = Top.held /\ frame.left = Top.left \ {e}
      BY <1>d, <1>k DEF FrameType
    <2>2. InDirectory(frame) /\ ItemOf(frame) = ItemOf(Top)
      BY <1>c, <2>1 DEF InDirectory, ItemOf
    <2>3. AtDirectory(frame)
      BY <1>c, <2>1, <2>2 DEF AtDirectory
    <2> QED BY <2>1, <2>2, <2>3
  <1>1. CASE ReadEntry
    <2>1. PICK e \in Top.left \ Hidden : Call([Top EXCEPT !.left = Top.left \ {e}], e)
      BY <1>1 DEF ReadEntry
    <2>2. thread_safe' = thread_safe /\ list' = list
      BY <1>1 DEF ReadEntry, plvars
    <2> DEFINE frame0 == [Top EXCEPT !.left = Top.left \ {e}]
    <2>3. PICK frame : frame = frame0
      OBVIOUS
    <2>4. /\ frame \in FrameType /\ frame.file = Top.file /\ frame.item = Top.item
          /\ frame.held = Top.held /\ frame.left = Top.left \ {e} /\ frame.left \cup {e} = Top.left
          /\ InDirectory(frame) /\ AtDirectory(frame) /\ ItemOf(frame) = ItemOf(Top)
      BY <1>k, <2>3
    <2>5. Call(frame, e) /\ e \in Files
      BY <1>d, <2>1, <2>3
    <2> HIDE DEF frame0
    <2>6. Waits(Waiting(frame), e)
      <3>1. /\ Waiting(frame).file = frame.file /\ Waiting(frame).item = frame.item
            /\ Waiting(frame).left = frame.left
            /\ Waiting(frame).held = frame.held \cup {"new_filename"}
        BY <2>4 DEF Waiting, FrameType
      <3>2. /\ InDirectory(Waiting(frame)) /\ ItemOf(Waiting(frame)) = ItemOf(Top)
            /\ AtDirectory(Waiting(frame))
        BY <2>4, <3>1 DEF InDirectory, AtDirectory, ItemOf
      <3>3. e \in Visible(ItemOf(Top).dir) \ frame.left
        BY <1>g, <2>1, <2>4 DEF Visible, d
      <3> QED BY <3>1, <3>2, <3>3 DEF Waits
    <2>7. cpc # "return"
      BY <1>b
    <2> QED BY <1>a, <1>c, <1>e, <2>2, <2>4, <2>5, <2>6, <2>7, Pushed
  <1>2. CASE SkipEntry
    <2>1. PICK e \in Top.left \cap Hidden : SetTop([Top EXCEPT !.left = Top.left \ {e}])
      BY <1>2 DEF SkipEntry
    <2>2. cpc' = "entries" /\ thread_safe' = thread_safe /\ list' = list
      BY <1>2 DEF SkipEntry, plvars
    <2> DEFINE frame0 == [Top EXCEPT !.left = Top.left \ {e}]
    <2>3. PICK frame : frame = frame0
      OBVIOUS
    <2>4. /\ frame \in FrameType /\ frame.file = Top.file /\ frame.item = Top.item
          /\ frame.held = Top.held /\ frame.left = Top.left \ {e}
          /\ InDirectory(frame) /\ AtDirectory(frame) /\ ItemOf(frame) = ItemOf(Top)
      BY <1>k, <2>3
    <2>5. SetTop(frame)
      BY <2>1, <2>3
    <2> HIDE DEF frame0
    <2>6. Visible(d) \ frame.left = Visible(d) \ Top.left
      BY <2>1, <2>4 DEF Visible
    <2>7. PartOf(n, frame) = Then(before[Top.item - 1], Directory(n, Visible(d) \ frame.left, Reads))
      BY <1>c, <2>4 DEF PartOf, d
    <2>8. Part(m) \subseteq PartOf(n, frame) /\ n > 0 /\ n > 1
      <3>1. PartOf(n, frame) = PartOf(n, Top)
        BY <1>h, <2>6, <2>7
      <3>2. n > 0
        BY <1>c
      <3> QED BY <1>c, <3>1, <3>2
    <2> QED BY <1>a, <1>e, <2>2, <2>4, <2>5, <2>8, SteppedQuietly
  <1>3. CASE ReadEntryFails
    <2>1. Top.held = FallThrough("dir")
      BY <1>c, Labels DEF InEntry, AtItem
    <2>2. Leave(Top.held, Top.held, "error") /\ fault'
      BY <1>3, <2>1 DEF ReadEntryFails, Fail
    <2> QED BY <1>a, <2>2, Failed
  <1>4. CASE CloseDir
    <2> DEFINE frame0 == [Step EXCEPT !.held = Step.held \ {"dirname", "dir"}]
    <2>1. /\ SetTop(frame0) /\ Top.left = {} /\ cpc' = "items"
          /\ thread_safe' = thread_safe /\ list' = list
      BY <1>4 DEF CloseDir, plvars
    <2>2. /\ frame0 \in FrameType /\ frame0.file = Top.file /\ frame0.item = Top.item + 1
          /\ "f" \in frame0.held /\ ~InDirectory(frame0)
      <3>1. /\ Step \in FrameType /\ Step.file = Top.file /\ Step.item = Top.item + 1
            /\ Step.held = Top.held
        BY <1>d DEF Step, FrameType
      <3>2. /\ frame0 \in FrameType /\ frame0.file = Top.file /\ frame0.item = Top.item + 1
            /\ frame0.held = InEntry \ {"dirname", "dir"}
        BY <1>c, <3>1 DEF FrameType
      <3> QED BY <3>2 DEF InEntry, AtItem, InDirectory
    <2> HIDE DEF frame0
    <2>3. PICK frame : frame = frame0
      OBVIOUS
    <2>4. /\ frame \in FrameType /\ frame.file = Top.file /\ frame.item = Top.item + 1
          /\ "f" \in frame.held /\ ~InDirectory(frame) /\ SetTop(frame)
      BY <2>1, <2>2, <2>3
    <2>5. PartOf(n, frame) = before[Top.item]
      <3>1. frame.item - 1 = Top.item
        BY <1>d, <2>4
      <3> QED BY <2>4, <3>1 DEF PartOf
    <2>6. before[Top.item] = Then(before[Top.item - 1], Meaning(n, ItemOf(Top), Reads))
      BY <1>c, ItemAdds DEF ItemOf
    <2>7. Meaning(n, ItemOf(Top), Reads) = Directory(n, Visible(d), Reads)
      <3>1. ASSUME NEW it, it.kind = "include directory", it.dir \in DOMAIN Entries, n > 1
            PROVE  Meaning(n, it, Reads) = Directory(n, Visible(it.dir), Reads)
        BY <3>1 DEF Meaning
      <3> QED BY <1>c, <1>g, <3>1 DEF AtDirectory, d
    <2>8. Visible(d) \ Top.left = Visible(d)
      BY <2>1
    <2> HIDE DEF before
    <2>9. Part(m) \subseteq PartOf(n, frame)
      BY <1>c, <1>h, <2>5, <2>6, <2>7, <2>8
    <2>10. n > 0 /\ frame.item \in 1 .. Len(Content[frame.file]) + 1
      BY <1>c, <2>4
    <2> QED BY <1>a, <1>e, <2>1, <2>4, <2>9, <2>10, SteppedQuietly
  <1> QED BY <1>1, <1>2, <1>3, <1>4

LEMMA FollowsReading == Held /\ Handles /\ Follows /\ Reading => Follows'
  <1> SUFFICES ASSUME Held, Handles, Follows, Reading PROVE Follows'
    OBVIOUS
  <1>1. CASE NameFails \/ OpenMoved
    <2>1. ready' /\ cpc' = "undefined"
      BY <1>1, Ongoing DEF NameFails, OpenMoved
    <2> QED BY <2>1 DEF Follows, ReadsTheFiles
  <1>2. CASE Open \/ OpenFails \/ ParseFails \/ ReadFails \/ Done \/ DoneFails
    BY <1>2, FollowsFile
  <1>3. CASE SetBool \/ Ignore \/ WrongType \/ SetPlugins \/ SetPluginsFails
    BY <1>3, FollowsItem
  <1>4. CASE Include \/ IncludeFails \/ Return
    BY <1>4, FollowsInclude
  <1>5. CASE OpenDir \/ OpenDirFails \/ DirNameFails
    BY <1>5, FollowsOpenDir
  <1>6. CASE ReadEntry \/ SkipEntry \/ ReadEntryFails \/ CloseDir
    BY <1>6, FollowsDirectory
  <1>7. CASE CloseDirFails \/ DirCleanupFails
    <2>1. /\ Busy /\ stack # <<>> /\ ready /\ ready' = ready /\ root' = root
      BY Ongoing
    <2>2. PICK m : m = Len(stack)
      OBVIOUS
    <2>3. fault' /\ \E held, released : Leave(held, released, "error")
      BY <1>7 DEF CloseDirFails, DirCleanupFails, Fail
    <2> QED BY <2>1, <2>2, <2>3, Failed
  <1> QED BY <1>1, <1>2, <1>3, <1>4, <1>5, <1>6, <1>7 DEF Reading

(* Loading and unloading plugins changes only their handles.                *)
LEMMA PluginsKept ==
  ASSUME Handles, PlNext
  PROVE  [k \in DOMAIN list' |-> Plugin(list'[k].lib, list'[k].argc)]
           = [k \in DOMAIN list |-> Plugin(list[k].lib, list[k].argc)]
  <1>1. list' = list \/ \E h : SetHandle(h)
    BY DEF PlNext, Load, LoadOpen, LoadOpenFails, LoadInit, LoadInitFails, LoadDone, Unload,
       UnloadOne, UnloadDone
  <1>2. CASE list' = list
    BY <1>2
  <1>3. ASSUME NEW h, SetHandle(h)
        PROVE  /\ DOMAIN list' = DOMAIN list
               /\ \A k \in DOMAIN list : list'[k].lib = list[k].lib /\ list'[k].argc = list[k].argc
    <2>1. list' = [list EXCEPT ![at] = [list[at] EXCEPT !.h = h]]
      BY <1>3 DEF SetHandle
    <2>2. ASSUME NEW p \in PluginType
          PROVE  [p EXCEPT !.h = h].lib = p.lib /\ [p EXCEPT !.h = h].argc = p.argc
      BY DEF PluginType
    <2>3. \A k \in DOMAIN list : list[k] \in PluginType
      BY DEF Handles, PluginTypes
    <2>4. DOMAIN list' = DOMAIN list
      BY <2>1
    <2>5. ASSUME NEW k \in DOMAIN list
          PROVE  list'[k] = list[k] \/ list'[k] = [list[k] EXCEPT !.h = h]
      BY <2>1
    <2> QED BY <2>2, <2>3, <2>4, <2>5
  <1>4. CASE \E h : SetHandle(h)
    <2>1. DOMAIN list' = DOMAIN list
          /\ \A k \in DOMAIN list : list'[k].lib = list[k].lib /\ list'[k].argc = list[k].argc
      BY <1>3, <1>4
    <2> QED BY <2>1
  <1> QED BY <1>1, <1>2, <1>4

LEMMA FollowsInit == Init => Follows
  <1> SUFFICES ASSUME Init PROVE Follows
    OBVIOUS
  <1>1. stack = <<>> /\ cpc = "idle" /\ rc = "none"
    BY DEF Init
  <1>2. Places /\ Rooms
    BY <1>1 DEF Places, Rooms
  <1> QED BY <1>1, <1>2 DEF Follows, ReadsTheFiles

LEMMA FollowsLoad ==
  ASSUME NEW file \in Roots, ConfLoad(file)
  PROVE  Follows'
  <1>1. /\ stack' = <<Frame(file)>> /\ cpc' = "open" /\ root' = file /\ ready'
        /\ thread_safe' = FALSE /\ list' = <<>>
    BY DEF ConfLoad, Reset
  <1>2. Frame(file).file = file /\ Frame(file).item = 1 /\ Frame(file).held = {}
    BY DEF Frame
  <1>3. Len(stack') = 1 /\ stack'[1] = Frame(file)
    BY <1>1
  <1>4. Places'
    BY <1>1, <1>2, <1>3 DEF Places
  <1>5. Rooms'
    <2>1. Below(1)' = {}
      BY DEF Below
    <2>2. Room(1)' = MaxOpen /\ MaxOpen \in Nat
      BY <2>1, FS_EmptySet, FilesType DEF Room
    <2>3. "f" \notin stack'[1].held /\ "dir" \notin stack'[1].held
      BY <1>2, <1>3
    <2>4. \A p \in 1 .. Len(stack') : p = 1
      BY <1>3
    <2> QED BY <2>2, <2>3, <2>4 DEF Rooms, InDirectory
  <1>6. Part(1)' = {Nothing}
    BY <1>2, <1>3 DEF Part
  <1>7. SoFar'
    <2>1. Settled(Nothing)'
      <3>1. Nothing.bools = <<>> /\ Nothing.plugins = <<>>
        BY DEF Nothing
      <3>2. thread_safe' = (Nothing.bools # <<>> /\ Last(Nothing.bools))
        BY <1>1, <3>1
      <3>3. [k \in DOMAIN list' |-> Plugin(list'[k].lib, list'[k].argc)] = <<>>
        BY <1>1
      <3> QED BY <3>1, <3>2, <3>3 DEF Settled
    <2>2. Nothing \in InTurn(Parts')
      <3>1. Parts'[1] = {Nothing} /\ Parts' = [p \in 1 .. 1 |-> Parts'[p]]
        BY <1>3, <1>6, PartsAreNext
      <3> DEFINE P == Parts'
      <3> HIDE DEF P
      <3>2. Len(P) = 1
        BY <3>1, LenIs DEF P
      <3>3. InTurn(P) = Then(After(P)[1 - 1], P[1]) /\ After(P)[0] = {Nothing}
        BY <3>2, AfterIs DEF InTurn
      <3>4. Plus(Nothing, Nothing) \in InTurn(P) /\ Plus(Nothing, Nothing) = Nothing
        BY <3>1, <3>3, InThen, NothingAdds DEF P
      <3> QED BY <3>4 DEF P
    <2> QED BY <2>1, <2>2 DEF SoFar
  <1> QED BY <1>1, <1>4, <1>5, <1>7 DEF Follows, ReadsTheFiles

LEMMA FollowsNext == Held /\ Handles /\ Follows /\ [Next]_vars => Follows'
  <1> SUFFICES ASSUME Held, Handles, Follows, [Next]_vars PROVE Follows'
    OBVIOUS
  <1>a. cpc = "idle" => stack = <<>>
    BY DEF Held, Calls
  <1>1. CASE ConfInit \/ ConfInitFails \/ ConfDeinit
    <2>1. stack' = <<>> /\ cpc' = "idle" /\ rc' = "none"
      BY <1>1, <1>a DEF ConfInit, ConfInitFails, ConfDeinit, Between, Follows
    <2> QED BY <2>1, Emptied DEF Follows, ReadsTheFiles
  <1>2. ASSUME NEW file \in Roots, ConfLoad(file) PROVE Follows'
    BY <1>2, FollowsLoad
  <1>3. CASE Reading
    BY <1>3, FollowsReading
  <1>4. CASE Plugins
    <2>1. /\ stack' = <<>> /\ cpc = "idle" /\ cpc' = "idle" /\ rc' = rc /\ ready' = ready
          /\ root' = root /\ fault' = fault /\ thread_safe' = thread_safe /\ PlNext
      BY <1>4, <1>a DEF Plugins, reading
    <2>2. \A r : Settled(r) => Settled(r)'
      BY <2>1, PluginsKept DEF Settled
    <2>3. ReadsTheFiles /\ ready
      BY <1>4 DEF Follows, Plugins
    <2>4. ReadsTheFiles'
      BY <2>1, <2>2, <2>3 DEF ReadsTheFiles
    <2> QED BY <2>1, <2>3, <2>4, Emptied DEF Follows
  <1>5. CASE UNCHANGED vars
    <2>1. UNCHANGED <<list, thread_safe, stack, cpc, rc, ready, root, fault>>
      BY <1>5 DEF vars, plvars, reading
    <2>2. \A r : Settled(r) => Settled(r)'
      BY <2>1 DEF Settled
    <2>3. Rooms' <=> Rooms
      BY <2>1 DEF Rooms, Room, Below
    <2>4. Places' <=> Places
      BY <2>1 DEF Places
    <2>5. CannotGoOn' <=> CannotGoOn
      BY <2>1 DEF CannotGoOn, Room, Below
    <2>6. Parts' = Parts
      BY <2>1 DEF Parts, Part, ItemsDone, Entered, Room, Below
    <2>7. SoFar => SoFar'
      BY <2>2, <2>6 DEF SoFar
    <2>8. ReadsTheFiles => ReadsTheFiles'
      BY <2>1, <2>2 DEF ReadsTheFiles
    <2> QED BY <2>1, <2>3, <2>4, <2>5, <2>7, <2>8 DEF Follows
  <1> QED BY <1>1, <1>2, <1>3, <1>4, <1>5 DEF Next

(* For any files, directories, order of their entries and number of         *)
(* descriptors, and whatever fails: a load that returns 0 leaves what the   *)
(* files say, put together in the order in which they are read, and one     *)
(* that returns -1 without a fault was given a file that cannot be read     *)
(* (conf.c:300-467).  Nothing is said of a load in which realloc moved the  *)
(* tokens of a large file (conf.c:341) or the name of a plugin could not be *)
(* copied (conf.c:139): there the program is undefined.                     *)
THEOREM GivesTheFiles == Spec => []ReadsTheFiles
  <1>1. Follows => ReadsTheFiles
    BY DEF Follows
  <1> QED BY HeldInit, HeldNext, HandlesInit, HandlesNext, FollowsInit, FollowsNext, <1>1, PTL DEF Spec

-----------------------------------------------------------------------------
(* How deep calls nest                                                      *)

Shallow == cpc # "undefined" => Len(stack) <= MaxOpen + 1

LEMMA RoomLess ==
  ASSUME Busy, NEW p \in 1 .. Len(stack) - 1
  PROVE  Room(p) \in Nat /\ Room(p + 1) \in Nat /\ Room(p + 1) < Room(p)
  <1>1. /\ p \in Nat \ {0} /\ p \in 1 .. Len(stack) /\ p + 1 \in 1 .. Len(stack)
    BY DEF Busy, Held
  <1>2. Room(p) \in Nat /\ Room(p + 1) \in Nat
    BY <1>1 DEF Busy, Rooms
  <1>3. stack[p].held \cap {"f", "dir"} \in {{"f"}, {"f", "dir"}}
    <2>1. Holds(stack[p], InCall)
      BY DEF Busy, Calls
    <2>2. "f" \in stack[p].held
      BY <2>1 DEF Holds, InCall, InEntry, AtItem
    <2> QED BY <2>2
  <1>4. Room(p + 1) = Room(p) - 1 \/ Room(p + 1) = Room(p) - 2
    BY <1>1, <1>3, RoomNext
  <1> QED BY <1>2, <1>4

(* Calls of conf_load_recurse nest at most one deeper than there are        *)
(* descriptors, although a file may include itself: each that has called    *)
(* another keeps its file open (conf.c:363, 385), and the last fails in     *)
(* fopen.                                                                   *)
THEOREM DepthBounded == Spec => []Shallow
  <1>1. Held /\ Follows => Shallow
    <2> SUFFICES ASSUME Held, Follows, cpc # "undefined" PROVE Len(stack) <= MaxOpen + 1
      BY DEF Shallow
    <2>1. Busy /\ Len(stack) \in Nat
      BY DEF Busy, Held, Follows
    <2> DEFINE T == {p \in Nat : p + 1 <= Len(stack) => Room(p + 1) + p <= MaxOpen}
    <2>2. 0 \in T
      BY RoomFirst, FilesType
    <2>3. ASSUME NEW p \in Nat, p \in T PROVE p + 1 \in T
      <3> SUFFICES ASSUME (p + 1) + 1 <= Len(stack) PROVE Room((p + 1) + 1) + (p + 1) <= MaxOpen
        OBVIOUS
      <3>1. p + 1 \in 1 .. Len(stack) - 1 /\ p + 1 <= Len(stack)
        BY <2>1
      <3>2. /\ Room(p + 1) \in Nat /\ Room((p + 1) + 1) \in Nat
            /\ Room((p + 1) + 1) < Room(p + 1)
        BY <2>1, <3>1, RoomLess
      <3>3. Room(p + 1) + p <= MaxOpen
        BY <2>3, <3>1
      <3> QED BY <3>2, <3>3, FilesType
    <2> HIDE DEF T
    <2>4. Nat \subseteq T
      BY <2>2, <2>3, Inductive
    <2>5. CASE Len(stack) = 0
      BY <2>5, FilesType
    <2>6. CASE Len(stack) # 0
      <3>1. Len(stack) - 1 \in T /\ (Len(stack) - 1) + 1 = Len(stack)
        BY <2>1, <2>4, <2>6
      <3>2. Room(Len(stack)) + (Len(stack) - 1) <= MaxOpen
        BY <2>1, <3>1 DEF T
      <3>3. Room(Len(stack)) \in Nat
        <4>1. Len(stack) \in 1 .. Len(stack)
          BY <2>1, <2>6
        <4> QED BY <2>1, <4>1 DEF Busy, Rooms
      <3> QED BY <2>1, <3>2, <3>3, FilesType
    <2> QED BY <2>5, <2>6
  <1> QED BY HeldInit, HeldNext, HandlesInit, HandlesNext, FollowsInit, FollowsNext, <1>1, PTL DEF Spec
=============================================================================
