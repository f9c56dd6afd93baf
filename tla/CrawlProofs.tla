----------------------------- MODULE CrawlProofs -----------------------------
(***************************************************************************)
(* What is proved of Crawl, for every site, every policy and any number of *)
(* pages and sitemaps: a discovery that did not end on its bounds has      *)
(* found what the definition gives.  Of the sitemaps, because what is read *)
(* or waits is closed under what it lists once nothing waits; of the       *)
(* links, because the queue holds two neighbouring depths at most, so that *)
(* all that is nearer than its head has been seen. And every request takes *)
(* a discovery on.                                                         *)
(***************************************************************************)
EXTENDS Crawl, FiniteSetTheorems, WellFoundedInduction, TLAPS

-----------------------------------------------------------------------------
(* Natural numbers                                                         *)

\* A set of natural numbers has a smallest one.
LEMMA Smallest ==
  ASSUME NEW T, T \subseteq Nat, T # {}
  PROVE \E n \in T : \A m \in T : n <= m
<1> DEFINE less == {ss \in Nat \X Nat : ss[1] < ss[2]}
<1>1. OpToRel(<, Nat) = less BY DEF OpToRel
<1>2. IsWellFoundedOn(less, Nat) BY <1>1, NatLessThanWellFounded
<1>3. \A m, n \in Nat : m < n => <<m, n>> \in less OBVIOUS
<1> HIDE DEF less
<1>4. PICK n \in T : \A m \in T : ~(<<m, n>> \in less) BY <1>2, WFMin
<1>5. \A m \in T : ~(m < n) BY <1>3, <1>4
<1>6. \A m \in T : n <= m BY <1>5
<1> QED BY <1>6

\* What is true of 0, and of n + 1 if of n, is true of every number.
LEMMA Induction ==
  ASSUME NEW holds \in [Nat -> BOOLEAN], holds[0], \A n \in Nat : holds[n] => holds[n + 1]
  PROVE \A n \in Nat : holds[n]
<1> DEFINE T == {n \in Nat : ~holds[n]}
<1> SUFFICES ASSUME T # {} PROVE FALSE OBVIOUS
<1>1. T \subseteq Nat OBVIOUS
<1> HIDE DEF T
<1>2. PICK n \in T : \A m \in T : n <= m BY <1>1, Smallest
<1>3. n \in Nat /\ ~holds[n] BY <1>2 DEF T
<1>4. n # 0 BY <1>3
<1>5. n - 1 \in Nat /\ ~(n <= n - 1) /\ (n - 1) + 1 = n BY <1>3, <1>4
<1>6. holds[n - 1] BY <1>2, <1>5 DEF T
<1> QED BY <1>3, <1>5, <1>6

\* f starts with a and goes on with step.
Runs(f, V, a, step) ==
  f \in [Nat -> V] /\ f[0] = a /\ \A n \in Nat : f[n + 1] = step[<<n, f[n]>>]

\* A step from each number to the next defines a function of all of them.
LEMMA Recursion ==
  ASSUME NEW V, NEW a \in V, NEW step \in [Nat \X V -> V]
  PROVE \E f : Runs(f, V, a, step)
<1> DEFINE Begins(n, f) == /\ f \in [0..n -> V] /\ f[0] = a
                           /\ \A k \in 1..n : f[k] = step[<<k - 1, f[k - 1]>>]
           begun == [n \in Nat |-> \E f : Begins(n, f)]
<1>1. \A n \in Nat : \E f : Begins(n, f)
  <2>1. Begins(0, [k \in 0..0 |-> a]) OBVIOUS
  <2>2. ASSUME NEW n \in Nat, NEW f, Begins(n, f) PROVE \E g : Begins(n + 1, g)
    <3> DEFINE g == [k \in 0..(n + 1) |-> IF k = n + 1 THEN step[<<n, f[n]>>] ELSE f[k]]
    <3>1. \A k \in 0..n : f[k] \in V BY <2>2
    <3>2. f[n] \in V /\ step[<<n, f[n]>>] \in V BY <3>1
    <3>3. \A k \in 0..(n + 1) : k # n + 1 => k \in 0..n OBVIOUS
    <3>4. g \in [0..(n + 1) -> V] BY <3>1, <3>2, <3>3
    <3>5. ASSUME NEW k \in 1..(n + 1) PROVE g[k] = step[<<k - 1, g[k - 1]>>]
      <4>1. k - 1 \in 0..(n + 1) /\ k - 1 # n + 1 /\ k \in 0..(n + 1) OBVIOUS
      <4>2. g[k - 1] = f[k - 1] BY <4>1
      <4>3. CASE k = n + 1 BY <4>1, <4>2, <4>3
      <4>4. CASE k # n + 1
        <5>1. k \in 1..n BY <4>4
        <5>2. f[k] = step[<<k - 1, f[k - 1]>>] BY <2>2, <5>1
        <5>3. g[k] = f[k] BY <4>1, <4>4
        <5> QED BY <4>2, <5>2, <5>3
      <4> QED BY <4>3, <4>4
    <3>6. g[0] = a BY <2>2
    <3>7. Begins(n + 1, g) BY <3>4, <3>5, <3>6
    <3> QED BY <3>7
  <2> HIDE DEF Begins
  <2>3. begun[0] BY <2>1
  <2>4. \A n \in Nat : begun[n] => begun[n + 1] BY <2>2
  <2>5. begun \in [Nat -> BOOLEAN] OBVIOUS
  <2>6. \A n \in Nat : begun[n]
    <3> HIDE DEF begun
    <3> QED BY <2>3, <2>4, <2>5, Induction
  <2> QED BY <2>6
<1>2. ASSUME NEW n \in Nat, NEW m \in Nat, NEW f, NEW g, Begins(n, f), Begins(m, g)
      PROVE \A k \in Nat : k <= n /\ k <= m => f[k] = g[k]
  <2> DEFINE same == [k \in Nat |-> k <= n /\ k <= m => f[k] = g[k]]
  <2>1. same[0] BY <1>2
  <2>2. ASSUME NEW k \in Nat, same[k] PROVE same[k + 1]
    <3> SUFFICES ASSUME k + 1 <= n, k + 1 <= m PROVE f[k + 1] = g[k + 1]
      <4>1. k + 1 \in Nat OBVIOUS
      <4> QED BY <4>1
    <3>1. k <= n /\ k <= m /\ k + 1 \in 1..n /\ k + 1 \in 1..m /\ (k + 1) - 1 = k OBVIOUS
    <3>2. f[k] = g[k] BY <2>2, <3>1
    <3> QED BY <1>2, <3>1, <3>2
  <2>3. same \in [Nat -> BOOLEAN] OBVIOUS
  <2>4. \A k \in Nat : same[k]
    <3> HIDE DEF same
    <3> QED BY <2>1, <2>2, <2>3, Induction
  <2> QED BY <2>4
<1> DEFINE some(n) == CHOOSE f : Begins(n, f)
           F == [n \in Nat |-> some(n)[n]]
<1>3. \A n \in Nat : Begins(n, some(n)) BY <1>1
<1> HIDE DEF some
<1>4. ASSUME NEW n \in Nat, NEW f, Begins(n, f), NEW k \in 0..n PROVE F[k] = f[k]
  <2>1. k \in Nat /\ k <= n /\ k <= k OBVIOUS
  <2>2. Begins(k, some(k)) BY <1>3, <2>1
  <2> HIDE DEF Begins
  <2>3. some(k)[k] = f[k] BY <1>2, <1>4, <2>1, <2>2
  <2> QED BY <2>1, <2>3
<1>5. F = [n \in Nat |-> F[n]] OBVIOUS
<1> HIDE DEF F
<1>6. ASSUME NEW n \in Nat PROVE F[n] \in V /\ F[0] = a /\ F[n + 1] = step[<<n, F[n]>>]
  <2>1. n + 1 \in Nat /\ {0, n, n + 1} \subseteq 0..(n + 1) /\ n + 1 \in 1..(n + 1)
        /\ (n + 1) - 1 = n
    OBVIOUS
  <2>2. PICK f : Begins(n + 1, f) BY <1>1, <2>1
  <2>3. F[0] = f[0] /\ F[n] = f[n] /\ F[n + 1] = f[n + 1]
    <3> HIDE DEF Begins
    <3> QED BY <1>4, <2>1, <2>2
  <2>4. f[n + 1] = step[<<(n + 1) - 1, f[(n + 1) - 1]>>] BY <2>1, <2>2
  <2> QED BY <2>1, <2>2, <2>3, <2>4
<1>7. F \in [Nat -> V] BY <1>5, <1>6
<1> QED BY <1>6, <1>7 DEF Runs

-----------------------------------------------------------------------------
(* Orders                                                                  *)

\* How many numbers of I are not above i.
Rank(I, i) == Cardinality({j \in I : j <= i})

\* The ranks of a finite set of numbers are the numbers from one to its size.
LEMMA RanksAreNumbers ==
  ASSUME NEW I \in SUBSET Nat, IsFiniteSet(I)
  PROVE  /\ Cardinality(I) \in Nat
         /\ \A i \in I : Rank(I, i) \in 1..Cardinality(I)
         /\ \A i, j \in I : i < j => Rank(I, i) < Rank(I, j)
         /\ \A k \in 1..Cardinality(I) : \E i \in I : Rank(I, i) = k
<1>1. Cardinality(I) \in Nat BY FS_CardinalityType
<1>2. \A T \in SUBSET I : IsFiniteSet(T) /\ Cardinality(T) \in Nat /\ Cardinality(T) <= Cardinality(I)
  BY <1>1, FS_Subset, FS_CardinalityType
<1>3. \A T \in SUBSET I : \A U \in SUBSET T : U # T => Cardinality(U) < Cardinality(T)
  <2> TAKE T \in SUBSET I
  <2> TAKE U \in SUBSET T
  <2>1. U \in SUBSET I /\ IsFiniteSet(T) BY <1>2
  <2>2. Cardinality(U) <= Cardinality(T) /\ (Cardinality(T) = Cardinality(U) => T = U)
    BY <2>1, FS_Subset
  <2> QED BY <1>2, <2>1, <2>2
<1>4. ASSUME NEW i \in I PROVE Rank(I, i) \in 1..Cardinality(I)
  <2> DEFINE T == {j \in I : j <= i}
  <2>1. T \in SUBSET I /\ {} \in SUBSET T /\ {} # T OBVIOUS
  <2>2. Cardinality({}) = 0 BY FS_EmptySet
  <2>3. Rank(I, i) = Cardinality(T) BY DEF Rank
  <2> HIDE DEF T
  <2>4. Cardinality({}) < Cardinality(T) BY <1>3, <2>1
  <2> QED BY <1>1, <1>2, <2>1, <2>2, <2>3, <2>4
<1>5. ASSUME NEW i \in I, NEW j \in I, i < j PROVE Rank(I, i) < Rank(I, j)
  <2> DEFINE T == {k \in I : k <= j}
             U == {k \in I : k <= i}
  <2>0. j \in T /\ ~(j <= i) /\ (\A k \in U : k <= j) BY <1>5
  <2>1. T \in SUBSET I /\ U \in SUBSET T /\ U # T BY <2>0
  <2>2. Rank(I, i) = Cardinality(U) /\ Rank(I, j) = Cardinality(T) BY DEF Rank
  <2> HIDE DEF T, U
  <2> QED BY <1>3, <2>1, <2>2
<1>6. \A k \in 1..Cardinality(I) : \E i \in I : Rank(I, i) = k
  <2> DEFINE N == 1..Cardinality(I)
             f == [i \in I |-> Rank(I, i)]
  <2>1. f \in [I -> N] BY <1>4
  <2>2. \A i, j \in I : f[i] = f[j] => i = j
    <3> TAKE i, j \in I
    <3>1. i < j \/ j < i \/ i = j OBVIOUS
    <3>2. f[i] = Rank(I, i) /\ f[j] = Rank(I, j) OBVIOUS
    <3>3. Rank(I, i) \in Nat /\ Rank(I, j) \in Nat BY <1>4
    <3>4. i < j => Rank(I, i) < Rank(I, j) BY <1>5
    <3>5. j < i => Rank(I, j) < Rank(I, i) BY <1>5
    <3>6. Rank(I, i) = Rank(I, j) => i = j BY <3>1, <3>3, <3>4, <3>5
    <3> QED BY <3>2, <3>6
  <2>3. f \in Injection(I, N) BY <2>1, <2>2 DEF Injection, IsInjective
  <2>4. IsFiniteSet(N) /\ Cardinality(N) = Cardinality(I) BY <1>1, FS_Interval
  <2>5. f \in Surjection(I, N)
    <3> HIDE DEF f, N
    <3> QED BY <2>3, <2>4, FS_Injection
  <2>6. \A k \in N : \E i \in I : f[i] = k BY <2>5 DEF Surjection
  <2> QED BY <2>6
<1> QED BY <1>1, <1>4, <1>5, <1>6

\* Ordered lists the numbers of a finite set, each once, and they rise.
LEMMA OrderedLists ==
  ASSUME NEW I \in SUBSET Nat, IsFiniteSet(I)
  PROVE  /\ Cardinality(I) \in Nat
         /\ Ordered(I) \in [1..Cardinality(I) -> I]
         /\ \A i \in I : \E k \in 1..Cardinality(I) : Ordered(I)[k] = i
         /\ \A j, k \in 1..Cardinality(I) : j < k => Ordered(I)[j] < Ordered(I)[k]
<1> DEFINE c == Cardinality(I)
           o == Ordered(I)
<1>1. /\ c \in Nat
      /\ \A i \in I : Rank(I, i) \in 1..c
      /\ \A i, j \in I : i < j => Rank(I, i) < Rank(I, j)
      /\ \A k \in 1..c : \E i \in I : Rank(I, i) = k
  BY RanksAreNumbers
<1>2. o = [k \in 1..c |-> CHOOSE i \in I : Rank(I, i) = k] BY DEF Ordered, Rank
<1>3. ASSUME NEW k \in 1..c PROVE o[k] \in I /\ Rank(I, o[k]) = k
  <2>1. o[k] = CHOOSE i \in I : Rank(I, i) = k BY <1>2
  <2> HIDE DEF o
  <2> QED BY <1>1, <2>1
<1>4. DOMAIN o = 1..c /\ o = [k \in DOMAIN o |-> o[k]] BY <1>2
<1> HIDE DEF o, c
<1>5. o \in [1..c -> I] BY <1>3, <1>4
<1>6. \A i, j \in I : Rank(I, i) = Rank(I, j) => i = j
  <2> TAKE i, j \in I
  <2>1. i < j \/ j < i \/ i = j OBVIOUS
  <2>2. Rank(I, i) \in Nat /\ Rank(I, j) \in Nat BY <1>1
  <2> QED BY <1>1, <2>1, <2>2
<1>7. \A i \in I : \E k \in 1..c : o[k] = i BY <1>1, <1>3, <1>6
<1>8. ASSUME NEW j \in 1..c, NEW k \in 1..c, j < k PROVE o[j] < o[k]
  <2>1. o[j] \in Nat /\ o[k] \in Nat BY <1>3
  <2>2. o[k] < o[j] => Rank(I, o[k]) < Rank(I, o[j]) BY <1>1, <1>3
  <2>3. o[k] # o[j] BY <1>1, <1>3, <1>8
  <2> QED BY <1>1, <1>3, <1>8, <2>1, <2>2, <2>3
<1> QED BY <1>1, <1>5, <1>7, <1>8 DEF o, c

\* What a sequence has at a set of places is what At gives.
LEMMA AtGives ==
  ASSUME NEW V, NEW s \in Seq(V), NEW I \in SUBSET DOMAIN s
  PROVE  At(s, I) \in Seq(V) /\ Range(At(s, I)) = {s[i] : i \in I}
<1>1. DOMAIN s = 1..Len(s) /\ Len(s) \in Nat OBVIOUS
<1>2. IsFiniteSet(1..Len(s)) BY <1>1, FS_Interval
<1>3. I \in SUBSET Nat /\ IsFiniteSet(I) BY <1>1, <1>2, FS_Subset
<1> DEFINE c == Cardinality(I)
           o == Ordered(I)
<1>4. /\ c \in Nat /\ o \in [1..c -> I]
      /\ \A i \in I : \E k \in 1..c : o[k] = i
  BY <1>3, OrderedLists
<1>5. At(s, I) = [k \in DOMAIN o |-> s[o[k]]] BY DEF At
<1> HIDE DEF c, o
<1>6. At(s, I) = [k \in 1..c |-> s[o[k]]] BY <1>4, <1>5
<1>7. \A k \in 1..c : o[k] \in I /\ s[o[k]] \in V BY <1>4
<1>8. At(s, I) \in Seq(V) BY <1>4, <1>6, <1>7
<1>9. Range(At(s, I)) = {s[i] : i \in I}
  <2>1. Range(At(s, I)) = {s[o[k]] : k \in 1..c} BY <1>6 DEF Range
  <2> QED BY <1>4, <1>7, <2>1
<1> QED BY <1>8, <1>9

\* What stands in a sequence stands there for the first time somewhere.
LEMMA FirstsAreThere ==
  ASSUME NEW V, NEW s \in Seq(V)
  PROVE  Firsts(s) \in SUBSET DOMAIN s /\ \A i \in DOMAIN s : \E j \in Firsts(s) : s[j] = s[i]
<1>1. ASSUME NEW i \in DOMAIN s PROVE \E j \in Firsts(s) : s[j] = s[i]
  <2> DEFINE T == {j \in DOMAIN s : s[j] = s[i]}
  <2>1. T \subseteq Nat /\ T # {} BY <1>1
  <2>3. \A j \in T : j \in DOMAIN s /\ s[j] = s[i] OBVIOUS
  <2>4. \A j \in DOMAIN s : s[j] = s[i] => j \in T OBVIOUS
  <2>5. DOMAIN s \subseteq Nat OBVIOUS
  <2> HIDE DEF T
  <2>2. PICK j \in T : \A k \in T : j <= k BY <2>1, Smallest
  <2>6. j \in DOMAIN s /\ s[j] = s[i] BY <2>3
  <2>7. \A k \in DOMAIN s : k < j => s[k] # s[j] BY <2>2, <2>4, <2>5, <2>6
  <2> QED BY <2>6, <2>7 DEF Firsts
<1> QED BY <1>1 DEF Firsts

\* Sorted lists the wanted of finitely many pages, shallow ones first.
LEMMA SortedLists ==
  ASSUME NEW P \in SUBSET Pages, IsFiniteSet({p \in P : Wanted(p)})
  PROVE  /\ Sorted(P) \in Seq(Pages)
         /\ Range(Sorted(P)) = {p \in P : Wanted(p)}
         /\ \A j, k \in DOMAIN Sorted(P) : j < k => Place[Sorted(P)[j]] < Place[Sorted(P)[k]]
<1> DEFINE kept == {p \in P : Wanted(p)}
           I == {Place[p] : p \in kept}
           c == Cardinality(I)
           o == Ordered(I)
           s == Sorted(P)
           f == [p \in kept |-> Place[p]]
<1>1. kept \in SUBSET Pages /\ IsFiniteSet(kept) OBVIOUS
<1>2. I \in SUBSET Nat BY <1>1, CrawlAssumption
<1>3. \A p, q \in kept : Place[p] = Place[q] => p = q BY <1>1, CrawlAssumption
<1>4. \A i \in I : \E p \in kept : Place[p] = i OBVIOUS
<1>5. \A p \in kept : Place[p] \in I OBVIOUS
<1>6. s = [k \in DOMAIN o |-> CHOOSE p \in kept : Place[p] = o[k]] BY DEF Sorted
<1>7. \A p \in P : p \in kept <=> Wanted(p) OBVIOUS
<1>8. IsFiniteSet(I)
  <2>1. f \in Surjection(kept, I) BY <1>5 DEF Surjection
  <2> HIDE DEF f, I, kept
  <2> QED BY <1>1, <2>1, FS_Surjection
<1> HIDE DEF I
<1>9. /\ c \in Nat /\ o \in [1..c -> I]
      /\ \A i \in I : \E k \in 1..c : o[k] = i
      /\ \A j, k \in 1..c : j < k => o[j] < o[k]
  BY <1>2, <1>8, OrderedLists
<1> HIDE DEF c, o, kept, s, f
<1>10. ASSUME NEW k \in 1..c PROVE s[k] \in kept /\ Place[s[k]] = o[k]
  <2>1. s[k] = CHOOSE p \in kept : Place[p] = o[k] BY <1>6, <1>9
  <2>2. \E p \in kept : Place[p] = o[k] BY <1>4, <1>9
  <2> QED BY <2>1, <2>2
<1>11. DOMAIN s = 1..c /\ s = [k \in DOMAIN s |-> s[k]] BY <1>6, <1>9
<1>12. s \in Seq(Pages) BY <1>1, <1>9, <1>10, <1>11
<1>13. \A p \in kept : \E k \in 1..c : s[k] = p BY <1>3, <1>5, <1>9, <1>10
<1>14. Range(s) = kept BY <1>10, <1>11, <1>13 DEF Range
<1>15. \A j, k \in DOMAIN s : j < k => Place[s[j]] < Place[s[k]] BY <1>9, <1>10, <1>11
<1> QED BY <1>12, <1>14, <1>15 DEF kept, s

-----------------------------------------------------------------------------
(* The site                                                                *)

\* What a site is made of.
LEMMA SiteType ==
  ASSUME site \in Sites
  PROVE  /\ \A m \in Maps : site.lists[m] \in Seq(Pages \cup Maps)
         /\ \A p \in Pages : site.links[p] \in Seq(Pages) /\ Clean[p] \in Pages
         /\ Candidates \in Seq(Maps)
<1>1. /\ site.declared \in Seq(Maps) /\ site.lists \in [Maps -> Seq(Pages \cup Maps)]
      /\ site.links \in [Pages -> Seq(Pages)]
  BY CrawlAssumption
<1>2. Clean \in [Pages -> Pages] /\ Own \in Seq(Maps) BY CrawlAssumption
<1> DEFINE all == site.declared \o Own
<1>3. all \in Seq(Maps) BY <1>1, <1>2
<1>4. Candidates = At(all, Firsts(all)) BY DEF Candidates
<1> HIDE DEF all
<1>5. Candidates \in Seq(Maps) BY <1>3, <1>4, FirstsAreThere, AtGives
<1> QED BY <1>1, <1>2, <1>5

\* The pages that q links to.
Targets(q) == {Clean[p] : p \in Range(site.links[q])}

\* What is near is what is nearer, and what that links to.
LEMMA NearDef ==
  ASSUME site \in Sites
  PROVE  /\ Near[0] = {Root} /\ \A n \in Nat : Near[n] \in SUBSET Pages
         /\ \A n \in Nat : Near[n + 1] = Near[n] \cup UNION {Targets(q) : q \in {r \in Near[n] : Reads(r)}}
<1> DEFINE V == SUBSET Pages
           more(N) == N \cup UNION {Targets(q) : q \in {r \in N : Reads(r)}}
           step == [x \in Nat \X V |-> more(x[2])]
           Def(f) == f = [n \in Nat |-> IF n = 0 THEN {Root} ELSE more(f[n - 1])]
<1>1. \A q \in Pages : Targets(q) \in V
  <2> TAKE q \in Pages
  <2>1. site.links[q] \in Seq(Pages) /\ \A p \in Pages : Clean[p] \in Pages BY SiteType
  <2> QED BY <2>1 DEF Targets, Range
<1>2. \A N \in V : more(N) \in V BY <1>1
<1>3. {Root} \in V BY CrawlAssumption
<1> HIDE DEF more
<1>4. step \in [Nat \X V -> V] BY <1>2
<1>5. \A n \in Nat, N \in V : step[<<n, N>>] = more(N) OBVIOUS
<1> HIDE DEF step, V
<1>6. \E f : Runs(f, V, {Root}, step) BY <1>3, <1>4, Recursion
<1>7. PICK f \in [Nat -> V] : f[0] = {Root} /\ \A n \in Nat : f[n + 1] = step[<<n, f[n]>>]
  BY <1>6 DEF Runs
<1>8. Def(f)
  <2>1. ASSUME NEW n \in Nat, n # 0 PROVE f[n] = more(f[n - 1])
    <3>1. n - 1 \in Nat /\ (n - 1) + 1 = n BY <2>1
    <3>2. f[n - 1] \in V /\ f[(n - 1) + 1] = step[<<n - 1, f[n - 1]>>] BY <1>7, <3>1
    <3> QED BY <1>5, <3>1, <3>2
  <2>2. f = [n \in Nat |-> f[n]] BY <1>7
  <2> QED BY <1>7, <2>1, <2>2
<1>9. Def(Near) /\ Near \in [Nat -> V]
  <2>1. Near = CHOOSE g : Def(g) BY DEF Near, more, Targets
  <2> HIDE DEF Def
  <2>2. Def(Near) BY <1>8, <2>1
  <2>3. ASSUME NEW g, Def(g) PROVE g \in [Nat -> V]
    <3>1. g = [n \in Nat |-> g[n]] /\ \A n \in Nat : g[n] = IF n = 0 THEN {Root} ELSE more(g[n - 1])
      BY <2>3 DEF Def
    <3> DEFINE typed == [n \in Nat |-> g[n] \in V]
    <3>2. typed[0] BY <1>3, <3>1
    <3>3. ASSUME NEW n \in Nat, typed[n] PROVE typed[n + 1]
      <4>1. n + 1 \in Nat /\ n + 1 # 0 /\ (n + 1) - 1 = n OBVIOUS
      <4>2. g[n + 1] = more(g[n]) BY <3>1, <4>1
      <4>3. g[n] \in V BY <3>3
      <4> QED BY <1>2, <4>1, <4>2, <4>3 DEF V
    <3>4. typed \in [Nat -> BOOLEAN] OBVIOUS
    <3>5. \A n \in Nat : typed[n]
      <4> HIDE DEF typed
      <4> QED BY <3>2, <3>3, <3>4, Induction
    <3> QED BY <3>1, <3>5
  <2> QED BY <2>2, <2>3
<1>10. ASSUME NEW n \in Nat PROVE Near[n + 1] = more(Near[n])
  <2>1. n + 1 \in Nat /\ n + 1 # 0 /\ (n + 1) - 1 = n OBVIOUS
  <2>2. Near[n + 1] = more(Near[(n + 1) - 1]) BY <1>9, <2>1
  <2> QED BY <2>1, <2>2
<1>11. Near[0] = {Root} BY <1>9
<1>12. \A n \in Nat : Near[n] \in V BY <1>9
<1> QED BY <1>10, <1>11, <1>12 DEF V, more

\* Nearer pages are among the nearer and the farther.
LEMMA NearGrows ==
  ASSUME site \in Sites
  PROVE  \A n, m \in Nat : n <= m => Near[n] \subseteq Near[m]
<1> DEFINE holds == [m \in Nat |-> \A n \in Nat : n <= m => Near[n] \subseteq Near[m]]
<1>1. holds[0] OBVIOUS
<1>2. ASSUME NEW m \in Nat, holds[m] PROVE holds[m + 1]
  <2>1. m + 1 \in Nat OBVIOUS
  <2>2. Near[m] \subseteq Near[m + 1] BY NearDef
  <2>3. ASSUME NEW n \in Nat, n <= m + 1 PROVE Near[n] \subseteq Near[m + 1]
    <3>1. CASE n = m + 1 BY <3>1
    <3>2. CASE n # m + 1
      <4>1. n <= m BY <2>3, <3>2
      <4> QED BY <1>2, <2>2, <4>1
    <3> QED BY <3>1, <3>2
  <2> QED BY <2>1, <2>3
<1>3. holds \in [Nat -> BOOLEAN] OBVIOUS
<1>4. \A m \in Nat : holds[m]
  <2> HIDE DEF holds
  <2> QED BY <1>1, <1>2, <1>3, Induction
<1> QED BY <1>4

\* The sitemaps of a site are the least complete set of sitemaps.
LEMMA KnownIsLeast ==
  ASSUME site \in Sites
  PROVE  /\ Known \in SUBSET Maps /\ Complete(Known)
         /\ \A K \in SUBSET Maps : Complete(K) => Known \subseteq K
<1>1. Range(Candidates) \subseteq Maps
  <2>1. Candidates \in Seq(Maps) BY SiteType
  <2> QED BY <2>1 DEF Range
<1>2. Range(Candidates) \cap Home \subseteq Known BY <1>1 DEF Known, Complete
<1>3. ASSUME NEW m \in Known, Reads(m) PROVE Range(site.lists[m]) \cap Maps \cap Home \subseteq Known
  <2>1. \A K \in SUBSET Maps : Complete(K) => m \in K BY DEF Known
  <2>2. \A K \in SUBSET Maps : Complete(K) => Range(site.lists[m]) \cap Maps \cap Home \subseteq K
    BY <1>3, <2>1 DEF Complete
  <2> QED BY <2>2 DEF Known
<1> QED BY <1>2, <1>3 DEF Known, Complete

\* While the site stays, what is said of it stays.
LEMMA SiteStays ==
  ASSUME site' = site
  PROVE  /\ \A x : Reads(x)' = Reads(x) /\ Wanted(x)' = Wanted(x)
         /\ Candidates' = Candidates /\ Known' = Known /\ Declared' = Declared
         /\ \A P : Sorted(P)' = Sorted(P)
<1>1. Barred' = Barred BY DEF Barred
<1>2. \A x : Reads(x)' = Reads(x) /\ Wanted(x)' = Wanted(x) BY <1>1 DEF Reads, Wanted
<1>3. Candidates' = Candidates BY DEF Candidates
<1>4. \A K : Complete(K)' = Complete(K) BY <1>2, <1>3 DEF Complete
<1>5. Known' = Known BY <1>4 DEF Known
<1>6. Declared' = Declared BY <1>2, <1>5 DEF Declared
<1>7. ASSUME NEW P PROVE Sorted(P)' = Sorted(P)
  <2> DEFINE listed(kept) == LET places == Ordered({Place[p] : p \in kept})
                             IN [k \in DOMAIN places |-> CHOOSE p \in kept : Place[p] = places[k]]
  <2>1. {q \in P : Wanted(q)'} = {q \in P : Wanted(q)} BY <1>2
  <2>2. Sorted(P) = listed({q \in P : Wanted(q)}) BY DEF Sorted
  <2>3. Sorted(P)' = listed({q \in P : Wanted(q)'}) BY DEF Sorted
  <2> HIDE DEF listed
  <2> QED BY <2>1, <2>2, <2>3
<1> QED BY <1>2, <1>3, <1>5, <1>6, <1>7

LEMMA NearStays ==
  ASSUME site' = site
  PROVE  Near' = Near
<1> DEFINE more(N, links, lost) ==
             N \cup UNION {{Clean[p] : p \in Range(links[q])} : q \in {r \in N : r \notin lost}}
           Def(f, links, lost) ==
             f = [n \in Nat |-> IF n = 0 THEN {Root} ELSE more(f[n - 1], links, lost)]
<1>1. Near = CHOOSE f : Def(f, site.links, Barred \cup site.broken) BY DEF Near, Reads
<1>2. Near' = CHOOSE f : Def(f, site'.links, Barred' \cup site'.broken) BY DEF Near, Reads
<1>3. Barred' = Barred BY DEF Barred
<1> HIDE DEF Def
<1> QED BY <1>1, <1>2, <1>3

\* What is kept of two sets is the same if the same of them is wanted.
LEMMA SameWanted ==
  ASSUME NEW P, NEW Q, {p \in P : Wanted(p)} = {p \in Q : Wanted(p)}
  PROVE  Sorted(P) = Sorted(Q)
<1> DEFINE listed(kept) == LET places == Ordered({Place[p] : p \in kept})
                           IN [k \in DOMAIN places |-> CHOOSE p \in kept : Place[p] = places[k]]
<1>1. Sorted(P) = listed({p \in P : Wanted(p)}) BY DEF Sorted
<1>2. Sorted(Q) = listed({p \in Q : Wanted(p)}) BY DEF Sorted
<1> HIDE DEF listed
<1> QED BY <1>1, <1>2

-----------------------------------------------------------------------------
(* Sequences                                                               *)

LEMMA RangeOf ==
  ASSUME NEW V, NEW s \in Seq(V), NEW t \in Seq(V)
  PROVE  /\ Range(s) \subseteq V
         /\ s \o t \in Seq(V) /\ Len(s \o t) = Len(s) + Len(t)
         /\ Range(s \o t) = Range(s) \cup Range(t)
<1>1. s \o t \in Seq(V) /\ Len(s \o t) = Len(s) + Len(t) /\ Len(s) \in Nat /\ Len(t) \in Nat OBVIOUS
<1>2. \A i \in 1..(Len(s) + Len(t)) : (s \o t)[i] = IF i <= Len(s) THEN s[i] ELSE t[i - Len(s)]
  OBVIOUS
<1>3. Range(s) = {s[i] : i \in 1..Len(s)} /\ Range(t) = {t[i] : i \in 1..Len(t)} BY DEF Range
<1>4. Range(s \o t) = {(s \o t)[i] : i \in 1..(Len(s) + Len(t))} BY <1>1 DEF Range
<1>5. \A i \in 1..Len(s) : i \in 1..(Len(s) + Len(t)) /\ (s \o t)[i] = s[i] BY <1>1, <1>2
<1>6. \A i \in 1..Len(t) : i + Len(s) \in 1..(Len(s) + Len(t)) /\ (s \o t)[i + Len(s)] = t[i]
  BY <1>1, <1>2
<1>7. \A i \in 1..(Len(s) + Len(t)) : (s \o t)[i] \in Range(s) \cup Range(t) BY <1>1, <1>2, <1>3
<1>8. Range(s \o t) \subseteq Range(s) \cup Range(t) BY <1>4, <1>7
<1>9. Range(s) \subseteq Range(s \o t) BY <1>3, <1>4, <1>5
<1>10. ASSUME NEW i \in 1..Len(t) PROVE t[i] \in Range(s \o t)
  <2>1. i + Len(s) \in 1..(Len(s) + Len(t)) /\ (s \o t)[i + Len(s)] = t[i] BY <1>6
  <2> QED BY <1>4, <2>1
<1>11. Range(t) \subseteq Range(s \o t) BY <1>3, <1>10
<1>12. Range(s) \subseteq V BY <1>3
<1> QED BY <1>1, <1>8, <1>9, <1>11, <1>12

LEMMA RangeOfTail ==
  ASSUME NEW V, NEW s \in Seq(V), s # <<>>
  PROVE  /\ Head(s) = s[1] /\ Head(s) \in V /\ Tail(s) \in Seq(V) /\ Len(s) \in Nat \ {0}
         /\ Len(Tail(s)) = Len(s) - 1 /\ \A i \in 1..(Len(s) - 1) : Tail(s)[i] = s[i + 1]
         /\ Range(s) = {Head(s)} \cup Range(Tail(s))
<1>1. /\ Head(s) = s[1] /\ Head(s) \in V /\ Tail(s) \in Seq(V) /\ Len(s) \in Nat \ {0}
      /\ Len(Tail(s)) = Len(s) - 1 /\ \A i \in 1..(Len(s) - 1) : Tail(s)[i] = s[i + 1]
  OBVIOUS
<1> DEFINE t == Tail(s)
<1>7. DOMAIN s = 1..Len(s) /\ DOMAIN t = 1..(Len(s) - 1) BY <1>1
<1> HIDE DEF t
<1>2. Range(s) = {s[i] : i \in 1..Len(s)} /\ Range(t) = {t[i] : i \in 1..(Len(s) - 1)}
  BY <1>7 DEF Range
<1>3. \A i \in 1..Len(s) : i = 1 \/ (i - 1 \in 1..(Len(s) - 1) /\ (i - 1) + 1 = i) OBVIOUS
<1>4. \A i \in 1..Len(s) : i = 1 \/ (i - 1 \in 1..(Len(s) - 1) /\ Tail(s)[i - 1] = s[i]) BY <1>1, <1>3
<1>5. \A i \in 1..(Len(s) - 1) : i + 1 \in 1..Len(s) /\ Tail(s)[i] = s[i + 1] BY <1>1
<1>6. 1 \in 1..Len(s) BY <1>1
<1>8. Range(s) \subseteq {s[1]} \cup Range(t) BY <1>2, <1>4 DEF t
<1>9. \A i \in 1..(Len(s) - 1) : t[i] \in Range(s) BY <1>2, <1>5 DEF t
<1>10. {s[1]} \cup Range(t) \subseteq Range(s) BY <1>2, <1>6, <1>9
<1> QED BY <1>1, <1>8, <1>10 DEF t

\* A sequence has finitely many elements.
LEMMA RangeIsFinite ==
  ASSUME NEW V, NEW s \in Seq(V)
  PROVE  IsFiniteSet(Range(s))
<1> DEFINE D == 1..Len(s)
           R == Range(s)
<1>1. Len(s) \in Nat /\ DOMAIN s = D OBVIOUS
<1>2. IsFiniteSet(D) BY <1>1, FS_Interval
<1>3. s \in [D -> R] /\ \A x \in R : \E i \in D : s[i] = x BY <1>1 DEF Range
<1>4. s \in Surjection(D, R) BY <1>3 DEF Surjection
<1> HIDE DEF D, R
<1> QED BY <1>2, <1>4, FS_Surjection DEF R

-----------------------------------------------------------------------------
(* How a discovery ends                                                    *)

\* What was found is kept, sorted.
LEMMA FilteredLists ==
  ASSUME site \in Sites, found \in Seq(Pages)
  PROVE  /\ {Clean[p] : p \in Range(found)} \in SUBSET Pages
         /\ Filtered \in Seq(Pages)
         /\ Range(Filtered) = {q \in {Clean[p] : p \in Range(found)} : Wanted(q)}
         /\ \A j, k \in DOMAIN Filtered : j < k => Place[Filtered[j]] < Place[Filtered[k]]
<1> DEFINE R == Range(found)
           C == {Clean[p] : p \in R}
           W == {q \in C : Wanted(q)}
           f == [p \in R |-> Clean[p]]
<1>1. IsFiniteSet(R) /\ R \subseteq Pages BY RangeIsFinite DEF Range
<1>2. \A p \in Pages : Clean[p] \in Pages BY SiteType
<1> HIDE DEF R
<1>3. C \in SUBSET Pages BY <1>1, <1>2
<1>4. IsFiniteSet(C)
  <2>1. f \in Surjection(R, C) BY DEF Surjection
  <2> HIDE DEF f, C
  <2> QED BY <1>1, <2>1, FS_Surjection
<1>5. IsFiniteSet(W)
  <2>1. W \in SUBSET C OBVIOUS
  <2> HIDE DEF W, C
  <2> QED BY <1>4, <2>1, FS_Subset
<1>6. Filtered = Sorted(C) BY DEF Filtered, R
<1> HIDE DEF C
<1>7. /\ Sorted(C) \in Seq(Pages) /\ Range(Sorted(C)) = W
      /\ \A j, k \in DOMAIN Sorted(C) : j < k => Place[Sorted(C)[j]] < Place[Sorted(C)[k]]
  BY <1>3, <1>5, SortedLists
<1> QED BY <1>3, <1>6, <1>7 DEF C, R

\* A discovery that ends with what was found ends well, if that is all there
\* is whenever it did not end on its bounds.
LEMMA EndsWell ==
  ASSUME site \in Sites, policy \in Policies, found \in Seq(Pages), site' = site, policy' = policy,
         NEW source, result' = Concluded(source), ~short' => Filtered = Whole
  PROVE  FindsWhatIsThere'
<1> DEFINE n == IF Len(Filtered) > policy.pages THEN policy.pages ELSE Len(Filtered)
           u == SubSeq(Filtered, 1, n)
<1>1. policy.pages \in Nat \ {0} BY CrawlAssumption
<1>2. /\ Filtered \in Seq(Pages) /\ \A i \in DOMAIN Filtered : Wanted(Filtered[i])
      /\ \A j, k \in DOMAIN Filtered : j < k => Place[Filtered[j]] < Place[Filtered[k]]
  BY FilteredLists DEF Range
<1>3. result'.urls = u /\ result'.capped = (Len(Filtered) > policy.pages) BY DEF Concluded
<1>4. /\ Len(Filtered) \in Nat /\ n \in 0..Len(Filtered) /\ n <= policy.pages
      /\ DOMAIN Filtered = 1..Len(Filtered)
  BY <1>1, <1>2
<1>5. Len(u) = n /\ DOMAIN u = 1..n /\ \A i \in 1..n : u[i] = Filtered[i] /\ i \in DOMAIN Filtered
  <2> HIDE DEF n
  <2> QED BY <1>2, <1>4
<1>6. Whole' = Whole
  <2>1. Linked' = Linked BY NearStays DEF Linked
  <2>2. Sorted(Declared)' = Sorted(Declared) /\ Sorted(Linked)' = Sorted(Linked)
    <3>1. \A P : Sorted(P)' = Sorted(P) BY SiteStays
    <3>2. Declared' = Declared BY SiteStays
    <3> QED BY <2>1, <3>1, <3>2
  <2>3. Declared' = Declared /\ \A p : Wanted(p)' = Wanted(p) BY SiteStays
  <2> QED BY <2>2, <2>3 DEF Whole
<1>7. ~short' => /\ result'.urls = SubSeq(Whole, 1, IF Len(Whole) > policy.pages THEN policy.pages ELSE Len(Whole))
                 /\ result'.capped <=> Len(Whole) > policy.pages
  BY <1>3
<1>8. Barred' = Barred BY DEF Barred
<1>9. \A i \in DOMAIN u : /\ Wanted(u[i])
                          /\ \A j \in DOMAIN u : i < j => Place[u[i]] < Place[u[j]]
  <2> HIDE DEF u, n
  <2> QED BY <1>2, <1>5
<1>10. Len(u) <= policy.pages BY <1>4, <1>5
<1> HIDE DEF u, n
<1> QED BY <1>3, <1>6, <1>7, <1>8, <1>9, <1>10 DEF FindsWhatIsThere, Wanted

-----------------------------------------------------------------------------
(* The inductive invariant                                                 *)

\* What the variables are in each stage.
TypeInv ==
  /\ site \in Sites /\ policy \in Policies /\ short \in BOOLEAN /\ found \in Seq(Pages)
  /\ stage \in {"idle", "sitemaps", "links", "done"}
  /\ stage = "idle" => queue = <<>> /\ seen = {} /\ found = <<>> /\ ~short
  /\ stage = "sitemaps" => queue \in Seq(Maps) /\ seen \subseteq Maps /\ ~short
  /\ stage = "links" => queue \in Seq([page : Pages, depth : Nat]) /\ seen \subseteq Pages

\* The sitemaps that are read or will be.
Heard == seen \cup Range(queue)

\* While sitemaps are read: what is known so far, and what it lists.
SitemapsInv ==
  stage = "sitemaps" =>
    /\ Range(Candidates) \subseteq Heard /\ Heard \cap Home \subseteq Known
    /\ \A m \in seen \cap Home : Reads(m) =>
         /\ Range(site.lists[m]) \cap Maps \subseteq Heard
         /\ \A p \in Range(site.lists[m]) \cap Pages : Clean[p] \in Under => p \in Range(found)
    /\ \A p \in Range(found) : \E m \in Known : Reads(m) /\ p \in Range(site.lists[m])

\* Where an entry of the queue stands: as near as its depth says, and no nearer.
Stands(x) ==
  /\ x.page \in seen /\ x.depth <= policy.depth /\ x.page \in Near[x.depth]
  /\ x.depth > 0 => x.page \notin Near[x.depth - 1]

\* While links are followed: nothing is declared, what was found is what was
\* seen, the queue rises by one depth at most, all that is nearer than its
\* head has been seen, and so has what the pages that left it link to.
LinksInv ==
  stage = "links" =>
    /\ ~short => \A p \in Declared : ~Wanted(p)
    /\ seen = Range(found) /\ Root \in seen /\ seen \subseteq Near[policy.depth]
    /\ \A i \in DOMAIN queue : Stands(queue[i]) /\ queue[i].depth <= queue[1].depth + 1
    /\ \A i, j \in DOMAIN queue : i < j => queue[i].depth <= queue[j].depth
    /\ queue # <<>> => Near[queue[1].depth] \subseteq seen
    /\ \A q \in seen : (\A i \in DOMAIN queue : queue[i].page # q) /\ policy.depth > 0 /\ Reads(q)
                       /\ q \in Near[policy.depth - 1] => Targets(q) \subseteq seen

IInv == TypeInv /\ SitemapsInv /\ LinksInv /\ FindsWhatIsThere

LEMMA InitKeeps == DiscoveryInit => IInv
<1> SUFFICES ASSUME DiscoveryInit PROVE IInv OBVIOUS
<1>1. stage = "idle" /\ stage # "sitemaps" /\ stage # "links" /\ stage # "done" BY DEF DiscoveryInit
<1>2. TypeInv
  <2>1. <<>> \in Seq(Pages) OBVIOUS
  <2> QED BY <1>1, <2>1 DEF DiscoveryInit, TypeInv
<1> QED BY <1>1, <1>2 DEF IInv, SitemapsInv, LinksInv, FindsWhatIsThere

LEMMA StartKeeps ==
  ASSUME IInv, Start PROVE IInv'
<1>1. /\ site' = site /\ policy' = policy /\ site \in Sites /\ policy \in Policies
      /\ seen' = {} /\ short' = FALSE /\ found' = <<>> /\ found' \in Seq(Pages)
  BY DEF IInv, TypeInv, Start
<1>2. CASE Root \in Barred
  <2>1. stage' = "done" /\ result'.allowed = FALSE BY <1>2 DEF Start, NoPages
  <2> QED BY <1>1, <2>1 DEF IInv, TypeInv, SitemapsInv, LinksInv, FindsWhatIsThere
<1>3. CASE Root \notin Barred
  <2>1. stage' = "sitemaps" /\ queue' = Candidates BY <1>3 DEF Start
  <2>2. Candidates \in Seq(Maps) BY <1>1, SiteType
  <2>3. TypeInv' BY <1>1, <2>1, <2>2 DEF TypeInv
  <2>4. Heard' = Range(Candidates) BY <1>1, <2>1 DEF Heard
  <2>5. Range(Candidates) \cap Home \subseteq Known BY <1>1, KnownIsLeast DEF Complete
  <2>6. Candidates' = Candidates /\ Known' = Known BY <1>1, SiteStays
  <2>7. Range(found') = {} BY <1>1 DEF Range
  <2>8. SitemapsInv' BY <1>1, <2>4, <2>5, <2>6, <2>7 DEF SitemapsInv
  <2> QED BY <2>1, <2>3, <2>8 DEF IInv, LinksInv, FindsWhatIsThere
<1> QED BY <1>2, <1>3

LEMMA ReadKeeps ==
  ASSUME IInv, ReadSitemap PROVE IInv'
<1> DEFINE m == Head(queue)
           listed == IF Follows(m) /\ Reads(m) THEN site.lists[m] ELSE <<>>
           rest == Tail(queue)
           M == {i \in DOMAIN listed : listed[i] \in Maps}
           P == {i \in DOMAIN listed : listed[i] \in Pages /\ Clean[listed[i]] \in Under}
           L == Range(listed)
<1>1. /\ site' = site /\ policy' = policy /\ stage' = stage /\ short' = short
      /\ site \in Sites /\ policy \in Policies /\ stage = "sitemaps" /\ queue # <<>>
      /\ queue \in Seq(Maps) /\ seen \subseteq Maps /\ short = FALSE /\ found \in Seq(Pages)
  BY DEF IInv, TypeInv, ReadSitemap
<1>2. /\ queue' = rest \o At(listed, M) /\ found' = found \o At(listed, P) /\ seen' = seen \cup {m}
  BY DEF ReadSitemap
<1>3. m \in Maps /\ rest \in Seq(Maps) /\ Range(queue) = {m} \cup Range(rest)
  BY <1>1, RangeOfTail
<1>4. listed \in Seq(Pages \cup Maps) BY <1>1, <1>3, SiteType
<1>5. (L = {} \/ (m \notin seen /\ m \in Home /\ Reads(m) /\ L = Range(site.lists[m])))
      /\ (m \notin seen /\ m \in Home /\ Reads(m) => L = Range(site.lists[m]))
  BY DEF Follows, Range
<1> HIDE DEF m, rest, listed
<1>6. M \in SUBSET DOMAIN listed /\ P \in SUBSET DOMAIN listed OBVIOUS
<1>7. Range(At(listed, M)) = L \cap Maps
  <2>1. Range(At(listed, M)) = {listed[i] : i \in M} BY <1>4, <1>6, AtGives
  <2> QED BY <2>1 DEF Range
<1>8. Range(At(listed, P)) = {p \in L \cap Pages : Clean[p] \in Under}
  <2>1. Range(At(listed, P)) = {listed[i] : i \in P} BY <1>4, <1>6, AtGives
  <2> QED BY <2>1 DEF Range
<1>9. At(listed, M) \in Seq(Maps)
  <2>1. At(listed, M) \in Seq(Pages \cup Maps) BY <1>4, <1>6, AtGives
  <2>2. \A i \in DOMAIN At(listed, M) : At(listed, M)[i] \in Maps BY <1>7 DEF Range
  <2> HIDE DEF M
  <2> QED BY <2>1, <2>2
<1>10. At(listed, P) \in Seq(Pages)
  <2>1. At(listed, P) \in Seq(Pages \cup Maps) BY <1>4, <1>6, AtGives
  <2>2. \A i \in DOMAIN At(listed, P) : At(listed, P)[i] \in Pages BY <1>8 DEF Range
  <2> HIDE DEF P
  <2> QED BY <2>1, <2>2
<1> HIDE DEF M, P
<1>11. queue' \in Seq(Maps) /\ Range(queue') = Range(rest) \cup (L \cap Maps)
  BY <1>2, <1>3, <1>7, <1>9, RangeOf
<1>12. /\ found' \in Seq(Pages)
       /\ Range(found') = Range(found) \cup {p \in L \cap Pages : Clean[p] \in Under}
  BY <1>1, <1>2, <1>8, <1>10, RangeOf
<1> HIDE DEF L
<1>13. TypeInv'
  <2>1. seen' \subseteq Maps BY <1>1, <1>2, <1>3
  <2>2. stage' = "sitemaps" /\ stage' # "idle" /\ stage' # "links" BY <1>1
  <2> QED BY <1>1, <1>11, <1>12, <2>1, <2>2 DEF TypeInv
<1>14. Heard' = Heard \cup (L \cap Maps) BY <1>2, <1>3, <1>11 DEF Heard
<1>15. /\ Candidates' = Candidates /\ Known' = Known /\ \A x : Reads(x)' = Reads(x)
  BY <1>1, SiteStays
<1>16. /\ Range(Candidates) \subseteq Heard /\ Heard \cap Home \subseteq Known
       /\ \A k \in seen \cap Home : Reads(k) =>
            /\ Range(site.lists[k]) \cap Maps \subseteq Heard
            /\ \A p \in Range(site.lists[k]) \cap Pages : Clean[p] \in Under => p \in Range(found)
       /\ \A p \in Range(found) : \E k \in Known : Reads(k) /\ p \in Range(site.lists[k])
  BY <1>1 DEF IInv, SitemapsInv
<1>17. m \in Home => m \in Known BY <1>3, <1>16 DEF Heard
<1>18. Heard' \cap Home \subseteq Known
  <2>1. L \cap Maps \cap Home \subseteq Known BY <1>1, <1>5, <1>17, KnownIsLeast DEF Complete
  <2> QED BY <1>14, <1>16, <2>1
<1>19. ASSUME NEW k \in seen' \cap Home, Reads(k)
       PROVE  /\ Range(site.lists[k]) \cap Maps \subseteq Heard'
              /\ \A p \in Range(site.lists[k]) \cap Pages : Clean[p] \in Under => p \in Range(found')
  <2>1. CASE k \in seen BY <1>12, <1>14, <1>16, <1>19, <2>1
  <2>2. CASE k \notin seen
    <3>1. k = m BY <1>2, <1>19, <2>2
    <3>2. L = Range(site.lists[k]) BY <1>5, <1>19, <2>2, <3>1
    <3> QED BY <1>12, <1>14, <3>2
  <2> QED BY <2>1, <2>2
<1>20. ASSUME NEW p \in Range(found') PROVE \E k \in Known : Reads(k) /\ p \in Range(site.lists[k])
  <2>1. CASE p \in Range(found) BY <1>16, <2>1
  <2>2. CASE p \notin Range(found)
    <3>1. p \in L BY <1>12, <2>2
    <3> QED BY <1>5, <1>17, <3>1
  <2> QED BY <2>1, <2>2
<1>21. Range(Candidates) \subseteq Heard' BY <1>14, <1>16
<1>22. SitemapsInv'
  <2> HIDE DEF L
  <2>1. \A k \in seen' \cap Home : Reads(k)' =>
            /\ Range(site'.lists[k]) \cap Maps \subseteq Heard'
            /\ \A p \in Range(site'.lists[k]) \cap Pages : Clean[p] \in Under => p \in Range(found')
    BY <1>1, <1>15, <1>19
  <2>2. \A p \in Range(found') : \E k \in Known' : Reads(k)' /\ p \in Range(site'.lists[k])
    BY <1>1, <1>15, <1>20
  <2> QED BY <1>15, <1>18, <1>21, <2>1, <2>2 DEF SitemapsInv
<1> QED BY <1>1, <1>13, <1>22 DEF IInv, LinksInv, FindsWhatIsThere

\* What is declared is what a known sitemap that can be read lists.
LEMMA DeclaredIs ==
  ASSUME NEW q
  PROVE  q \in Declared <=> \E p \in Pages : q = Clean[p] /\ \E k \in Known : Reads(k) /\ p \in Range(site.lists[k])
<1> DEFINE U == UNION {Range(site.lists[m]) : m \in {k \in Known : Reads(k)}}
<1>1. Declared = {Clean[p] : p \in Pages \cap U} BY DEF Declared
<1>2. \A p : p \in U <=> \E k \in Known : Reads(k) /\ p \in Range(site.lists[k]) OBVIOUS
<1> HIDE DEF U
<1> QED BY <1>1, <1>2

\* When nothing waits, what was read is all there is to read, and lists what
\* is declared.
LEMMA ReadIsAll ==
  ASSUME site \in Sites, Heard = seen, Heard \subseteq Maps,
         Range(Candidates) \subseteq Heard, Heard \cap Home \subseteq Known,
         \A k \in seen \cap Home : Reads(k) =>
            /\ Range(site.lists[k]) \cap Maps \subseteq Heard
            /\ \A p \in Range(site.lists[k]) \cap Pages : Clean[p] \in Under => p \in Range(found),
         \A p \in Range(found) : \E k \in Known : Reads(k) /\ p \in Range(site.lists[k]),
         found \in Seq(Pages)
  PROVE  /\ Filtered = Sorted(Declared)
         /\ Filtered = <<>> <=> \A p \in Declared : ~Wanted(p)
<1> DEFINE C == {Clean[p] : p \in Range(found)}
<1>1. Range(found) \subseteq Pages BY DEF Range
<1>2. Known = seen \cap Home
  <2>1. seen \cap Home \in SUBSET Maps OBVIOUS
  <2>2. Complete(seen \cap Home) BY DEF Complete
  <2> QED BY <2>1, <2>2, KnownIsLeast
<1>3. ASSUME NEW q \in C PROVE q \in Declared
  <2>1. PICK p \in Range(found) : q = Clean[p] OBVIOUS
  <2>2. PICK k \in Known : Reads(k) /\ p \in Range(site.lists[k]) OBVIOUS
  <2>3. p \in Pages BY <1>1
  <2> HIDE DEF C
  <2> QED BY <2>1, <2>2, <2>3, DeclaredIs
<1>4. ASSUME NEW q \in Declared, Wanted(q) PROVE q \in C
  <2>1. PICK p \in Pages : q = Clean[p] /\ \E k \in Known : Reads(k) /\ p \in Range(site.lists[k])
    BY DeclaredIs
  <2>2. PICK k \in Known : Reads(k) /\ p \in Range(site.lists[k]) BY <2>1
  <2>3. q \in Under BY <1>4 DEF Wanted
  <2>5. k \in seen \cap Home /\ Reads(k) BY <1>2, <2>2
  <2>6. \A x \in Range(site.lists[k]) \cap Pages : Clean[x] \in Under => x \in Range(found) BY <2>5
  <2>4. p \in Range(found) BY <2>1, <2>2, <2>3, <2>6
  <2> QED BY <2>1, <2>4
<1>5. Filtered = Sorted(C) BY DEF Filtered
<1> HIDE DEF C
<1>6. {p \in C : Wanted(p)} = {p \in Declared : Wanted(p)} BY <1>3, <1>4
<1>7. Filtered \in Seq(Pages) /\ Range(Filtered) = {p \in C : Wanted(p)} BY FilteredLists DEF C
<1>8. Filtered = <<>> <=> Range(Filtered) = {} BY <1>7 DEF Range
<1>9. Filtered = Sorted(Declared) BY <1>5, <1>6, SameWanted
<1> QED BY <1>6, <1>7, <1>8, <1>9

LEMMA SitemapsEndKeeps ==
  ASSUME IInv, SitemapsEnd PROVE IInv'
<1>1. /\ site' = site /\ policy' = policy /\ stage = "sitemaps" /\ short' = (queue # <<>>)
      /\ site \in Sites /\ policy \in Policies /\ found \in Seq(Pages)
      /\ queue \in Seq(Maps) /\ seen \subseteq Maps
  BY DEF IInv, TypeInv, SitemapsEnd
<1>2. ~short' => /\ Filtered = Sorted(Declared)
                 /\ Filtered = <<>> <=> \A p \in Declared : ~Wanted(p)
  <2> SUFFICES ASSUME queue = <<>>
               PROVE  /\ Filtered = Sorted(Declared)
                      /\ Filtered = <<>> <=> \A p \in Declared : ~Wanted(p)
    BY <1>1
  <2>1. Heard = seen BY DEF Heard, Range
  <2>2. Heard \subseteq Maps BY <1>1, <2>1
  <2>3. /\ Range(Candidates) \subseteq Heard /\ Heard \cap Home \subseteq Known
        /\ \A k \in seen \cap Home : Reads(k) =>
            /\ Range(site.lists[k]) \cap Maps \subseteq Heard
            /\ \A p \in Range(site.lists[k]) \cap Pages : Clean[p] \in Under => p \in Range(found)
        /\ \A p \in Range(found) : \E k \in Known : Reads(k) /\ p \in Range(site.lists[k])
    BY <1>1 DEF IInv, SitemapsInv
  <2> QED BY <1>1, <2>1, <2>2, <2>3, ReadIsAll
<1>3. CASE Filtered # <<>>
  <2>1. stage' = "done" /\ result' = Concluded("sitemap") /\ found' = found BY <1>3 DEF SitemapsEnd
  <2>2. ~short' => Filtered = Whole BY <1>2, <1>3 DEF Whole
  <2>3. FindsWhatIsThere' BY <1>1, <2>1, <2>2, EndsWell
  <2>4. TypeInv' BY <1>1, <2>1 DEF TypeInv
  <2> QED BY <2>1, <2>3, <2>4 DEF IInv, SitemapsInv, LinksInv
<1>4. CASE Filtered = <<>>
  <2> DEFINE x == [page |-> Root, depth |-> 0]
  <2>1. /\ stage' = "links" /\ queue' = <<x>> /\ seen' = {Root} /\ found' = <<Root>>
    BY <1>4 DEF SitemapsEnd
  <2>2. Root \in Pages /\ policy.depth \in Nat BY <1>1, CrawlAssumption
  <2>3. x \in [page : Pages, depth : Nat] /\ x.page = Root /\ x.depth = 0 BY <2>2
  <2> HIDE DEF x
  <2>4. queue' \in Seq([page : Pages, depth : Nat]) /\ DOMAIN queue' = {1} /\ queue'[1] = x
    BY <2>1, <2>3
  <2>5. found' \in Seq(Pages) /\ Range(found') = {Root} BY <2>1, <2>2 DEF Range
  <2>6. TypeInv' BY <1>1, <2>1, <2>2, <2>4, <2>5 DEF TypeInv
  <2>7. Near' = Near /\ Declared' = Declared /\ \A p : Wanted(p)' = Wanted(p)
    BY <1>1, SiteStays, NearStays
  <2>8. Near[0] = {Root} /\ Root \in Near[policy.depth]
    <3>1. Near[0] = {Root} BY <1>1, NearDef
    <3>2. Near[0] \subseteq Near[policy.depth] BY <1>1, <2>2, NearGrows
    <3> QED BY <3>1, <3>2
  <2>9. ~short' => \A p \in Declared' : ~Wanted(p)' BY <1>2, <1>4, <2>7
  <2>10. ASSUME NEW i \in DOMAIN queue'
         PROVE  Stands(queue[i])' /\ queue'[i].depth <= queue'[1].depth + 1
    <3>1. queue'[i] = x /\ queue'[1] = x BY <2>4
    <3>2. x.page \in seen' /\ x.depth <= policy'.depth /\ x.page \in Near'[x.depth] /\ ~(x.depth > 0)
      BY <1>1, <2>1, <2>2, <2>3, <2>7, <2>8
    <3> QED BY <2>3, <3>1, <3>2 DEF Stands
  <2>11. LinksInv'
    <3>1. \A i, j \in DOMAIN queue' : i < j => queue'[i].depth <= queue'[j].depth BY <2>4
    <3>2. Near'[queue'[1].depth] \subseteq seen' BY <2>1, <2>3, <2>4, <2>7, <2>8
    <3>3. \A q \in seen' : \E i \in DOMAIN queue' : queue'[i].page = q BY <2>1, <2>3, <2>4
    <3>4. seen' = Range(found') /\ Root \in seen' /\ seen' \subseteq Near'[policy'.depth]
      BY <1>1, <2>1, <2>5, <2>7, <2>8
    <3> QED BY <2>9, <2>10, <3>1, <3>2, <3>3, <3>4 DEF LinksInv
  <2> QED BY <2>1, <2>6, <2>11 DEF IInv, SitemapsInv, FindsWhatIsThere
<1> QED BY <1>3, <1>4

LEMMA FollowKeeps ==
  ASSUME IInv, FollowLinks PROVE IInv'
<1> DEFINE x == Head(queue)
           d == x.depth
           D == policy.depth
           follows == d < D /\ Reads(x.page)
           links == IF follows
                    THEN [i \in DOMAIN site.links[x.page] |-> Clean[site.links[x.page][i]]] ELSE <<>>
           I == {i \in Firsts(links) : links[i] \notin seen}
           new == At(links, I)
           N == Range(new)
           entries == [i \in DOMAIN new |-> [page |-> new[i], depth |-> d + 1]]
           Entry == [page : Pages, depth : Nat]
           rest == Tail(queue)
           n == Len(rest)
<1>1. /\ site' = site /\ policy' = policy /\ stage' = stage /\ short' = short
      /\ site \in Sites /\ policy \in Policies /\ stage = "links" /\ queue # <<>>
      /\ queue \in Seq(Entry) /\ seen \subseteq Pages /\ short \in BOOLEAN /\ found \in Seq(Pages)
  BY DEF IInv, TypeInv, FollowLinks
<1>2. D \in Nat BY <1>1, CrawlAssumption
<1>3. /\ queue' = rest \o entries /\ found' = found \o new /\ seen' = seen \cup N
  BY DEF FollowLinks, Queued
<1>4. /\ x = queue[1] /\ x \in Entry /\ rest \in Seq(Entry) /\ Len(queue) \in Nat \ {0}
      /\ n = Len(queue) - 1 /\ n \in Nat /\ \A i \in 1..n : rest[i] = queue[i + 1]
      /\ DOMAIN queue = 1..Len(queue)
  <2> HIDE DEF Entry
  <2>1. /\ x = queue[1] /\ x \in Entry /\ rest \in Seq(Entry) /\ Len(queue) \in Nat \ {0}
        /\ n = Len(queue) - 1 /\ \A i \in 1..(Len(queue) - 1) : rest[i] = queue[i + 1]
    BY <1>1, RangeOfTail
  <2> QED BY <2>1
<1>5. x.page \in Pages /\ d \in Nat BY <1>4
<1>6. links \in Seq(Pages) /\ Range(links) = IF follows THEN Targets(x.page) ELSE {}
  <2> DEFINE s == site.links[x.page]
             t == [i \in DOMAIN s |-> Clean[s[i]]]
  <2>1. s \in Seq(Pages) /\ \A p \in Pages : Clean[p] \in Pages BY <1>1, <1>5, SiteType
  <2>2. Targets(x.page) = {Clean[p] : p \in Range(s)} BY DEF Targets
  <2>3. links = IF follows THEN t ELSE <<>> OBVIOUS
  <2> HIDE DEF s, follows, links
  <2>4. t \in Seq(Pages) /\ Range(t) = {Clean[p] : p \in Range(s)} BY <2>1 DEF Range
  <2>5. <<>> \in Seq(Pages) /\ Range(<<>>) = {} BY DEF Range
  <2> HIDE DEF t
  <2> QED BY <2>2, <2>3, <2>4, <2>5
<1> HIDE DEF links, x, rest, Entry
<1>7. /\ new \in Seq(Pages) /\ N = Range(links) \ seen
  <2>1. I \in SUBSET DOMAIN links /\ \A i \in DOMAIN links : \E j \in Firsts(links) : links[j] = links[i]
    BY <1>6, FirstsAreThere
  <2>2. new \in Seq(Pages) /\ N = {links[i] : i \in I} BY <1>6, <2>1, AtGives
  <2>3. {links[i] : i \in I} = {links[i] : i \in DOMAIN links} \ seen BY <2>1
  <2> QED BY <2>2, <2>3 DEF Range
<1> HIDE DEF new
<1>8. /\ entries \in Seq(Entry) /\ Len(entries) = Len(new) /\ Len(new) \in Nat
      /\ \A i \in 1..Len(new) : entries[i].page = new[i] /\ entries[i].depth = d + 1
      /\ DOMAIN new = 1..Len(new)
  <2>1. Len(new) \in Nat /\ DOMAIN new = 1..Len(new) /\ \A i \in 1..Len(new) : new[i] \in Pages
    BY <1>7
  <2>2. entries = [i \in 1..Len(new) |-> [page |-> new[i], depth |-> d + 1]] BY <2>1
  <2>3. \A i \in 1..Len(new) : [page |-> new[i], depth |-> d + 1] \in Entry BY <1>5, <2>1 DEF Entry
  <2> QED BY <2>1, <2>2, <2>3
<1> HIDE DEF entries
<1>9. /\ queue' \in Seq(Entry) /\ DOMAIN queue' = 1..(n + Len(new))
      /\ \A i \in 1..n : queue'[i] = queue[i + 1]
      /\ \A i \in 1..(n + Len(new)) : i > n =>
           queue'[i].page = new[i - n] /\ queue'[i].depth = d + 1 /\ i - n \in 1..Len(new)
  <2>1. \A i \in 1..(n + Len(new)) : queue'[i] = IF i <= n THEN rest[i] ELSE entries[i - n]
    BY <1>3, <1>4, <1>8
  <2>2. queue' \in Seq(Entry) /\ Len(queue') = n + Len(new)
    <3>1. queue' \in Seq(Entry) BY <1>3, <1>4, <1>8, RangeOf
    <3>3. rest \in Seq(Entry) /\ entries \in Seq(Entry) BY <1>4, <1>8
    <3>2. Len(rest \o entries) = Len(rest) + Len(entries)
      <4> HIDE DEF n, N, d, D
      <4> QED BY <3>3, RangeOf
    <3> QED BY <1>3, <1>8, <3>1, <3>2
  <2>3. \A i \in 1..(n + Len(new)) : i > n => i - n \in 1..Len(new) BY <1>4, <1>8
  <2>4. \A i \in 1..n : i \in 1..(n + Len(new)) /\ i <= n BY <1>4, <1>8
  <2>5. DOMAIN queue' = 1..(n + Len(new)) BY <2>2
  <2>6. \A i \in 1..n : queue'[i] = queue[i + 1] BY <1>4, <2>1, <2>4
  <2>7. ASSUME NEW i \in 1..(n + Len(new)), i > n
        PROVE  queue'[i].page = new[i - n] /\ queue'[i].depth = d + 1 /\ i - n \in 1..Len(new)
    <3>1. queue'[i] = entries[i - n] BY <1>4, <2>1, <2>7
    <3>2. i - n \in 1..Len(new) BY <2>3, <2>7
    <3> QED BY <1>8, <3>1, <3>2
  <2> QED BY <2>2, <2>5, <2>6, <2>7
<1>10. found' \in Seq(Pages) /\ Range(found') = Range(found) \cup N /\ N \subseteq Pages
  BY <1>1, <1>3, <1>7, RangeOf
<1>11. TypeInv'
  <2>1. seen' \subseteq Pages BY <1>1, <1>3, <1>10
  <2>2. stage' = "links" /\ stage' # "idle" /\ stage' # "sitemaps" BY <1>1
  <2> QED BY <1>1, <1>9, <1>10, <2>1, <2>2 DEF TypeInv, Entry
<1>12. /\ ~short => \A p \in Declared : ~Wanted(p)
       /\ seen = Range(found) /\ Root \in seen /\ seen \subseteq Near[D]
       /\ \A i \in DOMAIN queue : Stands(queue[i]) /\ queue[i].depth <= queue[1].depth + 1
       /\ \A i, j \in DOMAIN queue : i < j => queue[i].depth <= queue[j].depth
       /\ Near[d] \subseteq seen
       /\ \A q \in seen : (\A i \in DOMAIN queue : queue[i].page # q) /\ D > 0 /\ Reads(q)
                          /\ q \in Near[D - 1] => Targets(q) \subseteq seen
  BY <1>1, <1>4 DEF IInv, LinksInv
<1>13. /\ Near' = Near /\ Declared' = Declared /\ \A p : Wanted(p)' = Wanted(p)
       /\ \A q : Reads(q)' = Reads(q) /\ Targets(q)' = Targets(q)
  BY <1>1, SiteStays, NearStays DEF Targets
<1>14. /\ x.page \in seen /\ d <= D /\ x.page \in Near[d]
       /\ d > 0 => x.page \notin Near[d - 1]
  <2>1. Stands(queue[1]) BY <1>4, <1>12
  <2> QED BY <1>4, <2>1 DEF Stands
<1>15. /\ d + 1 \in Nat /\ (d + 1) - 1 = d /\ d + 1 > 0 BY <1>5
<1>16. N # {} => d + 1 <= D /\ N \subseteq Near[d + 1]
  <2>1. CASE ~follows BY <1>6, <1>7, <2>1
  <2>2. CASE follows
    <3>1. d + 1 <= D BY <1>2, <1>5, <2>2
    <3>3. x.page \in {r \in Near[d] : Reads(r)} BY <1>14, <2>2
    <3>4. Near[d + 1] = Near[d] \cup UNION {Targets(q) : q \in {r \in Near[d] : Reads(r)}}
      BY <1>1, <1>5, NearDef
    <3>2. Targets(x.page) \subseteq Near[d + 1] BY <3>3, <3>4
    <3> QED BY <1>6, <1>7, <2>2, <3>1, <3>2
  <2> QED BY <2>1, <2>2
<1>17. ASSUME NEW i \in 1..(n + Len(new))
       PROVE  /\ queue'[i].page \in seen' /\ queue'[i].depth \in d..(d + 1) /\ queue'[i].depth <= D
              /\ queue'[i].page \in Near[queue'[i].depth]
              /\ queue'[i].depth > 0 => queue'[i].page \notin Near[queue'[i].depth - 1]
  <2>1. CASE i <= n
    <3> DEFINE y == queue[i + 1]
    <3>1. i \in 1..n /\ i + 1 \in DOMAIN queue /\ 1 \in DOMAIN queue /\ 1 < i + 1 BY <1>4, <1>8, <2>1
    <3>2. y \in Entry BY <1>1, <3>1
    <3>3. y.depth \in Nat BY <3>2 DEF Entry
    <3>4. Stands(y) /\ y.depth <= d + 1 /\ d <= y.depth BY <1>4, <1>12, <3>1
    <3>5. queue'[i] = y BY <1>9, <3>1
    <3> HIDE DEF y
    <3> QED BY <1>3, <1>5, <3>3, <3>4, <3>5 DEF Stands
  <2>2. CASE i > n
    <3>1. queue'[i].page = new[i - n] /\ queue'[i].depth = d + 1 /\ i - n \in 1..Len(new)
      BY <1>9, <2>2
    <3>2. queue'[i].page \in N BY <1>8, <3>1 DEF Range
    <3>3. queue'[i].page \notin Near[d] BY <1>7, <1>12, <3>2
    <3>4. queue'[i].page \in Near[d + 1] /\ d + 1 <= D BY <1>16, <3>2
    <3>5. d + 1 \in d..(d + 1) BY <1>5
    <3>6. queue'[i].page \in seen' BY <1>3, <3>2
    <3> HIDE DEF d, D, N, n
    <3> QED BY <1>15, <3>1, <3>3, <3>4, <3>5, <3>6
  <2>3. i <= n \/ i > n BY <1>4, <1>8
  <2> QED BY <2>1, <2>2, <2>3
<1>18. ASSUME NEW i \in 1..(n + Len(new)), NEW j \in 1..(n + Len(new)), i < j
       PROVE  queue'[i].depth <= queue'[j].depth
  <2>1. CASE j <= n
    <3>1. i \in 1..n /\ j \in 1..n /\ i + 1 \in DOMAIN queue /\ j + 1 \in DOMAIN queue /\ i + 1 < j + 1
      BY <1>4, <1>8, <1>18, <2>1
    <3>2. queue'[i] = queue[i + 1] /\ queue'[j] = queue[j + 1] BY <1>9, <3>1
    <3> QED BY <1>12, <3>1, <3>2
  <2>2. CASE j > n
    <3>1. queue'[j].depth = d + 1 BY <1>9, <2>2
    <3> QED BY <1>5, <1>17, <3>1
  <2>3. j <= n \/ j > n BY <1>4, <1>8
  <2> QED BY <2>1, <2>2, <2>3
<1>19. ASSUME NEW q \in seen', \A i \in DOMAIN queue' : queue'[i].page # q, D > 0, Reads(q), q \in Near[D - 1]
       PROVE  Targets(q) \subseteq seen'
  <2>1. q \notin N
    <3> SUFFICES ASSUME q \in N PROVE FALSE OBVIOUS
    <3>1. PICK i \in 1..Len(new) : new[i] = q BY <1>8 DEF Range
    <3>2. i + n \in 1..(n + Len(new)) /\ i + n > n /\ (i + n) - n = i BY <1>4, <1>8
    <3>3. queue'[i + n].page = q BY <1>9, <3>1, <3>2
    <3> QED BY <1>9, <1>19, <3>2, <3>3
  <2>2. q \in seen BY <1>3, <2>1
  <2>3. CASE \A i \in DOMAIN queue : queue[i].page # q BY <1>3, <1>12, <1>19, <2>2, <2>3
  <2>4. CASE \E i \in DOMAIN queue : queue[i].page = q
    <3>1. PICK i \in DOMAIN queue : queue[i].page = q BY <2>4
    <3>2. i = 1
      <4> SUFFICES ASSUME i # 1 PROVE FALSE OBVIOUS
      <4>1. i - 1 \in 1..n /\ (i - 1) + 1 = i /\ i - 1 \in 1..(n + Len(new)) BY <1>4, <1>8
      <4>2. queue'[i - 1] = queue[i] BY <1>9, <4>1
      <4> QED BY <1>9, <1>19, <3>1, <4>1, <4>2
    <3>3. q = x.page BY <1>4, <3>1, <3>2
    <3>4. d < D
      <4> SUFFICES ASSUME d = D PROVE FALSE BY <1>2, <1>5, <1>14
      <4> QED BY <1>14, <1>19, <3>3
    <3>5. Range(links) = Targets(q) BY <1>6, <1>19, <3>3, <3>4
    <3> QED BY <1>3, <1>7, <3>5
  <2> QED BY <2>3, <2>4
<1>20. ASSUME queue' # <<>> PROVE Near[queue'[1].depth] \subseteq seen'
  <2>1. 1 \in 1..(n + Len(new)) BY <1>4, <1>8, <1>9, <1>20
  <2> DEFINE h == queue'[1].depth
  <2>2. h \in d..(d + 1) /\ h <= D BY <1>17, <2>1
  <2>3. CASE h = d BY <1>3, <1>12, <2>3
  <2>4. CASE h = d + 1
    <3>1. Near[d + 1] = Near[d] \cup UNION {Targets(r) : r \in {q \in Near[d] : Reads(q)}}
      BY <1>1, <1>5, NearDef
    <3>2. ASSUME NEW r \in Near[d], Reads(r) PROVE Targets(r) \subseteq seen'
      <4>1. r \in seen' BY <1>3, <1>12
      <4>2. \A i \in 1..(n + Len(new)) : queue'[i].depth = d + 1
        <5> TAKE i \in 1..(n + Len(new))
        <5>1. i = 1 \/ 1 < i BY <1>4, <1>8
        <5>2. queue'[i].depth \in d..(d + 1) BY <1>17
        <5>3. 1 < i => d + 1 <= queue'[i].depth BY <1>18, <2>1, <2>4
        <5> HIDE DEF h
        <5> QED BY <1>5, <2>4, <5>1, <5>2, <5>3 DEF h
      <4>3. \A i \in DOMAIN queue' : queue'[i].page # r
        <5> TAKE i \in DOMAIN queue'
        <5>1. queue'[i].depth = d + 1 BY <1>9, <4>2
        <5>2. queue'[i].page \notin Near[d] BY <1>9, <1>15, <1>17, <5>1
        <5> QED BY <5>2
      <4>4. D > 0 /\ D - 1 \in Nat /\ d <= D - 1 BY <1>2, <1>5, <2>2, <2>4
      <4>5. Near[d] \subseteq Near[D - 1] BY <1>1, <1>5, <4>4, NearGrows
      <4> QED BY <1>19, <3>2, <4>1, <4>3, <4>4, <4>5
    <3> QED BY <1>3, <1>12, <2>4, <3>1, <3>2
  <2>5. h = d \/ h = d + 1 BY <1>5, <2>2
  <2> QED BY <2>3, <2>4, <2>5
<1>21. seen' = Range(found') /\ Root \in seen' /\ seen' \subseteq Near[D]
  <2>1. N # {} => Near[d + 1] \subseteq Near[D] BY <1>1, <1>2, <1>15, <1>16, NearGrows
  <2>2. N \subseteq Near[D] BY <1>16, <2>1
  <2> QED BY <1>3, <1>10, <1>12, <2>2
<1>22. LinksInv'
  <2>1. ASSUME NEW i \in DOMAIN queue'
        PROVE  Stands(queue[i])' /\ queue'[i].depth <= queue'[1].depth + 1
    <3>1. i \in 1..(n + Len(new)) /\ 1 \in 1..(n + Len(new)) BY <1>4, <1>8, <1>9
    <3>2. queue'[i].depth <= d + 1 /\ d <= queue'[1].depth /\ queue'[1].depth \in Nat /\ queue'[i].depth \in Nat
      BY <1>5, <1>17, <3>1
    <3>3. queue'[i].depth <= queue'[1].depth + 1 BY <1>5, <3>2
    <3>4. Stands(queue[i])' BY <1>1, <1>13, <1>17, <3>1 DEF Stands
    <3> QED BY <3>3, <3>4
  <2>2. \A i, j \in DOMAIN queue' : i < j => queue'[i].depth <= queue'[j].depth BY <1>9, <1>18
  <2>3. \A q \in seen' : (\A i \in DOMAIN queue' : queue'[i].page # q) /\ policy'.depth > 0 /\ Reads(q)'
                         /\ q \in Near'[policy'.depth - 1] => Targets(q)' \subseteq seen'
    BY <1>1, <1>13, <1>19
  <2>4. ~short' => \A p \in Declared' : ~Wanted(p)' BY <1>1, <1>12, <1>13
  <2>5. queue' # <<>> => Near'[queue'[1].depth] \subseteq seen' BY <1>13, <1>20
  <2>6. seen' = Range(found') /\ Root \in seen' /\ seen' \subseteq Near'[policy'.depth]
    BY <1>1, <1>13, <1>21
  <2> HIDE DEF D, d, n, N
  <2> QED BY <2>1, <2>2, <2>3, <2>4, <2>5, <2>6 DEF LinksInv
<1> QED BY <1>1, <1>11, <1>22 DEF IInv, SitemapsInv, FindsWhatIsThere

\* When nothing waits, all that is near enough has been seen.
LEMMA SeenIsAll ==
  ASSUME site \in Sites, policy \in Policies, queue = <<>>, Root \in seen,
         \A q \in seen : policy.depth > 0 /\ Reads(q) /\ q \in Near[policy.depth - 1] => Targets(q) \subseteq seen
  PROVE  Near[policy.depth] \subseteq seen
<1> DEFINE D == policy.depth
           holds == [n \in Nat |-> n <= D => Near[n] \subseteq seen]
<1>1. D \in Nat BY CrawlAssumption
<1>2. holds[0] BY NearDef
<1>3. ASSUME NEW n \in Nat, holds[n] PROVE holds[n + 1]
  <2> SUFFICES ASSUME n + 1 <= D PROVE Near[n + 1] \subseteq seen
    <3>1. n + 1 \in Nat OBVIOUS
    <3> QED BY <3>1
  <2>1. n <= D /\ D > 0 /\ D - 1 \in Nat /\ n <= D - 1 BY <1>1
  <2>2. Near[n] \subseteq seen BY <1>3, <2>1
  <2>3. Near[n] \subseteq Near[D - 1] BY <2>1, NearGrows
  <2>4. \A q \in Near[n] : Reads(q) => Targets(q) \subseteq seen BY <2>1, <2>2, <2>3
  <2>5. Near[n + 1] = Near[n] \cup UNION {Targets(q) : q \in {r \in Near[n] : Reads(r)}} BY NearDef
  <2> QED BY <2>2, <2>4, <2>5
<1>4. holds \in [Nat -> BOOLEAN] OBVIOUS
<1>5. \A n \in Nat : holds[n]
  <2> HIDE DEF holds
  <2> QED BY <1>2, <1>3, <1>4, Induction
<1>6. D <= D BY <1>1
<1> QED BY <1>1, <1>5, <1>6

LEMMA LinksEndKeeps ==
  ASSUME IInv, LinksEnd PROVE IInv'
<1>1. /\ site' = site /\ policy' = policy /\ stage = "links" /\ stage' = "done"
      /\ found' = found /\ result' = Concluded("links") /\ short' = (short \/ queue # <<>>)
      /\ site \in Sites /\ policy \in Policies /\ found \in Seq(Pages)
  BY DEF IInv, TypeInv, LinksEnd
<1>2. TypeInv' BY <1>1 DEF TypeInv
<1>3. ~short' => Filtered = Whole
  <2> SUFFICES ASSUME ~short, queue = <<>> PROVE Filtered = Whole BY <1>1
  <2>1. /\ \A p \in Declared : ~Wanted(p)
        /\ seen = Range(found) /\ Root \in seen /\ seen \subseteq Near[policy.depth]
    BY <1>1 DEF IInv, LinksInv
  <2>2. \A q \in seen : policy.depth > 0 /\ Reads(q) /\ q \in Near[policy.depth - 1] => Targets(q) \subseteq seen
    BY <1>1 DEF IInv, LinksInv
  <2>3. Near[policy.depth] \subseteq seen BY <1>1, <2>1, <2>2, SeenIsAll
  <2>4. Filtered = Sorted(Linked) BY <2>1, <2>3 DEF Filtered, Linked
  <2> QED BY <2>1, <2>4 DEF Whole
<1>4. FindsWhatIsThere' BY <1>1, <1>3, EndsWell
<1> QED BY <1>1, <1>2, <1>4 DEF IInv, SitemapsInv, LinksInv

LEMMA StutterKeeps ==
  ASSUME IInv, UNCHANGED discovery PROVE IInv'
<1>1. /\ site' = site /\ policy' = policy /\ stage' = stage /\ queue' = queue /\ seen' = seen
      /\ found' = found /\ short' = short /\ result' = result
  BY DEF discovery
<1>2. /\ \A x : Reads(x)' = Reads(x) /\ Wanted(x)' = Wanted(x)
      /\ Candidates' = Candidates /\ Known' = Known /\ Declared' = Declared /\ Near' = Near
      /\ \A P : Sorted(P)' = Sorted(P)
  BY <1>1, SiteStays, NearStays
<1>3. TypeInv' BY <1>1 DEF IInv, TypeInv
<1>4. SitemapsInv'
  <2>1. Heard' = Heard BY <1>1 DEF Heard
  <2> QED BY <1>1, <1>2, <2>1 DEF IInv, SitemapsInv
<1>5. LinksInv' BY <1>1, <1>2 DEF IInv, LinksInv, Stands, Targets
<1>6. FindsWhatIsThere'
  <2>1. Linked' = Linked BY <1>1, <1>2 DEF Linked
  <2>2. Whole' = Whole BY <1>2, <2>1 DEF Whole
  <2>3. Barred' = Barred BY <1>1 DEF Barred
  <2> QED BY <1>1, <2>2, <2>3 DEF IInv, FindsWhatIsThere, Wanted
<1> QED BY <1>3, <1>4, <1>5, <1>6 DEF IInv

\* Each stage keeps what the next one needs, on any site and under any policy
\* (the two loops of discover).
THEOREM DiscoveryIsSound == DiscoverySpec => []IInv
<1>1. DiscoveryInit => IInv BY InitKeeps
<1>2. IInv /\ [DiscoveryNext]_discovery => IInv'
  BY StartKeeps, ReadKeeps, SitemapsEndKeeps, FollowKeeps, LinksEndKeeps, StutterKeeps DEF DiscoveryNext
<1> QED BY <1>1, <1>2, PTL DEF DiscoverySpec

\* Whatever the sitemaps list and the pages link to, in circles or not, and
\* whatever the robots rules and the requests that fail leave of it, a
\* discovery that did not end on its bounds has what is there.
THEOREM FindsWhatIsThereHolds == DiscoverySpec => []FindsWhatIsThere
<1>1. IInv => FindsWhatIsThere BY DEF IInv
<1> QED BY <1>1, DiscoveryIsSound, PTL

-----------------------------------------------------------------------------
(* Why it ends                                                             *)

Turns == [idle |-> 0, sitemaps |-> 1, links |-> 2, done |-> 3]

\* What no request gives back: a stage that is over, a sitemap that was read or
\* a page that was found, a place in the queue.
Advances ==
  \/ Turns[stage'] > Turns[stage]
  \/ stage' = stage /\ seen \subseteq seen' /\ seen' # seen
  \/ stage' = stage /\ seen' = seen /\ Len(queue') < Len(queue)

LEMMA Unlisted ==
  ASSUME NEW V, NEW s \in Seq(V)
  PROVE  Range(s) = {} <=> Len(s) = 0
<1>1. Len(s) \in Nat /\ DOMAIN s = 1..Len(s) OBVIOUS
<1>2. Len(s) > 0 => 1 \in 1..Len(s) BY <1>1
<1>3. Len(s) > 0 => s[1] \in Range(s) BY <1>1, <1>2 DEF Range
<1>4. Len(s) = 0 => DOMAIN s = {} BY <1>1
<1>5. Len(s) = 0 => Range(s) = {} BY <1>4 DEF Range
<1> QED BY <1>1, <1>3, <1>5

LEMMA ReadAdvances ==
  ASSUME IInv, ReadSitemap PROVE Advances
<1> DEFINE m == Head(queue)
           listed == IF Follows(m) /\ Reads(m) THEN site.lists[m] ELSE <<>>
           M == {i \in DOMAIN listed : listed[i] \in Maps}
<1>1. /\ stage' = stage /\ seen' = seen \cup {m} /\ queue' = Tail(queue) \o At(listed, M)
      /\ queue # <<>> /\ queue \in Seq(Maps)
  BY DEF IInv, TypeInv, ReadSitemap
<1>2. m \in seen => listed = <<>> BY DEF Follows
<1>3. Tail(queue) \in Seq(Maps) /\ Len(Tail(queue)) = Len(queue) - 1 /\ Len(queue) \in Nat
  BY <1>1, RangeOfTail
<1> HIDE DEF m, listed
<1>4. CASE m \notin seen BY <1>1, <1>4 DEF Advances
<1>5. CASE m \in seen
  <2>1. M = {} BY <1>2, <1>5
  <2>2. <<>> \in Seq(Maps) /\ {} \in SUBSET DOMAIN <<>> OBVIOUS
  <2>3. At(<<>>, {}) \in Seq(Maps) /\ Range(At(<<>>, {})) = {}
    <3> DEFINE s == <<>>
               none == {}
    <3>1. s \in Seq(Maps) /\ none \in SUBSET DOMAIN s BY <2>2
    <3> HIDE DEF s, none
    <3>2. At(s, none) \in Seq(Maps) /\ Range(At(s, none)) = {s[i] : i \in none} BY <3>1, AtGives
    <3> QED BY <3>2 DEF s, none
  <2>4. Len(At(<<>>, {})) = 0 BY <2>3, Unlisted
  <2>5. Len(queue') = Len(queue) - 1
    <3> DEFINE none == At(<<>>, {})
    <3>1. queue' = Tail(queue) \o none /\ none \in Seq(Maps) /\ Len(none) = 0
      BY <1>1, <1>2, <1>5, <2>1, <2>3, <2>4
    <3> HIDE DEF none
    <3> QED BY <3>1, <1>3
  <2> QED BY <1>1, <1>3, <1>5, <2>5 DEF Advances
<1> QED BY <1>4, <1>5

LEMMA FollowAdvances ==
  ASSUME IInv, FollowLinks PROVE Advances
<1> DEFINE x == Head(queue)
           links == IF x.depth < policy.depth /\ Reads(x.page)
                    THEN [i \in DOMAIN site.links[x.page] |-> Clean[site.links[x.page][i]]] ELSE <<>>
           I == {i \in Firsts(links) : links[i] \notin seen}
           new == At(links, I)
           Entry == [page : Pages, depth : Nat]
           entries == [i \in DOMAIN new |-> [page |-> new[i], depth |-> x.depth + 1]]
<1>1. /\ stage' = stage /\ queue # <<>> /\ queue \in Seq(Entry) /\ site \in Sites
      /\ seen' = seen \cup Range(new) /\ queue' = Tail(queue) \o entries
  BY DEF IInv, TypeInv, FollowLinks, Queued
<1>2. /\ x \in Entry /\ Tail(queue) \in Seq(Entry)
      /\ Len(Tail(queue)) = Len(queue) - 1 /\ Len(queue) \in Nat
  <2> HIDE DEF Entry
  <2> QED BY <1>1, RangeOfTail
<1>3. x.page \in Pages /\ x.depth \in Nat BY <1>2
<1>4. links \in Seq(Pages)
  <2> DEFINE s == site.links[x.page]
  <2>1. s \in Seq(Pages) /\ \A p \in Pages : Clean[p] \in Pages BY <1>1, <1>3, SiteType
  <2>2. [i \in DOMAIN s |-> Clean[s[i]]] \in Seq(Pages) BY <2>1
  <2>3. <<>> \in Seq(Pages) OBVIOUS
  <2> QED BY <2>2, <2>3
<1> HIDE DEF links
<1>5. I \in SUBSET DOMAIN links /\ \A i \in I : links[i] \notin seen BY DEF Firsts
<1>6. new \in Seq(Pages) /\ Range(new) = {links[i] : i \in I} BY <1>4, <1>5, AtGives
<1>7. Range(new) \cap seen = {} BY <1>5, <1>6
<1> HIDE DEF new, x
<1>8. CASE Range(new) # {}
  BY <1>1, <1>7, <1>8 DEF Advances
<1>9. CASE Range(new) = {}
  <2>1. Len(new) = 0 /\ DOMAIN new = 1..Len(new) BY <1>6, <1>9, Unlisted
  <2>2. entries = <<>> BY <2>1
  <2>3. queue' = Tail(queue) /\ seen' = seen BY <1>1, <1>2, <1>9, <2>2
  <2> QED BY <1>1, <1>2, <2>3 DEF Advances
<1> QED BY <1>8, <1>9

\* Every request takes a discovery on: it ends a stage and none comes twice, or
\* reads a sitemap or finds pages that it had not, or leaves one entry less to
\* look at. So circles of sitemaps and links cannot hold it, and on a site of
\* finitely many addresses it has only finitely many requests to make.
THEOREM EachRequestAdvances == DiscoverySpec => [][Advances]_discovery
<1>1. ASSUME IInv, DiscoveryNext PROVE Advances
  <2>1. CASE Start BY <2>1 DEF Start, Advances, Turns
  <2>2. CASE SitemapsEnd BY <2>2 DEF SitemapsEnd, Advances, Turns
  <2>3. CASE LinksEnd BY <2>3 DEF LinksEnd, Advances, Turns
  <2> QED BY <1>1, <2>1, <2>2, <2>3, ReadAdvances, FollowAdvances DEF DiscoveryNext
<1>2. IInv /\ [DiscoveryNext]_discovery => [Advances]_discovery BY <1>1
<1> QED BY <1>2, DiscoveryIsSound, PTL DEF DiscoverySpec

=============================================================================
