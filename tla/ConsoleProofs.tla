---------------------------- MODULE ConsoleProofs ----------------------------
(***************************************************************************)
(* What is proved of Console, for any terms, figures, threads, cases and   *)
(* requests, documents, titles and chips: one inductive invariant for each *)
(* area, which the steps of the other areas leave alone. The starters come *)
(* first: their choice is by ranks in a finite order, and the argument is  *)
(* that ranks are the numbers from zero.                                   *)
(***************************************************************************)
EXTENDS Console, FiniteSetTheorems, TLAPS

-----------------------------------------------------------------------------
(* Starters                                                                *)

\* What a request has read is of the knowledgebase.
Weighty(o) ==
  /\ DOMAIN o.weights \subseteq DocIds
  /\ \A d \in DOMAIN o.weights : o.weights[d] \in Nat
Sound(o) ==
  /\ Weighty(o)
  /\ DOMAIN o.seen \subseteq DocIds
  /\ \A d \in DOMAIN o.seen : o.seen[d] \in Pages

-----------------------------------------------------------------------------
(* The order of documents                                                  *)

LEMMA SubstanceIsANumber ==
  ASSUME NEW o, Sound(o), NEW d \in DOMAIN o.seen
  PROVE  Substance(o, d) \in Nat
  BY StartersAssumption DEF Sound, Weighty, Substance

\* Documents are ordered: by substance, title and place.
LEMMA Ordered ==
  ASSUME NEW o, Sound(o), NEW d \in DOMAIN o.seen, NEW e \in DOMAIN o.seen, NEW f \in DOMAIN o.seen
  PROVE  /\ ~Before(o, d, d)
         /\ d = e \/ Before(o, d, e) \/ Before(o, e, d)
         /\ Before(o, d, e) /\ Before(o, e, f) => Before(o, d, f)
<1>1. \A x \in {d, e, f} : /\ Substance(o, x) \in Nat /\ Spelled[o.seen[x].title] \in Nat
                           /\ Place[x] \in Nat /\ x \in DocIds
  BY SubstanceIsANumber, StartersAssumption DEF Sound
<1>2. \A x, y \in {d, e, f} : Place[x] = Place[y] => x = y
  BY <1>1, StartersAssumption
<1> QED
  BY <1>1, <1>2 DEF Before

\* How many documents of S come before d.
Rank(o, S, d) == Cardinality({e \in S : Before(o, e, d)})

\* The ranks of a set are the numbers below its size, each once.
LEMMA RanksAreNumbers ==
  ASSUME NEW o, Sound(o), NEW S \in SUBSET DOMAIN o.seen
  PROVE  /\ IsFiniteSet(S) /\ Cardinality(S) \in Nat
         /\ \A d \in S : Rank(o, S, d) \in 0..(Cardinality(S) - 1)
         /\ \A d, e \in S : Before(o, d, e) => Rank(o, S, d) < Rank(o, S, e)
         /\ \A k \in 0..(Cardinality(S) - 1) : \E d \in S : Rank(o, S, d) = k
<1>1. IsFiniteSet(S) /\ Cardinality(S) \in Nat
  <2>1. IsFiniteSet(DocIds) /\ S \in SUBSET DocIds
    BY StartersAssumption DEF Sound
  <2> QED
    BY <2>1, FS_Subset, FS_CardinalityType
<1>2. \A T \in SUBSET S : IsFiniteSet(T) /\ Cardinality(T) \in Nat
  BY <1>1, FS_Subset, FS_CardinalityType
<1>3. \A T \in SUBSET S : \A U \in SUBSET T : U # T => Cardinality(U) < Cardinality(T)
  <2> TAKE T \in SUBSET S
  <2> TAKE U \in SUBSET T
  <2>1. U \in SUBSET S /\ IsFiniteSet(T)
    BY <1>2
  <2>2. Cardinality(U) <= Cardinality(T) /\ (Cardinality(T) = Cardinality(U) => T = U)
    BY <2>1, FS_Subset
  <2> QED
    BY <1>2, <2>1, <2>2
<1>4. ASSUME NEW d \in S PROVE Rank(o, S, d) \in 0..(Cardinality(S) - 1)
  <2> DEFINE T == {e \in S : Before(o, e, d)}
  <2>1. T \in SUBSET S /\ T # S
    BY Ordered
  <2>2. Cardinality(T) < Cardinality(S) /\ Cardinality(T) \in Nat
    BY <1>2, <1>3, <2>1
  <2> QED
    BY <1>1, <2>2 DEF Rank
<1>5. ASSUME NEW d \in S, NEW e \in S, Before(o, d, e) PROVE Rank(o, S, d) < Rank(o, S, e)
  <2> DEFINE T == {f \in S : Before(o, f, e)}
             U == {f \in S : Before(o, f, d)}
  <2>1. \A f \in U : Before(o, f, e)
    BY <1>5, Ordered
  <2>2. d \in T /\ d \notin U
    BY <1>5, Ordered
  <2>3. T \in SUBSET S /\ U \in SUBSET T /\ U # T
    BY <2>1, <2>2
  <2> QED
    BY <1>3, <2>3 DEF Rank
<1>6. \A k \in 0..(Cardinality(S) - 1) : \E d \in S : Rank(o, S, d) = k
  <2> DEFINE N == 0..(Cardinality(S) - 1)
             f == [d \in S |-> Rank(o, S, d)]
  <2>1. f \in [S -> N]
    BY <1>4
  <2>2. \A d, e \in S : f[d] = f[e] => d = e
    <3> TAKE d, e \in S
    <3>1. d = e \/ Before(o, d, e) \/ Before(o, e, d)
      BY Ordered
    <3>2. Before(o, d, e) => f[d] < f[e]
      BY <1>5
    <3>3. Before(o, e, d) => f[e] < f[d]
      BY <1>5
    <3>4. f[d] \in N /\ f[e] \in N
      BY <2>1
    <3> HIDE DEF f
    <3> QED
      BY <1>1, <3>1, <3>2, <3>3, <3>4
  <2>3. f \in Injection(S, N)
    BY <2>1, <2>2 DEF Injection, IsInjective
  <2>4. IsFiniteSet(N) /\ Cardinality(N) = Cardinality(S)
    <3> DEFINE c == Cardinality(S)
    <3>1. c \in Nat /\ c - 1 \in Int /\ (0 <= c - 1 \/ c = 0) /\ (c - 1) - 0 + 1 = c
      BY <1>1
    <3> HIDE DEF c
    <3>2. IsFiniteSet(0..(c - 1)) /\ Cardinality(0..(c - 1)) = c
      BY <3>1, FS_Interval
    <3> QED
      BY <3>2 DEF c
  <2>5. f \in Surjection(S, N)
    <3> HIDE DEF f, N
    <3> QED
      BY <1>1, <2>3, <2>4, FS_Injection
  <2>6. \A k \in N : \E d \in S : f[d] = k
    BY <2>5 DEF Surjection
  <2> QED
    BY <2>6
<1> QED
  BY <1>1, <1>4, <1>5, <1>6

\* The first n of S are n of them, or all; and they come before the others.
LEMMA FirstAreFirst ==
  ASSUME NEW o, Sound(o), NEW S \in SUBSET DOMAIN o.seen, NEW n \in Nat
  PROVE  /\ First(o, n, S) \in SUBSET S
         /\ Cardinality(S) <= n => First(o, n, S) = S
         /\ Cardinality(S) > n => Cardinality(First(o, n, S)) = n
         /\ \A d \in First(o, n, S), e \in S \ First(o, n, S) : Before(o, d, e)
<1>1. /\ IsFiniteSet(S) /\ Cardinality(S) \in Nat
      /\ \A d \in S : Rank(o, S, d) \in 0..(Cardinality(S) - 1)
      /\ \A d, e \in S : Before(o, d, e) => Rank(o, S, d) < Rank(o, S, e)
      /\ \A k \in 0..(Cardinality(S) - 1) : \E d \in S : Rank(o, S, d) = k
  BY RanksAreNumbers
<1> DEFINE F == {d \in S : Rank(o, S, d) < n}
<1>2. First(o, n, S) = F
  BY DEF First, Rank
<1>3. Cardinality(S) <= n => F = S
  BY <1>1
<1>4. ASSUME Cardinality(S) > n PROVE Cardinality(F) = n
  <2> DEFINE N == 0..(n - 1)
             f == [d \in F |-> Rank(o, S, d)]
  <2>1. f \in [F -> N]
    BY <1>1
  <2>2. \A d, e \in F : f[d] = f[e] => d = e
    <3> TAKE d, e \in F
    <3>1. d = e \/ Before(o, d, e) \/ Before(o, e, d)
      BY Ordered
    <3>2. Before(o, d, e) => Rank(o, S, d) < Rank(o, S, e)
      BY <1>1
    <3>3. Before(o, e, d) => Rank(o, S, e) < Rank(o, S, d)
      BY <1>1
    <3>4. Rank(o, S, d) \in Nat /\ Rank(o, S, e) \in Nat
      BY <1>1
    <3>5. f[d] = Rank(o, S, d) /\ f[e] = Rank(o, S, e)
      OBVIOUS
    <3> HIDE DEF f
    <3> QED
      BY <3>1, <3>2, <3>3, <3>4, <3>5
  <2>3. \A k \in N : \E d \in F : f[d] = k
    BY <1>1, <1>4
  <2>4. f \in Injection(F, N) /\ f \in Surjection(F, N)
    BY <2>1, <2>2, <2>3 DEF Injection, IsInjective, Surjection
  <2>5. IsFiniteSet(N) /\ Cardinality(N) = n
    BY FS_Interval
  <2> QED
    <3> HIDE DEF F, f, N
    <3> QED
      BY <2>4, <2>5, FS_Injection
<1>5. \A d \in F, e \in S \ F : Before(o, d, e)
  <2> TAKE d \in F, e \in S \ F
  <2>1. d = e \/ Before(o, d, e) \/ Before(o, e, d)
    BY Ordered
  <2> QED
    BY <1>1, <2>1
<1> QED
  BY <1>1, <1>2, <1>3, <1>4, <1>5

-----------------------------------------------------------------------------
(* The choice                                                              *)

\* What the property asks of what a request has chosen.
Spans(o) ==
  LET section(d) == o.seen[d].section
      left == Eligible(o) \ o.picked
  IN /\ \/ Cardinality(o.picked) = Chips
        \/ o.picked = Eligible(o) /\ Cardinality(o.picked) < Chips
     /\ \A d, e \in o.picked : d # e /\ section(d) = section(e) /\ section(d) # NoSection =>
          \A f \in left : section(f) # NoSection /\ \E g \in o.picked : section(g) = section(f)
     /\ \A d \in o.picked, e \in left : section(d) = section(e) => Before(o, d, e)

\* Every section that somebody is in has a head.
LEMMA SectionsHaveHeads ==
  ASSUME NEW o, Sound(o), NEW f \in Eligible(o), o.seen[f].section # NoSection
  PROVE  \E g \in Heads(o) : o.seen[g].section = o.seen[f].section
<1> DEFINE S == {d \in Eligible(o) : o.seen[d].section = o.seen[f].section}
<1>1. S \in SUBSET DOMAIN o.seen /\ f \in S
  BY DEF Eligible
<1>2. IsFiniteSet(S) /\ Cardinality(S) \in Nat /\ Cardinality(S) # 0
  <2>1. IsFiniteSet(S) /\ Cardinality(S) \in Nat
    BY <1>1, RanksAreNumbers
  <2>2. S # {}
    BY <1>1
  <2> HIDE DEF S
  <2> QED
    BY <2>1, <2>2, FS_EmptySet
<1>3. PICK g \in S : Rank(o, S, g) = 0
  <2>1. 0 \in 0..(Cardinality(S) - 1)
    BY <1>2
  <2> HIDE DEF S
  <2> QED
    BY <1>1, <2>1, RanksAreNumbers
<1>4. \A d \in S : ~Before(o, d, g)
  <2> DEFINE T == {e \in S : Before(o, e, g)}
  <2>1. T \in SUBSET S /\ Cardinality(T) = 0
    BY <1>3 DEF Rank
  <2>2. T = {}
    <3> HIDE DEF T, S
    <3> QED
      BY <1>2, <2>1, FS_Subset, FS_EmptySet
  <2> QED
    BY <2>2
<1>5. g \in Heads(o)
  BY <1>3, <1>4 DEF Heads
<1> QED
  BY <1>3, <1>5

LEMMA ChosenSpan ==
  ASSUME NEW o, Sound(o), o.picked = Chosen(o)
  PROVE  Spans(o) /\ o.picked \in SUBSET Eligible(o)
<1> DEFINE H == Heads(o)
           E == Eligible(o)
           heads == First(o, Chips, H)
           n == Chips - Cardinality(heads)
           others == First(o, n, E \ heads)
           section(d) == o.seen[d].section
           left == E \ o.picked
<1>1. E \in SUBSET DOMAIN o.seen /\ H \in SUBSET E /\ Chips \in Nat \ {0}
  BY StartersAssumption DEF Eligible, Heads
<1>2. /\ heads \in SUBSET H
      /\ Cardinality(H) <= Chips => heads = H
      /\ Cardinality(H) > Chips => Cardinality(heads) = Chips
      /\ \A d \in heads, e \in H \ heads : Before(o, d, e)
  <2>1. H \in SUBSET DOMAIN o.seen /\ Chips \in Nat
    BY <1>1
  <2> HIDE DEF H
  <2> QED
    BY <2>1, FirstAreFirst
<1>3. /\ IsFiniteSet(E) /\ Cardinality(E) \in Nat /\ IsFiniteSet(H) /\ Cardinality(H) \in Nat
      /\ IsFiniteSet(heads) /\ Cardinality(heads) \in Nat
      /\ IsFiniteSet(E \ heads) /\ Cardinality(E \ heads) \in Nat
  <2> HIDE DEF H, E, heads
  <2> QED
    BY <1>1, <1>2, RanksAreNumbers
<1>4. n \in Nat
  BY <1>1, <1>2, <1>3
<1>5. /\ others \in SUBSET (E \ heads)
      /\ Cardinality(E \ heads) <= n => others = E \ heads
      /\ Cardinality(E \ heads) > n => Cardinality(others) = n
      /\ \A d \in others, e \in (E \ heads) \ others : Before(o, d, e)
  <2>1. E \ heads \in SUBSET DOMAIN o.seen
    BY <1>1
  <2> HIDE DEF H, E, heads, n
  <2> QED
    BY <1>4, <2>1, FirstAreFirst
<1>6. o.picked = heads \cup others
  BY DEF Chosen
<1>7. o.picked \in SUBSET E
  BY <1>1, <1>2, <1>5, <1>6
<1>8. Cardinality(o.picked) = Chips \/ (o.picked = E /\ Cardinality(o.picked) < Chips)
  <2> HIDE DEF H, E, heads, others
  <2>1. IsFiniteSet(others) /\ Cardinality(others) \in Nat
    BY <1>1, <1>5, RanksAreNumbers
  <2>2. heads \cap others = {}
    BY <1>5
  <2>3. Cardinality(o.picked) = Cardinality(heads) + Cardinality(others)
    <3>1. Cardinality(heads \cup others) =
            Cardinality(heads) + Cardinality(others) - Cardinality(heads \cap others)
      BY <1>3, <2>1, FS_Union
    <3>2. Cardinality(heads \cap others) = 0
      BY <2>2, FS_EmptySet
    <3> QED
      BY <1>3, <1>6, <2>1, <3>1, <3>2
  <2>4. CASE Cardinality(E \ heads) > n
    BY <1>1, <1>3, <1>5, <2>3, <2>4
  <2>5. CASE Cardinality(E \ heads) <= n
    <3>1. o.picked = E /\ Cardinality(others) <= n
      BY <1>1, <1>2, <1>5, <1>6, <2>5
    <3> QED
      BY <1>1, <1>3, <2>1, <2>3, <3>1
  <2> QED
    BY <1>3, <1>4, <2>4, <2>5
<1>9. \A d, e \in H : section(d) = section(e) /\ section(d) # NoSection => d = e
  BY <1>1, Ordered DEF Heads
<1>10. ASSUME NEW d \in o.picked, NEW e \in o.picked,
              d # e, section(d) = section(e), section(d) # NoSection, NEW f \in left
       PROVE  section(f) # NoSection /\ \E g \in o.picked : section(g) = section(f)
  <2>1. others # {}
    BY <1>2, <1>6, <1>9, <1>10
  <2>2. heads = H
    <3>1. Cardinality(H) > Chips => n = 0
      BY <1>1, <1>2
    <3>2. n = 0 => others = {}
      <4>1. others = {d1 \in E \ heads : Rank(o, E \ heads, d1) < n}
        BY DEF First, Rank
      <4>2. \A d1 \in E \ heads : Rank(o, E \ heads, d1) \in Nat
        <5>1. E \ heads \in SUBSET DOMAIN o.seen
          BY <1>1
        <5> HIDE DEF E, heads
        <5> QED
          BY <1>3, <5>1, RanksAreNumbers
      <4> HIDE DEF others, n
      <4> QED
        BY <4>1, <4>2
    <3> HIDE DEF H, heads, others, n
    <3> QED
      BY <1>1, <1>2, <1>3, <2>1, <3>1, <3>2
  <2>3. f \notin H /\ f \in E
    BY <1>6, <1>10, <2>2
  <2>4. section(f) # NoSection
    BY <2>3 DEF Heads
  <2>5. PICK g \in H : section(g) = section(f)
    BY <2>3, <2>4, SectionsHaveHeads
  <2> QED
    BY <1>6, <2>2, <2>4, <2>5
<1>11. ASSUME NEW d \in o.picked, NEW e \in left, section(d) = section(e) PROVE Before(o, d, e)
  <2>1. CASE d \in heads /\ e \in H
    BY <1>2, <1>6, <1>11, <2>1
  <2>2. CASE d \in heads /\ e \notin H
    <3>1. section(e) # NoSection /\ d \in H /\ d # e
      BY <1>2, <1>11, <2>2 DEF Heads
    <3>2. ~Before(o, e, d)
      BY <1>11, <3>1 DEF Heads
    <3> QED
      BY <1>1, <1>2, <1>11, <2>2, <3>1, <3>2, Ordered
  <2>3. CASE d \in others
    BY <1>5, <1>6, <1>11, <2>3
  <2> QED
    BY <1>6, <1>11, <2>1, <2>2, <2>3
<1> QED
  BY <1>7, <1>8, <1>10, <1>11 DEF Spans

-----------------------------------------------------------------------------
(* Requests                                                                *)

\* The fields of a request.
Request(o) ==
  o \in [pc : {o.pc}, weights : {o.weights}, seen : {o.seen}, picked : {o.picked},
         passages : {o.passages}, questions : {o.questions}]

\* A question names a title that was chosen.
About(o, qs) == \A q \in qs : q.title \in TitlesOf(o, o.picked)

OfferSound(o) ==
  /\ Request(o) /\ Weighty(o)
  /\ o.pc \in {"picked", "read", "offered"} => Sound(o) /\ o.picked = Chosen(o)
  /\ o.pc = "read" => About(o, o.passages)
  /\ o.pc = "offered" => About(o, o.questions)

\* What is kept was written for titles that its signature has.
OfferInv ==
  /\ DOMAIN listing \subseteq DocIds /\ \A d \in DOMAIN listing : listing[d] \in Pages
  /\ \A q \in openers.questions : q.title \in Titles /\ openers.signature[q.title] # 0
  /\ offering = [v \in Visitors |-> offering[v]] /\ \A v \in Visitors : OfferSound(offering[v])

\* Only the chosen documents and what was read of them matter to a choice.
LEMMA SameReading ==
  ASSUME NEW o, NEW p, o.seen = p.seen, o.weights = p.weights
  PROVE  /\ Chosen(o) = Chosen(p) /\ Weighty(o) = Weighty(p) /\ Sound(o) = Sound(p)
         /\ \A ds : TitlesOf(o, ds) = TitlesOf(p, ds) /\ Signature(o, ds) = Signature(p, ds)
<1>1. Eligible(o) = Eligible(p)
  BY DEF Eligible
<1>2. \A d : Substance(o, d) = Substance(p, d)
  BY DEF Substance
<1>3. \A d, e : Before(o, d, e) = Before(p, d, e)
  BY <1>2 DEF Before
<1>4. Heads(o) = Heads(p)
  BY <1>1, <1>3 DEF Heads
<1>5. \A n, S : First(o, n, S) = First(p, n, S)
  BY <1>3 DEF First
<1>6. Chosen(o) = Chosen(p)
  BY <1>1, <1>4, <1>5 DEF Chosen
<1>7. Weighty(o) = Weighty(p) /\ Sound(o) = Sound(p)
  BY DEF Weighty, Sound
<1> QED
  BY <1>6, <1>7 DEF TitlesOf, Signature

\* A title is signed if a document that was chosen has it.
LEMMA SignedTitles ==
  ASSUME NEW o, Sound(o), o.picked = Chosen(o), NEW t \in Titles
  PROVE  Signature(o, o.picked)[t] # 0 <=> t \in TitlesOf(o, o.picked)
<1> DEFINE T == {d \in o.picked : o.seen[d].title = t}
<1>1. o.picked \in SUBSET DOMAIN o.seen
  BY ChosenSpan DEF Eligible
<1>2. IsFiniteSet(T)
  <2>1. T \in SUBSET DOMAIN o.seen
    BY <1>1
  <2> HIDE DEF T
  <2> QED
    BY <2>1, RanksAreNumbers
<1>3. Cardinality(T) # 0 <=> T # {}
  <2> HIDE DEF T
  <2> QED
    BY <1>2, FS_EmptySet
<1>4. Signature(o, o.picked)[t] = Cardinality(T)
  BY DEF Signature
<1>5. T # {} <=> t \in TitlesOf(o, o.picked)
  BY DEF TitlesOf
<1> QED
  BY <1>3, <1>4, <1>5

LEMMA OfferInitInv == StartersInit => OfferInv
<1> SUFFICES ASSUME StartersInit PROVE OfferInv
  OBVIOUS
<1>1. DOMAIN listing \subseteq DocIds /\ \A d \in DOMAIN listing : listing[d] \in Pages
  BY DEF StartersInit
<1>2. OfferSound(NotAsked)
  BY DEF OfferSound, Request, Weighty, NotAsked
<1>3. openers.questions = {}
  BY DEF StartersInit, NoOpeners
<1> QED
  BY <1>1, <1>2, <1>3 DEF OfferInv, StartersInit

\* A step of one request replaces its record.
LEMMA OneRequest ==
  ASSUME OfferInv, NEW v \in Visitors, NEW o, OfferSound(o),
         offering' = [offering EXCEPT ![v] = o], UNCHANGED <<listing, openers>>
  PROVE  OfferInv'
<1>1. offering' = [w \in Visitors |-> IF w = v THEN o ELSE offering[w]]
  BY DEF OfferInv
<1>2. \A w \in Visitors : OfferSound(offering'[w])
  BY <1>1 DEF OfferInv
<1>3. offering' = [w \in Visitors |-> offering'[w]]
  BY <1>1
<1> QED
  BY <1>2, <1>3 DEF OfferInv

LEMMA StepWeigh ==
  ASSUME OfferInv, NEW v \in Visitors, Weigh(v)
  PROVE  OfferInv'
<1> DEFINE ws == [d \in {e \in DOMAIN listing : listing[e].chunks > 0} |-> listing[d].chunks]
           o == [NotAsked EXCEPT !.pc = "weighed", !.weights = ws]
<1>1. OfferSound(o)
  <2>1. DOMAIN ws \subseteq DocIds /\ \A d \in DOMAIN ws : ws[d] \in Nat
    BY StartersAssumption DEF OfferInv
  <2>2. Request(NotAsked)
    BY DEF Request, NotAsked
  <2>3. Request(o) /\ o.pc = "weighed" /\ o.weights = ws
    <3> HIDE DEF ws
    <3> QED
      BY <2>2 DEF Request
  <2> HIDE DEF o, ws
  <2> QED
    BY <2>1, <2>3 DEF OfferSound, Weighty
<1>2. offering' = [offering EXCEPT ![v] = o] /\ UNCHANGED <<listing, openers>>
  BY DEF Weigh
<1> QED
  <2> HIDE DEF o
  <2> QED
    BY <1>1, <1>2, OneRequest

LEMMA StepPick ==
  ASSUME OfferInv, NEW v \in Visitors, Pick(v)
  PROVE  OfferInv'
<1> DEFINE read == [offering[v] EXCEPT !.seen = Population]
           picked == Chosen(read)
           held == Written(Signature(read, picked))
           o == [read EXCEPT !.picked = picked,
                    !.pc = IF held \/ picked = {} THEN "offered" ELSE "picked",
                    !.questions = IF held THEN openers.questions ELSE {}]
<1>1. offering' = [offering EXCEPT ![v] = o] /\ UNCHANGED <<listing, openers>>
  BY DEF Pick
<1>2. OfferSound(offering[v])
  BY DEF OfferInv
<1>3. Request(read) /\ read.weights = offering[v].weights /\ read.seen = listing
  BY <1>2 DEF OfferSound, Request, Population
<1>4. Sound(read)
  <2> HIDE DEF read
  <2> QED
    BY <1>2, <1>3 DEF OfferSound, OfferInv, Sound, Weighty
<1>5. /\ Request(o) /\ o.picked = picked /\ o.seen = read.seen /\ o.weights = read.weights
      /\ o.pc = IF held \/ picked = {} THEN "offered" ELSE "picked"
      /\ o.questions = IF held THEN openers.questions ELSE {}
  <2> HIDE DEF picked, held, read
  <2> QED
    BY <1>3 DEF Request
<1>6. Sound(o) /\ o.picked = Chosen(o) /\ Signature(o, picked) = Signature(read, picked)
  <2> HIDE DEF o, read
  <2> QED
    BY <1>4, <1>5, SameReading
<1>7. About(o, o.questions)
  <2>1. CASE held
    <3>1. openers.signature = Signature(o, o.picked)
      BY <1>5, <1>6, <2>1 DEF Written
    <3>2. o.questions = openers.questions
      <4> HIDE DEF picked, held
      <4> QED
        BY <1>5, <2>1
    <3>3. \A q \in openers.questions : q.title \in Titles /\ openers.signature[q.title] # 0
      BY DEF OfferInv
    <3> HIDE DEF o, held
    <3> QED
      BY <1>6, <3>1, <3>2, <3>3, SignedTitles DEF About
  <2>2. CASE ~held
    <3>1. o.questions = {}
      <4> HIDE DEF picked, held
      <4> QED
        BY <1>5, <2>2
    <3> QED
      BY <3>1 DEF About
  <2> QED
    BY <2>1, <2>2
<1>8. o.pc # "read"
  <2> HIDE DEF picked, held, o
  <2> QED
    BY <1>5
<1>9. OfferSound(o)
  <2> HIDE DEF o
  <2> QED
    BY <1>5, <1>6, <1>7, <1>8 DEF OfferSound, Sound
<1> QED
  <2> HIDE DEF o
  <2> QED
    BY <1>1, <1>9, OneRequest

LEMMA StepReadPassages ==
  ASSUME OfferInv, NEW v \in Visitors, ReadPassages(v)
  PROVE  OfferInv'
<1>1. PICK ps :
        /\ offering' = [offering EXCEPT ![v] = [offering[v] EXCEPT !.pc = "read", !.passages = ps]]
        /\ \A p \in ps : p.title \in TitlesOf(offering[v], offering[v].picked)
        /\ offering[v].pc = "picked" /\ UNCHANGED <<listing, openers>>
  <2> DEFINE text(d) == IF d \in DOMAIN listing /\ listing[d].chunks > 0 THEN listing[d].text ELSE NoText
             ps == {[title |-> offering[v].seen[d].title, text |-> text(d)] : d \in offering[v].picked}
  <2>1. offering' = [offering EXCEPT ![v] = [offering[v] EXCEPT !.pc = "read", !.passages = ps]]
    BY DEF ReadPassages
  <2>2. \A p \in ps : p.title \in TitlesOf(offering[v], offering[v].picked)
    BY DEF TitlesOf
  <2> HIDE DEF ps
  <2> QED
    BY <2>1, <2>2 DEF ReadPassages
<1> DEFINE o == [offering[v] EXCEPT !.pc = "read", !.passages = ps]
<1>2. OfferSound(offering[v])
  BY DEF OfferInv
<1>3. /\ Request(o) /\ o.pc = "read" /\ o.passages = ps /\ o.picked = offering[v].picked
      /\ o.seen = offering[v].seen /\ o.weights = offering[v].weights
  BY <1>2 DEF OfferSound, Request
<1>4. OfferSound(o)
  <2> HIDE DEF o
  <2>1. /\ Chosen(o) = Chosen(offering[v]) /\ Weighty(o) = Weighty(offering[v])
        /\ Sound(o) = Sound(offering[v])
        /\ TitlesOf(o, o.picked) = TitlesOf(offering[v], o.picked)
    BY <1>3, SameReading
  <2> QED
    BY <1>1, <1>2, <1>3, <2>1 DEF OfferSound, About
<1> QED
  <2>1. offering' = [offering EXCEPT ![v] = o]
    BY <1>1
  <2> HIDE DEF o
  <2> QED
    BY <1>1, <1>4, <2>1, OneRequest

LEMMA StepWriteOpeners ==
  ASSUME OfferInv, NEW v \in Visitors, NEW questions \in MayAsk(offering[v].passages),
         WriteOpeners(v, questions)
  PROVE  OfferInv'
<1> DEFINE o == [offering[v] EXCEPT !.pc = "offered", !.questions = questions]
<1>1. OfferSound(offering[v]) /\ offering[v].pc = "read"
  BY DEF OfferInv, WriteOpeners
<1>2. /\ Request(o) /\ o.pc = "offered" /\ o.questions = questions /\ o.picked = offering[v].picked
      /\ o.seen = offering[v].seen /\ o.weights = offering[v].weights
  BY <1>1 DEF OfferSound, Request
<1>3. About(offering[v], questions)
  BY <1>1 DEF MayAsk, OfferSound, About
<1>4. OfferSound(o)
  <2> HIDE DEF o
  <2>1. /\ Chosen(o) = Chosen(offering[v]) /\ Weighty(o) = Weighty(offering[v])
        /\ Sound(o) = Sound(offering[v])
        /\ TitlesOf(o, o.picked) = TitlesOf(offering[v], o.picked)
    BY <1>2, SameReading
  <2> QED
    BY <1>1, <1>2, <1>3, <2>1 DEF OfferSound, About
<1>5. \A q \in questions : q.title \in Titles /\ Signature(offering[v], offering[v].picked)[q.title] # 0
  <2> TAKE q \in questions
  <2>1. Sound(offering[v]) /\ offering[v].picked = Chosen(offering[v])
    BY <1>1 DEF OfferSound
  <2>2. q.title \in TitlesOf(offering[v], offering[v].picked)
    BY <1>3 DEF About
  <2>3. PICK d \in offering[v].picked : q.title = offering[v].seen[d].title
    BY <2>2 DEF TitlesOf
  <2>4. d \in DOMAIN offering[v].seen
    BY <2>1, ChosenSpan DEF Eligible
  <2>5. q.title \in Titles
    BY <2>1, <2>3, <2>4, StartersAssumption DEF Sound
  <2> QED
    BY <2>1, <2>2, <2>5, SignedTitles
<1>6. openers'.questions = questions /\ openers'.signature = Signature(offering[v], offering[v].picked)
  BY DEF WriteOpeners
<1>7. offering' = [offering EXCEPT ![v] = o] /\ UNCHANGED listing
  BY DEF WriteOpeners
<1>8. offering' = [w \in Visitors |-> IF w = v THEN o ELSE offering[w]]
  BY <1>7 DEF OfferInv
<1>9. /\ \A w \in Visitors : OfferSound(offering'[w])
      /\ offering' = [w \in Visitors |-> offering'[w]]
  <2> HIDE DEF o
  <2> QED
    BY <1>4, <1>8 DEF OfferInv
<1> QED
  BY <1>5, <1>6, <1>7, <1>9 DEF OfferInv

LEMMA OfferUntouched ==
  ASSUME OfferInv, UNCHANGED offers
  PROVE  OfferInv'
  BY DEF OfferInv, offers

LEMMA OfferStep ==
  ASSUME OfferInv, StartersNext
  PROVE  OfferInv'
<1>1. ASSUME NEW d \in DocIds, Withdraw(d) \/ \E page \in Pages : CrawlAgain(d, page) PROVE OfferInv'
  <2>1. CASE Withdraw(d)
    BY <2>1 DEF Withdraw, OfferInv
  <2>2. ASSUME NEW page \in Pages, CrawlAgain(d, page) PROVE OfferInv'
    BY <2>2 DEF CrawlAgain, OfferInv
  <2> QED
    BY <1>1, <2>1, <2>2
<1>2. ASSUME NEW v \in Visitors, Starting(v) PROVE OfferInv'
  BY <1>2, StepWeigh, StepPick, StepReadPassages, StepWriteOpeners DEF Starting
<1> QED
  BY <1>1, <1>2 DEF StartersNext

\* What the invariant is for.
LEMMA OffersSpan ==
  ASSUME OfferInv
  PROVE  OffersSpanTheCorpus
<1> SUFFICES ASSUME NEW v \in Visitors, offering[v].pc = "offered"
             PROVE  Spans(offering[v]) /\ About(offering[v], offering[v].questions)
  BY DEF OffersSpanTheCorpus, Spans, About
<1> QED
  BY ChosenSpan DEF OfferInv, OfferSound


-----------------------------------------------------------------------------
(* Live figures                                                            *)

Entries == [of : Sources, age : Nat, late : BOOLEAN]
Readings == [pc : {"idle", "took", "calls"}, source : Sources \cup {NoSource},
             key : Keys \cup {NoKey}, late : BOOLEAN]

\* A reader holds the configuration, or will be late, or a clear is to come.
LiveInv ==
  /\ clearing \in Nat /\ source \in Sources \cup {NoSource}
  /\ IsFiniteSet(DOMAIN cache) /\ cache \in [DOMAIN cache -> Entries]
  /\ reading \in [Readers -> Readings]
  /\ \A r \in Readers : reading[r].pc # "idle" =>
       /\ reading[r].source = source \/ clearing > 0 \/ reading[r].late
       /\ reading[r].source # NoSource
  /\ HeldUnderTheSource

LEMMA LiveInitInv == Init => LiveInv
<1> SUFFICES ASSUME Init PROVE LiveInv
  OBVIOUS
<1>1. /\ clearing = 0 /\ cache = Empty /\ reading = [r \in Readers |-> Away]
      /\ source \in Sources \cup {NoSource}
  BY DEF Init, LiveInit
<1>2. DOMAIN cache = {} /\ cache \in [DOMAIN cache -> Entries]
  BY <1>1 DEF Empty
<1>3. IsFiniteSet(DOMAIN cache) /\ Cardinality(DOMAIN cache) = 0
  BY <1>2, FS_EmptySet
<1>4. reading \in [Readers -> Readings] /\ \A r \in Readers : reading[r].pc = "idle"
  BY <1>1 DEF Readings, Away
<1> QED
  BY <1>1, <1>2, <1>3, <1>4, LiveAssumption DEF LiveInv, HeldUnderTheSource

\* A cache that holds less holds nothing else.
LEMMA DropsOnly ==
  ASSUME LiveInv, NEW out, cache' = Drop(cache, out)
  PROVE  /\ DOMAIN cache' \subseteq DOMAIN cache /\ IsFiniteSet(DOMAIN cache')
         /\ cache' \in [DOMAIN cache' -> Entries]
         /\ \A k \in DOMAIN cache' : cache'[k] = cache[k]
         /\ Cardinality(DOMAIN cache') <= Limit
<1>1. DOMAIN cache' = DOMAIN cache \ out /\ \A k \in DOMAIN cache' : cache'[k] = cache[k]
  BY DEF Drop
<1>2. cache' \in [DOMAIN cache' -> Entries]
  BY <1>1 DEF Drop, LiveInv
<1>3. IsFiniteSet(DOMAIN cache')
  BY <1>1, FS_Subset DEF LiveInv
<1>4. /\ Cardinality(DOMAIN cache') <= Cardinality(DOMAIN cache)
      /\ Cardinality(DOMAIN cache') \in Nat /\ Cardinality(DOMAIN cache) \in Nat
  BY <1>1, <1>3, FS_Subset, FS_CardinalityType DEF LiveInv
<1>5. Cardinality(DOMAIN cache) <= Limit /\ Limit \in Nat
  BY LiveAssumption DEF LiveInv, HeldUnderTheSource
<1> QED
  BY <1>1, <1>2, <1>3, <1>4, <1>5

\* _Cache.put keeps to the limit: it evicts one before it adds one.
LEMMA PutKeepsTheLimit ==
  ASSUME LiveInv, NEW k, NEW entry \in Entries, cache' \in Put(cache, k, entry)
  PROVE  /\ IsFiniteSet(DOMAIN cache') /\ cache' \in [DOMAIN cache' -> Entries]
         /\ \A j \in DOMAIN cache' : cache'[j] = IF j = k THEN entry ELSE cache[j]
         /\ \A j \in DOMAIN cache' : j = k \/ j \in DOMAIN cache
         /\ Cardinality(DOMAIN cache') <= Limit
<1>1. PICK out \in Evictions(cache) :
        cache' = [j \in (DOMAIN cache \ out) \cup {k} |-> IF j = k THEN entry ELSE cache[j]]
  BY DEF Put
<1>2. DOMAIN cache' = (DOMAIN cache \ out) \cup {k}
  BY <1>1
<1>3. cache' \in [DOMAIN cache' -> Entries]
  BY <1>1 DEF LiveInv
<1>4. IsFiniteSet(DOMAIN cache) /\ Cardinality(DOMAIN cache) \in Nat
      /\ Cardinality(DOMAIN cache) <= Limit /\ Limit \in Nat \ {0}
  BY LiveAssumption, FS_CardinalityType DEF LiveInv, HeldUnderTheSource
<1>5. IsFiniteSet(DOMAIN cache \ out) /\ Cardinality(DOMAIN cache \ out) \in Nat
      /\ Cardinality(DOMAIN cache \ out) < Limit
  <2>1. CASE Cardinality(DOMAIN cache) >= Limit
    <3>1. PICK j \in DOMAIN cache : out = {j}
      BY <1>1, <2>1 DEF Evictions, Oldest
    <3>2. /\ IsFiniteSet(DOMAIN cache \ {j})
          /\ Cardinality(DOMAIN cache \ {j}) = Cardinality(DOMAIN cache) - 1
      BY <1>4, FS_RemoveElement
    <3> QED
      BY <1>4, <2>1, <3>1, <3>2, FS_CardinalityType
  <2>2. CASE ~(Cardinality(DOMAIN cache) >= Limit)
    <3>1. out = {}
      BY <1>1, <2>2 DEF Evictions
    <3>2. DOMAIN cache \ out = DOMAIN cache
      BY <3>1
    <3> QED
      BY <1>4, <2>2, <3>2
  <2> QED
    BY <2>1, <2>2
<1>6. /\ IsFiniteSet((DOMAIN cache \ out) \cup {k})
      /\ \/ Cardinality((DOMAIN cache \ out) \cup {k}) = Cardinality(DOMAIN cache \ out)
         \/ Cardinality((DOMAIN cache \ out) \cup {k}) = Cardinality(DOMAIN cache \ out) + 1
  BY <1>5, FS_AddElement
<1> QED
  BY <1>1, <1>2, <1>3, <1>4, <1>5, <1>6

LEMMA LiveStep ==
  ASSUME LiveInv, LiveNext
  PROVE  LiveInv'
<1>0. /\ clearing \in Nat /\ source \in Sources \cup {NoSource} /\ reading \in [Readers -> Readings]
      /\ cache \in [DOMAIN cache -> Entries] /\ IsFiniteSet(DOMAIN cache)
  BY DEF LiveInv
<1>a. /\ \A k \in DOMAIN cache : cache[k].of = source \/ clearing > 0 \/ cache[k].late
      /\ Cardinality(DOMAIN cache) <= Limit
  BY DEF LiveInv, HeldUnderTheSource
<1>b. \A r \in Readers : reading[r].pc # "idle" =>
        /\ reading[r].source = source \/ clearing > 0 \/ reading[r].late
        /\ reading[r].source # NoSource
  BY DEF LiveInv
<1>1. ASSUME NEW s \in Sources \cup {NoSource}, Configure(s) PROVE LiveInv'
  <2>1. source' = s /\ clearing' = clearing + 1 /\ cache' = cache /\ reading' = reading
    BY <1>1 DEF Configure
  <2>2. clearing' \in Nat /\ clearing' > 0
    BY <1>0, <2>1
  <2> QED
    BY <1>0, <1>a, <1>b, <2>1, <2>2 DEF LiveInv, HeldUnderTheSource
<1>2. ASSUME Clear PROVE LiveInv'
  <2>1. /\ clearing > 0 /\ clearing' = clearing - 1 /\ cache' = Empty /\ source' = source
        /\ reading' = [r \in Readers |-> [reading[r] EXCEPT !.late = reading[r].pc # "idle"]]
    BY <1>2 DEF Clear, ClearedAll
  <2>2. DOMAIN cache' = {} /\ cache' \in [DOMAIN cache' -> Entries]
    BY <2>1 DEF Empty
  <2>3. IsFiniteSet(DOMAIN cache') /\ Cardinality(DOMAIN cache') = 0
    BY <2>2, FS_EmptySet
  <2>4. \A r \in Readers : /\ reading'[r] \in Readings /\ reading'[r].source = reading[r].source
                           /\ reading'[r].pc = reading[r].pc
                           /\ reading[r].pc # "idle" => reading'[r].late
    BY <1>0, <2>1 DEF Readings
  <2>5. reading' \in [Readers -> Readings]
    BY <2>1, <2>4
  <2>6. clearing' \in Nat
    BY <1>0, <2>1
  <2> QED
    BY <1>0, <1>b, <2>1, <2>2, <2>3, <2>4, <2>5, <2>6, LiveAssumption DEF LiveInv, HeldUnderTheSource
<1>3. ASSUME NEW r \in Readers, NEW k \in Keys \cup {NoKey}, Take(r, k) PROVE LiveInv'
  <2>1. /\ source # NoSource /\ UNCHANGED <<source, clearing, cache>>
        /\ reading' = [reading EXCEPT ![r] = [pc |-> "took", source |-> source, key |-> k, late |-> FALSE]]
    BY <1>3 DEF Take
  <2>2. source \in Sources \cup {NoSource}
    BY DEF LiveInv
  <2>3. reading' \in [Readers -> Readings]
    BY <1>0, <2>1, <2>2 DEF Readings
  <2> QED
    BY <1>0, <1>a, <1>b, <2>1, <2>3 DEF LiveInv, HeldUnderTheSource
<1>4. ASSUME NEW r \in Readers, NEW deictic \in BOOLEAN, NEW covered \in BOOLEAN,
             Look(r, deictic, covered)
      PROVE  LiveInv'
  <2> DEFINE fetches == Calls(reading[r].source, reading[r].key, deictic, covered)
                        /\ ~Fresh(reading[r].source, reading[r].key)
  <2>1. /\ reading[r].pc = "took" /\ UNCHANGED <<source, clearing>>
        /\ reading' = [reading EXCEPT ![r] = IF fetches THEN [@ EXCEPT !.pc = "calls"] ELSE Away]
        /\ \/ cache' = cache
           \/ \E out : cache' = Drop(cache, out)
    BY <1>4 DEF Look
  <2>2. /\ IsFiniteSet(DOMAIN cache') /\ cache' \in [DOMAIN cache' -> Entries]
        /\ \A k \in DOMAIN cache' : k \in DOMAIN cache /\ cache'[k] = cache[k]
        /\ Cardinality(DOMAIN cache') <= Limit
    <3>1. CASE cache' = cache
      BY <1>0, <1>a, <3>1
    <3>2. CASE \E out : cache' = Drop(cache, out)
      BY <3>2, DropsOnly
    <3> QED
      BY <2>1, <3>1, <3>2
  <2> HIDE DEF fetches
  <2>3. reading' \in [Readers -> Readings]
    BY <1>0, <2>1 DEF Readings, Away
  <2>4. \A q \in Readers : reading'[q].pc # "idle" =>
          /\ reading[q].pc # "idle" /\ reading'[q].source = reading[q].source
          /\ reading'[q].late = reading[q].late
    BY <1>0, <2>1 DEF Readings, Away
  <2> QED
    BY <1>0, <1>a, <1>b, <2>1, <2>2, <2>3, <2>4 DEF LiveInv, HeldUnderTheSource
<1>5. ASSUME NEW r \in Readers, NEW points \in BOOLEAN, Return(r, points) PROVE LiveInv'
  <2> DEFINE entry == Entry(reading[r].source, reading[r].late)
  <2>1. /\ reading[r].pc = "calls" /\ UNCHANGED <<source, clearing>>
        /\ reading' = [reading EXCEPT ![r] = Away]
        /\ \/ cache' = cache
           \/ cache' \in Put(cache, reading[r].key, entry)
    BY <1>5 DEF Return
  <2>2. /\ entry \in Entries /\ entry.of = reading[r].source /\ entry.late = reading[r].late
        /\ entry.of = source \/ clearing > 0 \/ entry.late
    BY <1>0, <1>b, <2>1 DEF Entries, Readings, Entry
  <2> HIDE DEF entry
  <2>3. /\ IsFiniteSet(DOMAIN cache') /\ cache' \in [DOMAIN cache' -> Entries]
        /\ \A k \in DOMAIN cache' : cache'[k] = entry \/ (k \in DOMAIN cache /\ cache'[k] = cache[k])
        /\ Cardinality(DOMAIN cache') <= Limit
    <3>1. CASE cache' = cache
      BY <1>0, <1>a, <3>1
    <3>2. CASE cache' \in Put(cache, reading[r].key, entry)
      <4>1. entry \in Entries
        BY <2>2
      <4> QED
        BY <3>2, <4>1, PutKeepsTheLimit
    <3> QED
      BY <2>1, <3>1, <3>2
  <2>4. reading' \in [Readers -> Readings]
    BY <1>0, <2>1 DEF Readings, Away
  <2>5. \A q \in Readers : reading'[q].pc # "idle" => reading'[q] = reading[q]
    BY <1>0, <2>1 DEF Away
  <2> QED
    BY <1>0, <1>a, <1>b, <2>1, <2>2, <2>3, <2>4, <2>5 DEF LiveInv, HeldUnderTheSource
<1>6. ASSUME Tick PROVE LiveInv'
  <2>1. /\ UNCHANGED <<source, clearing, reading>>
        /\ cache' = [k \in DOMAIN cache |-> [cache[k] EXCEPT !.age = IF Old(@) THEN @ ELSE @ + 1]]
    BY <1>6 DEF Tick
  <2>2. DOMAIN cache' = DOMAIN cache
    BY <2>1
  <2>3. \A k \in DOMAIN cache : /\ cache'[k] \in Entries /\ cache'[k].of = cache[k].of
                                /\ cache'[k].late = cache[k].late
    BY <1>0, <2>1 DEF Entries
  <2>4. cache' \in [DOMAIN cache' -> Entries]
    BY <2>1, <2>2, <2>3
  <2> QED
    BY <1>0, <1>a, <1>b, <2>1, <2>2, <2>3, <2>4 DEF LiveInv, HeldUnderTheSource
<1> QED
  BY <1>1, <1>2, <1>3, <1>4, <1>5, <1>6 DEF LiveNext

-----------------------------------------------------------------------------
(* The glossary                                                            *)

TermRows == [status : Statuses, source : {"human", "discovered"}]

GlossaryInv ==
  /\ DOMAIN terms \subseteq Terms /\ terms \in [DOMAIN terms -> TermRows]
  /\ judged \in [Terms -> {"nothing", "agreed", "refused", "withdrawn"}]
  /\ passes \in [Passes -> [pc : {"idle", "found"}, found : SUBSET Terms,
                            known : SUBSET {Word[t] : t \in Terms}]]
  /\ WordsAsJudged

LEMMA GlossaryInitInv == Init => GlossaryInv
<1> SUFFICES ASSUME Init PROVE GlossaryInv
  OBVIOUS
<1>1. /\ terms = NoTerms /\ judged = [t \in Terms |-> "nothing"]
      /\ passes = [p \in Passes |-> Waiting]
  BY DEF Init, GlossaryInit
<1>2. DOMAIN terms = {} /\ terms \in [DOMAIN terms -> TermRows]
  BY <1>1 DEF NoTerms
<1> QED
  BY <1>1, <1>2 DEF GlossaryInv, WordsAsJudged, InUse, Waiting

\* A row that is written, and every other row as it was.
LEMMA Writes ==
  ASSUME GlossaryInv, NEW t \in Terms, NEW status \in Statuses,
         NEW from \in {"human", "discovered"}, terms' = With(t, status, from)
  PROVE  /\ DOMAIN terms' = DOMAIN terms \cup {t} /\ DOMAIN terms' \subseteq Terms
         /\ terms' \in [DOMAIN terms' -> TermRows]
         /\ t \in InUse' <=> status = "confirmed" \/ from = "human"
         /\ \A u \in Terms \ {t} : u \in InUse' <=> u \in InUse
<1>1. terms' = [u \in DOMAIN terms \cup {t} |->
                  IF u = t THEN [status |-> status, source |-> from] ELSE terms[u]]
  BY DEF With
<1>2. DOMAIN terms' = DOMAIN terms \cup {t} /\ DOMAIN terms' \subseteq Terms
  BY <1>1 DEF GlossaryInv
<1>3. \A u \in DOMAIN terms' : /\ terms'[u] = IF u = t THEN [status |-> status, source |-> from] ELSE terms[u]
                               /\ terms'[u] \in TermRows
  BY <1>1, <1>2 DEF GlossaryInv, TermRows
<1>4. terms' \in [DOMAIN terms' -> TermRows]
  BY <1>1, <1>2, <1>3
<1>5. t \in InUse' <=> status = "confirmed" \/ from = "human"
  BY <1>2, <1>3 DEF InUse
<1>6. \A u \in Terms \ {t} : u \in InUse' <=> u \in InUse
  BY <1>2, <1>3 DEF InUse
<1> QED
  BY <1>2, <1>4, <1>5, <1>6

LEMMA GlossaryStep ==
  ASSUME GlossaryInv, GlossaryNext
  PROVE  GlossaryInv'
<1>0. /\ DOMAIN terms \subseteq Terms /\ terms \in [DOMAIN terms -> TermRows]
      /\ judged \in [Terms -> {"nothing", "agreed", "refused", "withdrawn"}]
      /\ \A t \in Terms : /\ judged[t] = "agreed" => t \in InUse
                          /\ judged[t] \in {"nothing", "refused"} => t \notin InUse
  BY DEF GlossaryInv, WordsAsJudged
<1>1. ASSUME NEW t \in Terms, CreateTerm(t) PROVE GlossaryInv'
  <2> DEFINE from == IF t \in DOMAIN terms THEN terms[t].source ELSE "human"
  <2>1. /\ terms' = With(t, "confirmed", from) /\ judged' = [judged EXCEPT ![t] = "agreed"]
        /\ passes' = passes
    BY <1>1 DEF CreateTerm, Says
  <2>2. from \in {"human", "discovered"} /\ "confirmed" \in Statuses
    BY <1>0 DEF TermRows, Statuses
  <2> HIDE DEF from
  <2>3. /\ DOMAIN terms' \subseteq Terms /\ terms' \in [DOMAIN terms' -> TermRows]
        /\ t \in InUse' /\ \A u \in Terms \ {t} : u \in InUse' <=> u \in InUse
    BY <2>1, <2>2, Writes
  <2> QED
    BY <1>0, <2>1, <2>3 DEF GlossaryInv, WordsAsJudged
<1>2. ASSUME NEW t \in Terms, NEW s \in Judgements, ReviewTerm(t, s) PROVE GlossaryInv'
  <2> DEFINE from == IF s = "confirmed" THEN "human" ELSE terms[t].source
  <2>1. /\ t \in DOMAIN terms /\ terms' = With(t, s, from) /\ passes' = passes
        /\ judged' = [judged EXCEPT ![t] = IF s = "confirmed" THEN "agreed"
                        ELSE IF judged[t] = "nothing" THEN "refused" ELSE "withdrawn"]
    BY <1>2 DEF ReviewTerm, Says
  <2>2. from \in {"human", "discovered"} /\ s \in Statuses
    BY <1>0, <2>1 DEF TermRows, Statuses, Judgements
  <2>3. s = "confirmed" \/ (s = "rejected" /\ from = terms[t].source)
    BY DEF Judgements
  <2> HIDE DEF from
  <2>4. /\ DOMAIN terms' \subseteq Terms /\ terms' \in [DOMAIN terms' -> TermRows]
        /\ t \in InUse' <=> s = "confirmed" \/ from = "human"
        /\ \A u \in Terms \ {t} : u \in InUse' <=> u \in InUse
    BY <2>1, <2>2, Writes
  <2>5. CASE s = "confirmed"
    BY <1>0, <2>1, <2>4, <2>5 DEF GlossaryInv, WordsAsJudged
  <2>6. CASE s # "confirmed"
    <3>1. judged[t] = "nothing" => t \notin InUse'
      BY <1>0, <2>1, <2>3, <2>4, <2>6 DEF InUse
    <3>2. judged'[t] = IF judged[t] = "nothing" THEN "refused" ELSE "withdrawn"
      BY <1>0, <2>1, <2>6
    <3> QED
      BY <1>0, <2>1, <2>4, <2>6, <3>1, <3>2 DEF GlossaryInv, WordsAsJudged
  <2> QED
    BY <2>5, <2>6
<1>3. ASSUME NEW t \in Terms, DeleteTerm(t) PROVE GlossaryInv'
  <2>1. /\ terms' = [u \in DOMAIN terms \ {t} |-> terms[u]] /\ passes' = passes
        /\ judged' = [judged EXCEPT ![t] = "nothing"]
    BY <1>3 DEF DeleteTerm, Says
  <2>2. /\ DOMAIN terms' \subseteq Terms /\ terms' \in [DOMAIN terms' -> TermRows]
        /\ t \notin InUse' /\ \A u \in Terms \ {t} : u \in InUse' <=> u \in InUse
    BY <1>0, <2>1 DEF InUse
  <2> QED
    BY <1>0, <2>1, <2>2 DEF GlossaryInv, WordsAsJudged
<1>4. ASSUME NEW p \in Passes, Discover(p) PROVE GlossaryInv'
  <2>1. PICK found \in SUBSET Terms \ {{}} :
          passes' = [passes EXCEPT ![p] =
            [pc |-> "found", found |-> found, known |-> {Word[t] : t \in DOMAIN terms}]]
    BY <1>4 DEF Discover
  <2>2. UNCHANGED <<terms, judged>>
    BY <1>4 DEF Discover
  <2> QED
    BY <1>0, <2>1, <2>2 DEF GlossaryInv, WordsAsJudged, InUse
<1>5. ASSUME NEW p \in Passes, Propose(p) PROVE GlossaryInv'
  <2>1. /\ judged' = judged /\ passes' = [passes EXCEPT ![p] = Waiting]
        /\ terms' = [t \in DOMAIN terms \cup Proposed(p) |->
             IF t \in DOMAIN terms THEN terms[t]
             ELSE [status |-> "proposed", source |-> "discovered"]]
    BY <1>5 DEF Propose, Added
  <2>2. DOMAIN terms' \subseteq Terms
    BY <1>0, <2>1 DEF Proposed, GlossaryInv
  <2>3. \A t \in DOMAIN terms' :
          /\ terms'[t] = IF t \in DOMAIN terms THEN terms[t]
                         ELSE [status |-> "proposed", source |-> "discovered"]
          /\ terms'[t] \in TermRows
    BY <1>0, <2>1 DEF TermRows, Statuses
  <2>4. terms' \in [DOMAIN terms' -> TermRows]
    BY <2>1, <2>3
  <2>5. InUse' = InUse
    BY <2>1, <2>3 DEF InUse
  <2>6. passes' \in [Passes -> [pc : {"idle", "found"}, found : SUBSET Terms,
                                known : SUBSET {Word[t] : t \in Terms}]]
    BY <2>1 DEF GlossaryInv, Waiting
  <2> QED
    BY <1>0, <2>1, <2>2, <2>4, <2>5, <2>6 DEF GlossaryInv, WordsAsJudged
<1> QED
  BY <1>1, <1>2, <1>3, <1>4, <1>5 DEF GlossaryNext

-----------------------------------------------------------------------------
(* The questions of the connector                                          *)

Askings == [pc : {"idle", "asked", "answered"}, here : SUBSET Documents,
            role : SUBSET Documents, reached : SUBSET Documents]

\* A question reaches nothing that was hidden since it began, and what is
\* still counted as hidden from its role is hidden from it now.
QuestionInv ==
  /\ asking \in [Questions -> Askings]
  /\ \A q \in Questions :
       /\ asking[q].pc # "idle" => asking[q].reached \cap asking[q].here = {}
       /\ asking[q].pc = "asked" => asking[q].role \subseteq HiddenFrom(role)
  /\ QuestionsAreNarrowed

\* decide: what the rules of a role hide, they do not allow.
LEMMA HiddenIsNotAllowed ==
  ASSUME NEW rules, rules # NoRole, NEW d \in HiddenFrom(rules)
  PROVE  ~Allowed(rules, d)
<1>1. d \in Documents /\ \/ Matching(rules, "deny", d) # {}
                         \/ Matching(rules, "allow", d) = {} /\ \E rule \in rules : rule.effect = "allow"
  BY DEF HiddenFrom
<1> QED
  BY <1>1 DEF Allowed

LEMMA QuestionInitInv == Init => QuestionInv
<1> SUFFICES ASSUME Init PROVE QuestionInv
  OBVIOUS
<1>1. asking = [q \in Questions |-> Silent]
  BY DEF Init, ConnectorInit
<1>2. Silent \in Askings /\ Silent.pc = "idle"
  BY DEF Silent, Askings
<1> QED
  BY <1>1, <1>2 DEF QuestionInv, QuestionsAreNarrowed

\* Whatever the row and the rules become, a question that is being served has
\* what is still hidden.
LEMMA StillHiddenKeeps ==
  ASSUME QuestionInv, NEW r, asking' = StillHidden(r, role')
  PROVE  QuestionInv'
<1>1. asking' = [q \in Questions |->
        [asking[q] EXCEPT !.here = @ \cap HiddenHere(r), !.role = @ \cap HiddenFrom(role')]]
  BY DEF StillHidden
<1>2. asking \in [Questions -> Askings]
  BY DEF QuestionInv
<1>3. ASSUME NEW q \in Questions
      PROVE  /\ asking'[q] \in Askings /\ asking'[q].pc = asking[q].pc
             /\ asking'[q].here = asking[q].here \cap HiddenHere(r)
             /\ asking'[q].role = asking[q].role \cap HiddenFrom(role')
             /\ asking'[q].reached = asking[q].reached
  <2> DEFINE a == asking[q]
             h == asking[q].here \cap HiddenHere(r)
             o == asking[q].role \cap HiddenFrom(role')
  <2>1. a \in Askings /\ h \in SUBSET Documents /\ o \in SUBSET Documents
    BY <1>2 DEF Askings
  <2>2. asking'[q] = [a EXCEPT !.here = h, !.role = o]
    BY <1>1
  <2> HIDE DEF a, h, o
  <2>3. /\ asking'[q] \in Askings /\ asking'[q].pc = a.pc /\ asking'[q].here = h
        /\ asking'[q].role = o /\ asking'[q].reached = a.reached
    BY <2>1, <2>2 DEF Askings
  <2> QED
    BY <2>3 DEF a, h, o
<1>4. asking' \in [Questions -> Askings]
  BY <1>1, <1>3
<1>5. HiddenFrom(role)' = HiddenFrom(role')
  BY DEF HiddenFrom
<1>6. \A q \in Questions :
        /\ asking'[q].pc # "idle" => asking'[q].reached \cap asking'[q].here = {}
        /\ asking'[q].pc = "asked" => asking'[q].role \subseteq HiddenFrom(role)'
  BY <1>3, <1>5 DEF QuestionInv
<1>7. QuestionsAreNarrowed'
  BY <1>3 DEF QuestionInv, QuestionsAreNarrowed
<1> QED
  BY <1>4, <1>6, <1>7 DEF QuestionInv

LEMMA QuestionsUntouched ==
  ASSUME QuestionInv, UNCHANGED <<asking, role>>
  PROVE  QuestionInv'
  BY DEF QuestionInv, QuestionsAreNarrowed, HiddenFrom

LEMMA QuestionStep ==
  ASSUME QuestionInv, ConnectorNext
  PROVE  QuestionInv'
<1>0. asking \in [Questions -> Askings]
  BY DEF QuestionInv
<1>1. ASSUME NEW e \in Editors, Get(e) \/ Open(e) PROVE QuestionInv'
  BY <1>1, QuestionsUntouched DEF Get, Open
<1>2. ASSUME NEW e \in Editors, Save(e) PROVE QuestionInv'
  <2>1. asking' = StillHidden(Updated(e), role) /\ role' = role
    BY <1>2 DEF Save
  <2>2. asking' = StillHidden(Updated(e), role')
    BY <2>1
  <2> QED
    BY <2>2, StillHiddenKeeps
<1>3. ASSUME NEW rules, RoleChanges(rules) PROVE QuestionInv'
  <2>1. asking' = StillHidden(Bumped(row), role')
    BY <1>3 DEF RoleChanges
  <2> QED
    BY <2>1, StillHiddenKeeps
<1>4. CASE CreateRole \/ DeleteRole \/ SetLabelRules
  BY <1>3, <1>4 DEF CreateRole, DeleteRole, SetLabelRules
<1>5. ASSUME NEW q \in Questions, AskQuestion(q) PROVE QuestionInv'
  <2> DEFINE reached == IF row.state = "active" THEN Corpus(row.scope, Documents) ELSE {}
  <2>1. /\ role' = role
        /\ asking' = [asking EXCEPT ![q] =
             [pc |-> "asked", here |-> HiddenHere(row), role |-> HiddenFrom(role), reached |-> reached]]
    BY <1>5 DEF AskQuestion
  <2>2. /\ reached \subseteq Documents /\ HiddenHere(row) \subseteq Documents
        /\ HiddenFrom(role) \subseteq Documents
    BY DEF Corpus, HiddenHere, HiddenFrom
  <2>3. reached \cap HiddenHere(row) = {}
    BY DEF Corpus, HiddenHere
  <2> HIDE DEF reached
  <2>4. asking' \in [Questions -> Askings]
    BY <1>0, <2>1, <2>2 DEF Askings
  <2>5. HiddenFrom(role)' = HiddenFrom(role)
    BY <2>1 DEF HiddenFrom
  <2> QED
    BY <1>0, <2>1, <2>3, <2>4, <2>5 DEF QuestionInv, QuestionsAreNarrowed
<1>6. ASSUME NEW q \in Questions, Narrow(q) PROVE QuestionInv'
  <2> DEFINE kept == {d \in asking[q].reached : role = NoRole \/ Allowed(role, d)}
  <2>1. /\ role' = role /\ asking[q].pc = "asked"
        /\ asking' = [asking EXCEPT ![q].pc = "answered", ![q].reached = kept]
    BY <1>6 DEF Narrow
  <2>2. kept \subseteq asking[q].reached
    OBVIOUS
  <2>3. kept \cap asking[q].role = {}
    <3>1. asking[q].role \subseteq HiddenFrom(role)
      BY <2>1 DEF QuestionInv
    <3>2. role = NoRole => HiddenFrom(role) = {}
      BY DEF HiddenFrom
    <3> QED
      BY <3>1, <3>2, HiddenIsNotAllowed
  <2> HIDE DEF kept
  <2>4. /\ asking'[q] \in Askings /\ asking'[q].pc = "answered" /\ asking'[q].reached = kept
        /\ asking'[q].here = asking[q].here /\ asking'[q].role = asking[q].role
    <3>1. asking'[q] = [asking[q] EXCEPT !.pc = "answered", !.reached = kept]
      BY <1>0, <2>1
    <3>2. asking[q] \in Askings /\ kept \in SUBSET Documents
      BY <1>0, <2>2 DEF Askings
    <3> QED
      BY <3>1, <3>2 DEF Askings
  <2>5. \A p \in Questions \ {q} : asking'[p] = asking[p]
    BY <1>0, <2>1
  <2>6. asking' \in [Questions -> Askings]
    BY <1>0, <2>1, <2>4, <2>5
  <2>7. HiddenFrom(role)' = HiddenFrom(role)
    BY <2>1 DEF HiddenFrom
  <2>8. asking'[q].reached \cap (asking'[q].here \cup asking'[q].role) = {}
    BY <2>1, <2>2, <2>3, <2>4 DEF QuestionInv
  <2>9. QuestionsAreNarrowed'
    BY <2>5, <2>8 DEF QuestionInv, QuestionsAreNarrowed
  <2>10. \A p \in Questions :
           /\ asking'[p].pc # "idle" => asking'[p].reached \cap asking'[p].here = {}
           /\ asking'[p].pc = "asked" => asking'[p].role \subseteq HiddenFrom(role)'
    BY <2>4, <2>5, <2>7, <2>8 DEF QuestionInv
  <2> QED
    BY <2>6, <2>9, <2>10 DEF QuestionInv
<1>7. ASSUME NEW q \in Questions, Answered(q) PROVE QuestionInv'
  <2>1. role' = role /\ asking' = [asking EXCEPT ![q] = Silent]
    BY <1>7 DEF Answered
  <2>2. Silent \in Askings /\ Silent.pc = "idle"
    BY DEF Silent, Askings
  <2>3. HiddenFrom(role)' = HiddenFrom(role)
    BY <2>1 DEF HiddenFrom
  <2> QED
    BY <1>0, <2>1, <2>2, <2>3 DEF QuestionInv, QuestionsAreNarrowed
<1> QED
  BY <1>1, <1>2, <1>4, <1>5, <1>6, <1>7 DEF ConnectorNext

-----------------------------------------------------------------------------
(* The decisions of the administrator                                      *)

Slots == [op : Edits \cup {"none"}, pc : {"idle", "got", "open"},
          copy : Rows, seen : Rows, wants : Rows, missed : SUBSET Fields]

\* A request has what the row has, or counts what it has missed; a put gives
\* back the state and the scope it was given.
Holds(e) ==
  editing[e].pc # "idle" =>
    /\ editing[e].op = "put_retrieval" => \A f \in Fields : editing[e].wants[f] = editing[e].copy[f]
    /\ \A f \in Fields : f \in editing[e].missed
         \/ (editing[e].copy[f] = row[f] /\ editing[e].seen[f] = row[f])

DecisionInv ==
  /\ row \in Rows /\ editing \in [Editors -> Slots]
  /\ decided \in [state : States, scope : Scopes, stands : SUBSET Fields]
  /\ \A e \in Editors : Holds(e)
  /\ DecisionsStand

\* The statement that writes the row writes one column or none of the two.
LEMMA UpdatedType ==
  ASSUME DecisionInv, NEW e \in Editors
  PROVE  /\ Updated(e) \in Rows
         /\ \A f \in Fields : Updated(e)[f] =
              IF f \in Assigned(editing[e].op) /\ editing[e].wants[f] # editing[e].seen[f]
              THEN editing[e].wants[f] ELSE row[f]
<1>1. row \in Rows /\ editing[e] \in Slots
  BY DEF DecisionInv
<1>2. /\ DOMAIN row = {"state", "scope", "knobs", "version"}
      /\ \A f \in DOMAIN row : Updated(e)[f] =
           IF f = "version"
           THEN IF editing[e].op = "set_state" THEN row.version ELSE editing[e].seen.version + 1
           ELSE IF f \in Assigned(editing[e].op) /\ editing[e].wants[f] # editing[e].seen[f]
                THEN editing[e].wants[f] ELSE row[f]
      /\ Updated(e) = [f \in DOMAIN row |-> Updated(e)[f]]
  BY <1>1 DEF Updated, Rows
<1>3. /\ Updated(e)["state"] \in States /\ Updated(e)["scope"] \in Scopes
      /\ Updated(e)["knobs"] \in [Knobs -> {0, 1}] /\ Updated(e)["version"] \in Nat
  BY <1>1, <1>2 DEF Slots, Rows
<1>4. Updated(e) \in Rows
  BY <1>2, <1>3 DEF Rows
<1> QED
  BY <1>2, <1>4 DEF Fields

LEMMA BlankType == Blank \in Rows /\ Rested \in Slots /\ Rested.pc = "idle"
<1>1. Blank \in Rows
  BY ConnectorAssumption DEF Blank, Rows, States
<1> QED
  BY <1>1 DEF Rested, Slots

LEMMA DecisionInitInv == Init => DecisionInv
<1> SUFFICES ASSUME Init PROVE DecisionInv
  OBVIOUS
<1>1. /\ row \in {[Blank EXCEPT !.scope = s] : s \in Scopes}
      /\ editing = [e \in Editors |-> Rested]
      /\ decided = [state |-> row.state, scope |-> row.scope, stands |-> Fields]
      /\ trail.before = row.scope /\ trail.after = row.scope
      /\ trail.counts = Diff(row.scope, row.scope, Documents)
  BY DEF Init, ConnectorInit
<1>2. row \in Rows
  BY <1>1, BlankType DEF Rows
<1>3. decided \in [state : States, scope : Scopes, stands : SUBSET Fields]
  BY <1>1, <1>2 DEF Rows
<1>4. \A f \in decided.stands : row[f] = decided[f]
  BY <1>1 DEF Fields
<1>5. DecisionsStand
  BY <1>1, <1>4 DEF DecisionsStand
<1> QED
  BY <1>1, <1>2, <1>3, <1>5, BlankType DEF DecisionInv, Holds

\* A request that begins or goes on, and the row as it is.
LEMMA Begins ==
  ASSUME DecisionInv, NEW e \in Editors, NEW slot \in Slots,
         editing' = [editing EXCEPT ![e] = slot],
         slot.op = "put_retrieval" => \A f \in Fields : slot.wants[f] = slot.copy[f],
         \A f \in Fields : f \in slot.missed \/ (slot.copy[f] = row[f] /\ slot.seen[f] = row[f]),
         UNCHANGED <<row, decided, trail>>
  PROVE  DecisionInv'
<1>1. editing' \in [Editors -> Slots] /\ editing'[e] = slot
      /\ \A d \in Editors \ {e} : editing'[d] = editing[d]
  BY DEF DecisionInv
<1>2. \A d \in Editors : Holds(d)'
  BY <1>1 DEF DecisionInv, Holds
<1>3. DecisionsStand'
  BY DEF DecisionInv, DecisionsStand
<1> QED
  BY <1>1, <1>2, <1>3 DEF DecisionInv

LEMMA StepGet ==
  ASSUME DecisionInv, NEW e \in Editors, Get(e)
  PROVE  DecisionInv'
<1>0. PICK op \in {"update_scope", "put_retrieval"} :
        \E wants \in IF op = "update_scope" THEN WithScope(row) ELSE WithKnob(row) :
          editing' = [editing EXCEPT ![e] =
            [op |-> op, pc |-> "got", copy |-> row, seen |-> row, wants |-> wants, missed |-> {}]]
  BY DEF Get
<1>1. PICK wants \in IF op = "update_scope" THEN WithScope(row) ELSE WithKnob(row) :
        editing' = [editing EXCEPT ![e] =
          [op |-> op, pc |-> "got", copy |-> row, seen |-> row, wants |-> wants, missed |-> {}]]
  BY <1>0
<1>2. row \in Rows
  BY DEF DecisionInv
<1>3. /\ wants \in Rows
      /\ op = "put_retrieval" => wants.state = row.state /\ wants.scope = row.scope
  <2>1. CASE op = "update_scope"
    BY <1>1, <1>2, <2>1 DEF WithScope, Rows
  <2>2. CASE op = "put_retrieval"
    <3>1. PICK k \in Knobs : wants = [row EXCEPT !.knobs = [row.knobs EXCEPT ![k] = 1 - row.knobs[k]]]
      BY <1>1, <2>2 DEF WithKnob
    <3>2. [row.knobs EXCEPT ![k] = 1 - row.knobs[k]] \in [Knobs -> {0, 1}]
      BY <1>2 DEF Rows
    <3> QED
      BY <1>2, <3>1, <3>2 DEF Rows
  <2> QED
    BY <2>1, <2>2
<1> DEFINE slot == [op |-> op, pc |-> "got", copy |-> row, seen |-> row, wants |-> wants, missed |-> {}]
<1>4. /\ slot \in Slots /\ slot.copy = row /\ slot.seen = row /\ slot.wants = wants /\ slot.op = op
  BY <1>1, <1>2, <1>3 DEF Slots, Edits
<1>5. UNCHANGED <<row, decided, trail>> /\ editing' = [editing EXCEPT ![e] = slot]
  BY <1>1 DEF Get
<1> HIDE DEF slot
<1>6. slot.op = "put_retrieval" => \A f \in Fields : slot.wants[f] = slot.copy[f]
  BY <1>3, <1>4 DEF Fields
<1> QED
  BY <1>4, <1>5, <1>6, Begins

LEMMA StepOpen ==
  ASSUME DecisionInv, NEW e \in Editors, Open(e)
  PROVE  DecisionInv'
<1>1. row \in Rows /\ editing[e] \in Slots /\ UNCHANGED <<row, decided, trail>>
      /\ editing \in [Editors -> Slots]
  BY DEF DecisionInv, Open
<1>2. CASE editing[e].pc = "got" /\ editing' = [editing EXCEPT ![e].pc = "open", ![e].seen = row]
  <2>1. PICK slot \in Slots : slot = [editing[e] EXCEPT !.pc = "open", !.seen = row]
    BY <1>1 DEF Slots
  <2>2. editing' = [editing EXCEPT ![e] = slot]
    BY <1>1, <1>2, <2>1
  <2>3. /\ slot.op = editing[e].op /\ slot.wants = editing[e].wants /\ slot.copy = editing[e].copy
        /\ slot.missed = editing[e].missed /\ slot.seen = row
    BY <1>1, <2>1 DEF Slots
  <2>4. Holds(e)
    BY DEF DecisionInv
  <2>5. /\ slot.op = "put_retrieval" => \A f \in Fields : slot.wants[f] = slot.copy[f]
        /\ \A f \in Fields : f \in slot.missed \/ (slot.copy[f] = row[f] /\ slot.seen[f] = row[f])
    BY <1>2, <2>3, <2>4 DEF Holds
  <2>6. UNCHANGED <<row, decided, trail>>
    BY <1>1
  <2> QED
    BY <2>2, <2>5, <2>6, Begins
<1>3. ASSUME NEW wants \in WithState(row),
             editing' = [editing EXCEPT ![e] =
               [op |-> "set_state", pc |-> "open", copy |-> row, seen |-> row, wants |-> wants, missed |-> {}]]
      PROVE  DecisionInv'
  <2> DEFINE slot == [op |-> "set_state", pc |-> "open", copy |-> row, seen |-> row,
                      wants |-> wants, missed |-> {}]
  <2>1. wants \in Rows
    BY <1>1 DEF WithState, Rows
  <2>2. slot \in Slots /\ slot.copy = row /\ slot.seen = row /\ slot.op = "set_state"
    BY <1>1, <2>1 DEF Slots, Edits
  <2>3. editing' = [editing EXCEPT ![e] = slot]
    BY <1>3
  <2> HIDE DEF slot
  <2> QED
    BY <1>1, <2>2, <2>3, Begins
<1> QED
  BY <1>2, <1>3 DEF Open

LEMMA StepSave ==
  ASSUME DecisionInv, NEW e \in Editors, Save(e)
  PROVE  DecisionInv'
<1> DEFINE new == Updated(e)
           mine == editing[e]
<1>1. /\ mine.pc = "open" /\ row' = new
      /\ editing' = [f \in Editors |->
           IF f = e THEN Rested
           ELSE [editing[f] EXCEPT !.missed = IF editing[f].pc = "idle" THEN @ ELSE @ \cup Missing(e, new)]]
      /\ decided' = [state |-> IF "state" \in Decides(mine.op) THEN mine.wants.state ELSE decided.state,
                     scope |-> IF "scope" \in Decides(mine.op) THEN mine.wants.scope ELSE decided.scope,
                     stands |-> (decided.stands \cup Decides(mine.op)) \ (mine.missed \cap MayUndo(mine.op))]
      /\ trail' = IF mine.op = "update_scope"
                  THEN [before |-> mine.seen.scope, after |-> mine.wants.scope,
                        counts |-> Diff(mine.copy.scope, mine.wants.scope, Documents),
                        raced |-> "scope" \in mine.missed]
                  ELSE trail
  BY DEF Save
<1>2. /\ row \in Rows /\ mine \in Slots /\ editing \in [Editors -> Slots] /\ Holds(e)
      /\ decided \in [state : States, scope : Scopes, stands : SUBSET Fields]
      /\ \A f \in decided.stands : row[f] = decided[f]
      /\ trail.raced \/ trail.counts = Diff(trail.before, trail.after, Documents)
  BY DEF DecisionInv, DecisionsStand
<1>3. /\ new \in Rows
      /\ \A f \in Fields : new[f] =
           IF f \in Assigned(mine.op) /\ mine.wants[f] # mine.seen[f] THEN mine.wants[f] ELSE row[f]
  BY UpdatedType
<1> HIDE DEF new
<1>4. /\ mine.op = "put_retrieval" => \A f \in Fields : mine.wants[f] = mine.copy[f]
      /\ \A f \in Fields : f \in mine.missed \/ (mine.copy[f] = row[f] /\ mine.seen[f] = row[f])
  BY <1>1, <1>2 DEF Holds
<1>5. Decides(mine.op) \subseteq Fields /\ Decides(mine.op) \subseteq MayUndo(mine.op)
      /\ Decides(mine.op) \subseteq Assigned(mine.op)
  BY DEF Decides, MayUndo, Assigned, Fields
<1>6. decided' \in [state : States, scope : Scopes, stands : SUBSET Fields]
  BY <1>1, <1>2, <1>5 DEF Slots, Rows
<1>7. \A f \in Fields : decided'[f] = IF f \in Decides(mine.op) THEN mine.wants[f] ELSE decided[f]
  BY <1>1, <1>2 DEF Fields
<1>8. ASSUME NEW f \in decided'.stands PROVE row'[f] = decided'[f]
  <2>1. /\ f \in Fields /\ f \in decided.stands \cup Decides(mine.op)
        /\ f \notin mine.missed \cap MayUndo(mine.op)
    BY <1>1, <1>6
  <2>2. CASE f \in Decides(mine.op)
    <3>1. mine.seen[f] = row[f] /\ f \in Assigned(mine.op)
      BY <1>4, <1>5, <2>1, <2>2
    <3> QED
      BY <1>1, <1>3, <1>7, <2>1, <2>2, <3>1
  <2>3. CASE f \notin Decides(mine.op) /\ mine.op = "put_retrieval"
    <3>1. mine.wants[f] = row[f]
      BY <1>4, <2>1, <2>3 DEF MayUndo
    <3> QED
      BY <1>1, <1>2, <1>3, <1>7, <2>1, <2>3, <3>1
  <2>4. CASE f \notin Decides(mine.op) /\ mine.op # "put_retrieval"
    <3>1. f \notin Assigned(mine.op)
      BY <2>4 DEF Assigned
    <3> QED
      BY <1>1, <1>2, <1>3, <1>7, <2>1, <2>4, <3>1
  <2> QED
    BY <2>2, <2>3, <2>4
<1>9. trail'.raced \/ trail'.counts = Diff(trail'.before, trail'.after, Documents)
  <2>1. CASE mine.op = "update_scope"
    <3>1. "scope" \in mine.missed \/ mine.copy.scope = mine.seen.scope
      BY <1>4 DEF Fields
    <3>2. /\ trail'.before = mine.seen.scope /\ trail'.after = mine.wants.scope
          /\ trail'.counts = Diff(mine.copy.scope, mine.wants.scope, Documents)
          /\ trail'.raced = ("scope" \in mine.missed)
      BY <1>1, <2>1
    <3> QED
      BY <3>1, <3>2
  <2>2. CASE mine.op # "update_scope"
    BY <1>1, <1>2, <2>2
  <2> QED
    BY <2>1, <2>2
<1>10. ASSUME NEW f \in Editors
       PROVE  editing'[f] \in Slots /\ Holds(f)'
  <2>1. CASE f = e
    BY <1>1, <2>1, BlankType DEF Holds
  <2>2. CASE f # e
    <3> DEFINE slot == editing[f]
               gone == IF slot.pc = "idle" THEN slot.missed ELSE slot.missed \cup Missing(e, new)
    <3>1. slot \in Slots /\ gone \subseteq Fields /\ Holds(f)
      BY <1>2, <1>5 DEF Slots, Missing, DecisionInv
    <3>2. editing'[f] = [slot EXCEPT !.missed = gone]
      BY <1>1, <2>2
    <3>3. slot.pc # "idle" => gone = slot.missed \cup Missing(e, new)
      OBVIOUS
    <3> HIDE DEF gone
    <3>4. /\ editing'[f] \in Slots /\ editing'[f].missed = gone
          /\ editing'[f].op = slot.op /\ editing'[f].pc = slot.pc /\ editing'[f].copy = slot.copy
          /\ editing'[f].seen = slot.seen /\ editing'[f].wants = slot.wants
      BY <3>1, <3>2 DEF Slots
    <3>5. \A g \in Fields : g \in Missing(e, new) \/ row'[g] = row[g]
      BY <1>1 DEF Missing
    <3> QED
      BY <3>1, <3>3, <3>4, <3>5 DEF Holds
  <2> QED
    BY <2>1, <2>2
<1>11. editing' \in [Editors -> Slots]
  BY <1>1, <1>10
<1> QED
  BY <1>1, <1>3, <1>6, <1>8, <1>9, <1>10, <1>11 DEF DecisionInv, DecisionsStand

\* The state and the scope are what they were.
LEMMA RowKeepsDecisions ==
  ASSUME DecisionInv, row' \in Rows, \A f \in Fields : row'[f] = row[f],
         UNCHANGED <<editing, decided, trail>>
  PROVE  DecisionInv'
<1>1. \A e \in Editors : Holds(e)'
  BY DEF DecisionInv, Holds
<1>2. \A f \in decided.stands : row'[f] = decided[f]
  BY DEF DecisionInv, DecisionsStand
<1> QED
  BY <1>1, <1>2 DEF DecisionInv, DecisionsStand

LEMMA DecisionStep ==
  ASSUME DecisionInv, ConnectorNext
  PROVE  DecisionInv'
<1>0. row \in Rows
  BY DEF DecisionInv
<1>1. ASSUME NEW e \in Editors, Get(e) \/ Open(e) \/ Save(e) PROVE DecisionInv'
  BY <1>1, StepGet, StepOpen, StepSave
<1>2. ASSUME NEW rules, RoleChanges(rules) PROVE DecisionInv'
  <2>1. row' = [row EXCEPT !.version = @ + 1] /\ UNCHANGED <<editing, decided, trail>>
    BY <1>2 DEF RoleChanges, Bumped
  <2>2. row' \in Rows /\ \A f \in Fields : row'[f] = row[f]
    BY <1>0, <2>1 DEF Rows, Fields
  <2> QED
    BY <2>1, <2>2, RowKeepsDecisions
<1>3. CASE CreateRole \/ DeleteRole \/ SetLabelRules
  BY <1>2, <1>3 DEF CreateRole, DeleteRole, SetLabelRules
<1>4. ASSUME NEW q \in Questions, AskQuestion(q) \/ Narrow(q) \/ Answered(q) PROVE DecisionInv'
  BY <1>0, <1>4, RowKeepsDecisions DEF AskQuestion, Narrow, Answered
<1> QED
  BY <1>1, <1>3, <1>4 DEF ConnectorNext

-----------------------------------------------------------------------------
(* Transcripts                                                             *)

Recordings == [pc : {"idle", "writes", "recorded", "lost"}, ordinal : Nat,
               thread : ThreadIds \cup {NoThread}, raced : BOOLEAN]

\* An ordinal that was taken is the next one, unless another turn has been
\* recorded in the thread since; and it is one of the thread's once recorded.
Keeps(w) ==
  LET t == recording[w].thread
      o == recording[w].ordinal
  IN recording[w].pc # "idle" =>
       /\ t \in ThreadIds /\ thread[t] # "new"
       /\ recording[w].pc = "writes" /\ thread[t] # "gone" =>
            \E n \in Nat : /\ turns[t] = 1..n /\ o \in 1..(n + 1)
                           /\ o \in 1..n => recording[w].raced
       /\ recording[w].pc = "recorded" => thread[t] = "gone" \/ o \in turns[t]
       /\ recording[w].pc = "lost" => thread[t] = "gone" \/ recording[w].raced

TalkInv ==
  /\ thread \in [ThreadIds -> {"new", "untitled", "titled", "gone"}]
  /\ turns \in [ThreadIds -> SUBSET Nat]
  /\ \A t \in ThreadIds : \E n \in Nat : turns[t] = 1..n
  /\ recording \in [Writers -> Recordings]
  /\ \A w \in Writers : Keeps(w)

LEMMA TalkIsWhole ==
  ASSUME TalkInv
  PROVE  TranscriptIsWhole
<1>1. ASSUME NEW t \in ThreadIds PROVE turns[t] = 1..Cardinality(turns[t])
  <2>1. PICK n \in Nat : turns[t] = 1..n
    BY DEF TalkInv
  <2>2. Cardinality(1..n) = n
    BY FS_Interval
  <2> QED
    BY <2>1, <2>2
<1>2. \A w \in Writers : Keeps(w)
  BY DEF TalkInv
<1> QED
  BY <1>1, <1>2 DEF TranscriptIsWhole, Keeps

LEMMA TalkInitInv == Init => TalkInv
<1> SUFFICES ASSUME Init PROVE TalkInv
  OBVIOUS
<1>1. /\ thread = [t \in ThreadIds |-> "new"] /\ turns = [t \in ThreadIds |-> {}]
      /\ recording = [w \in Writers |-> Quiet]
  BY DEF Init, ThreadsInit
<1>2. Quiet \in Recordings /\ Quiet.pc = "idle"
  BY DEF Quiet, Recordings
<1>3. {} = 1..0
  OBVIOUS
<1> QED
  BY <1>1, <1>2, <1>3 DEF TalkInv, Keeps

\* max(ordinal) + 1 of a thread without gaps.
LEMMA FollowingIsNext ==
  ASSUME NEW t \in ThreadIds, NEW n \in Nat, turns[t] = 1..n
  PROVE  Following(t) = n + 1
<1> DEFINE next == {1} \cup {p + 1 : p \in turns[t]}
<1>1. n + 1 \in next /\ \A p \in turns[t] : p < n + 1
  <2>1. n = 0 \/ n \in 1..n
    OBVIOUS
  <2> QED
    BY <2>1
<1>2. ASSUME NEW o \in next, \A p \in turns[t] : p < o PROVE o = n + 1
  <2>1. CASE n = 0
    <3>1. turns[t] = {}
      BY <2>1
    <3> QED
      BY <2>1, <3>1
  <2>2. CASE n # 0
    <3>1. n \in turns[t]
      BY <2>2
    <3>2. n < o
      BY <1>2, <3>1
    <3>3. CASE o = 1
      BY <2>2, <3>2, <3>3
    <3>4. CASE \E p \in turns[t] : o = p + 1
      BY <3>2, <3>4
    <3> QED
      BY <3>3, <3>4
  <2> QED
    BY <2>1, <2>2
<1> QED
  BY <1>1, <1>2 DEF Following

\* Where a thread's turns are left alone, and it does not come back, a request
\* that is not touched keeps what it has.
LEMMA KeepsWhat ==
  ASSUME TalkInv, NEW w \in Writers, recording'[w] = recording[w],
         \A t \in ThreadIds : thread[t] # "new" => thread'[t] # "new",
         \A t \in ThreadIds : thread'[t] = "gone" \/ (thread[t] # "gone" /\ turns'[t] = turns[t])
  PROVE  Keeps(w)'
<1>1. Keeps(w)
  BY DEF TalkInv
<1> QED
  BY <1>1 DEF Keeps

LEMMA TalkUntouched ==
  ASSUME TalkInv, UNCHANGED <<thread, turns, recording>>
  PROVE  TalkInv'
  BY DEF TalkInv, Keeps

LEMMA TalkStep ==
  ASSUME TalkInv, TalkNext
  PROVE  TalkInv'
<1>0. /\ thread \in [ThreadIds -> {"new", "untitled", "titled", "gone"}]
      /\ turns \in [ThreadIds -> SUBSET Nat] /\ recording \in [Writers -> Recordings]
      /\ \A t \in ThreadIds : \E n \in Nat : turns[t] = 1..n
      /\ \A w \in Writers : Keeps(w)
  BY DEF TalkInv
<1>1. ASSUME NEW t \in ThreadIds, NEW title \in BOOLEAN, CreateThread(t, title) PROVE TalkInv'
  <2>1. /\ thread[t] = "new" /\ UNCHANGED <<turns, recording>>
        /\ thread' = [thread EXCEPT ![t] = IF title THEN "titled" ELSE "untitled"]
    BY <1>1 DEF CreateThread
  <2>2. thread' \in [ThreadIds -> {"new", "untitled", "titled", "gone"}]
    BY <1>0, <2>1
  <2>3. /\ \A u \in ThreadIds : thread[u] # "new" => thread'[u] # "new"
        /\ \A u \in ThreadIds : thread'[u] = "gone" \/ (thread[u] # "gone" /\ turns'[u] = turns[u])
    BY <1>0, <2>1
  <2>4. \A w \in Writers : Keeps(w)'
    BY <2>1, <2>3, KeepsWhat
  <2> QED
    BY <1>0, <2>1, <2>2, <2>4 DEF TalkInv
<1>2. ASSUME NEW gone \in SUBSET ThreadIds, DeleteThreads(gone) PROVE TalkInv'
  <2>1. /\ gone \subseteq Present /\ recording' = recording
        /\ thread' = [t \in ThreadIds |-> IF t \in gone THEN "gone" ELSE thread[t]]
        /\ turns' = [t \in ThreadIds |-> IF t \in gone THEN {} ELSE turns[t]]
    BY <1>2 DEF DeleteThreads
  <2>2. /\ thread' \in [ThreadIds -> {"new", "untitled", "titled", "gone"}]
        /\ turns' \in [ThreadIds -> SUBSET Nat]
    BY <1>0, <2>1
  <2>3. \A t \in ThreadIds : \E n \in Nat : turns'[t] = 1..n
    <3>1. {} = 1..0
      OBVIOUS
    <3> QED
      BY <1>0, <2>1, <3>1
  <2>4. /\ \A u \in ThreadIds : thread[u] # "new" => thread'[u] # "new"
        /\ \A u \in ThreadIds : thread'[u] = "gone" \/ (thread[u] # "gone" /\ turns'[u] = turns[u])
    BY <1>0, <2>1
  <2>5. \A w \in Writers : Keeps(w)'
    BY <2>1, <2>4, KeepsWhat
  <2> QED
    BY <1>0, <2>1, <2>2, <2>3, <2>5 DEF TalkInv
<1>3. ASSUME NEW w \in Writers, NEW t \in ThreadIds, AppendTurn(w, t) PROVE TalkInv'
  <2> DEFINE slot == [pc |-> "writes", thread |-> t, ordinal |-> Following(t), raced |-> FALSE]
  <2>1. /\ t \in Present /\ UNCHANGED <<thread, turns>> /\ recording' = [recording EXCEPT ![w] = slot]
    BY <1>3 DEF AppendTurn
  <2>2. PICK n \in Nat : turns[t] = 1..n
    BY <1>0
  <2>3. Following(t) = n + 1
    BY <2>2, FollowingIsNext
  <2>4. slot \in Recordings /\ slot.pc = "writes" /\ slot.thread = t /\ slot.ordinal = n + 1
    BY <2>3 DEF Recordings
  <2> HIDE DEF slot
  <2>5. recording' \in [Writers -> Recordings] /\ recording'[w] = slot
    BY <1>0, <2>1, <2>4
  <2>6. Keeps(w)'
    <3>1. n + 1 \in 1..(n + 1) /\ n + 1 \notin 1..n
      OBVIOUS
    <3>2. thread[t] # "new"
      BY <2>1 DEF Present
    <3> QED
      BY <2>1, <2>2, <2>4, <2>5, <3>1, <3>2 DEF Keeps
  <2>7. \A v \in Writers \ {w} : Keeps(v)'
    <3>1. \A v \in Writers \ {w} : recording'[v] = recording[v]
      BY <1>0, <2>1
    <3> QED
      BY <1>0, <2>1, <3>1 DEF Keeps
  <2> QED
    BY <1>0, <2>1, <2>5, <2>6, <2>7 DEF TalkInv
<1>4. ASSUME NEW w \in Writers, Record(w) PROVE TalkInv'
  <2> DEFINE t == recording[w].thread
             o == recording[w].ordinal
  <2>1. /\ recording[w].pc = "writes" /\ t \in Present /\ o \notin turns[t]
        /\ turns' = [turns EXCEPT ![t] = @ \cup {o}]
        /\ thread' = [thread EXCEPT ![t] = "titled"]
        /\ recording' = [v \in Writers |->
             IF v = w THEN [recording[w] EXCEPT !.pc = "recorded"]
             ELSE [recording[v] EXCEPT !.raced =
                     @ \/ (recording[v].pc = "writes" /\ recording[v].thread = t)]]
    BY <1>4 DEF Record
  <2>2. t \in ThreadIds /\ thread[t] \in {"untitled", "titled"} /\ o \in Nat
    BY <1>0, <2>1 DEF Present, Recordings
  <2>3. PICK n \in Nat : turns[t] = 1..n /\ o \in 1..(n + 1)
    BY <1>0, <2>1, <2>2 DEF Keeps
  <2> HIDE DEF t, o
  <2>4. o = n + 1 /\ 1..n \cup {o} = 1..(n + 1)
    BY <2>1, <2>3
  <2>5. turns'[t] = 1..(n + 1) /\ \A u \in ThreadIds \ {t} : turns'[u] = turns[u]
    BY <1>0, <2>1, <2>2, <2>3, <2>4
  <2>6. turns' \in [ThreadIds -> SUBSET Nat]
    BY <1>0, <2>1, <2>2
  <2>7. /\ thread' \in [ThreadIds -> {"new", "untitled", "titled", "gone"}]
        /\ thread'[t] = "titled" /\ \A u \in ThreadIds \ {t} : thread'[u] = thread[u]
    BY <1>0, <2>1, <2>2
  <2>8. ASSUME NEW v \in Writers
        PROVE  /\ recording'[v] \in Recordings
               /\ recording'[v].thread = recording[v].thread
               /\ recording'[v].ordinal = recording[v].ordinal
               /\ recording'[v].pc = IF v = w THEN "recorded" ELSE recording[v].pc
               /\ recording[v].raced => recording'[v].raced
               /\ v # w /\ recording[v].pc = "writes" /\ recording[v].thread = t => recording'[v].raced
    <3>1. CASE v = w
      BY <1>0, <2>1, <3>1 DEF Recordings
    <3>2. CASE v # w
      <4> DEFINE r == recording[v]
                 raced == r.raced \/ (r.pc = "writes" /\ r.thread = t)
      <4>1. r \in Recordings /\ raced \in BOOLEAN /\ recording'[v] = [r EXCEPT !.raced = raced]
        BY <1>0, <2>1, <3>2 DEF Recordings
      <4>2. raced = (r.raced \/ (r.pc = "writes" /\ r.thread = t))
        OBVIOUS
      <4> HIDE DEF r, raced
      <4>3. /\ recording'[v] \in Recordings /\ recording'[v].thread = r.thread
            /\ recording'[v].ordinal = r.ordinal /\ recording'[v].pc = r.pc
            /\ recording'[v].raced = raced
        BY <4>1 DEF Recordings
      <4> QED
        BY <3>2, <4>2, <4>3 DEF r
    <3> QED
      BY <3>1, <3>2
  <2>9. recording' \in [Writers -> Recordings]
    BY <2>1, <2>8
  <2>10. ASSUME NEW v \in Writers PROVE Keeps(v)'
    <3>1. Keeps(v)
      BY <1>0
    <3>2. CASE recording[v].pc = "idle"
      BY <2>1, <2>8, <3>2 DEF Keeps
    <3>3. CASE recording[v].pc # "idle" /\ recording[v].thread # t
      <4>1. /\ recording[v].thread \in ThreadIds \ {t} /\ v # w
        BY <3>1, <3>3 DEF Keeps, t
      <4> QED
        BY <2>5, <2>7, <2>8, <3>1, <3>3, <4>1 DEF Keeps
    <3>4. CASE recording[v].pc = "writes" /\ recording[v].thread = t /\ v # w
      <4>1. PICK m \in Nat : turns[t] = 1..m /\ recording[v].ordinal \in 1..(m + 1)
        BY <2>2, <3>1, <3>4 DEF Keeps
      <4>2. m = n
        <5>1. m = Cardinality(1..m) /\ n = Cardinality(1..n)
          BY FS_Interval
        <5> QED
          BY <2>3, <4>1, <5>1
      <4>3. recording'[v].ordinal \in 1..((n + 1) + 1)
        BY <2>8, <4>1, <4>2
      <4> QED
        BY <2>2, <2>5, <2>7, <2>8, <3>4, <4>3 DEF Keeps
    <3>5. CASE recording[v].pc \in {"recorded", "lost"} /\ recording[v].thread = t
      <4>1. v # w
        BY <2>1, <3>5
      <4>2. recording[v].pc = "recorded" => recording[v].ordinal \in turns'[t]
        BY <2>2, <2>3, <2>5, <3>1, <3>5 DEF Keeps
      <4> QED
        BY <2>2, <2>7, <2>8, <3>1, <3>5, <4>1, <4>2 DEF Keeps
    <3>6. CASE v = w
      <4>1. recording'[v].ordinal = o /\ recording'[v].thread = t /\ recording'[v].pc = "recorded"
        BY <2>8, <3>6 DEF o, t
      <4>2. o \in turns'[t]
        BY <2>4, <2>5
      <4> QED
        BY <2>2, <2>7, <4>1, <4>2 DEF Keeps
    <3>7. recording[v].pc \in {"idle", "writes", "recorded", "lost"}
      BY <1>0 DEF Recordings
    <3> QED
      BY <3>2, <3>3, <3>4, <3>5, <3>6, <3>7
  <2>11. \A u \in ThreadIds : \E m \in Nat : turns'[u] = 1..m
    BY <1>0, <2>5
  <2> QED
    BY <2>6, <2>7, <2>9, <2>10, <2>11 DEF TalkInv
<1>5. ASSUME NEW w \in Writers, Lose(w) PROVE TalkInv'
  <2> DEFINE t == recording[w].thread
  <2>1. /\ recording[w].pc = "writes" /\ UNCHANGED <<thread, turns>>
        /\ t \notin Present \/ recording[w].ordinal \in turns[t]
        /\ recording' = [recording EXCEPT ![w].pc = "lost"]
    BY <1>5 DEF Lose
  <2>2. /\ recording' \in [Writers -> Recordings] /\ recording'[w].thread = t
        /\ recording'[w].raced = recording[w].raced /\ recording'[w].pc = "lost"
        /\ \A v \in Writers \ {w} : recording'[v] = recording[v]
    BY <1>0, <2>1 DEF Recordings
  <2>3. t \in ThreadIds /\ thread[t] # "new" /\ (thread[t] = "gone" \/ recording[w].raced)
    <3>1. t \in ThreadIds /\ thread[t] # "new"
      BY <1>0, <2>1 DEF Keeps
    <3>2. thread[t] = "gone" \/ t \in Present
      BY <1>0, <3>1 DEF Present
    <3> QED
      BY <1>0, <2>1, <3>1, <3>2 DEF Keeps
  <2>4. Keeps(w)'
    BY <2>1, <2>2, <2>3 DEF Keeps
  <2>5. \A v \in Writers \ {w} : Keeps(v)'
    BY <1>0, <2>1, <2>2 DEF Keeps
  <2> QED
    BY <1>0, <2>1, <2>2, <2>4, <2>5 DEF TalkInv
<1>6. ASSUME NEW w \in Writers, Replied(w) PROVE TalkInv'
  <2>1. UNCHANGED <<thread, turns>> /\ recording' = [recording EXCEPT ![w] = Quiet]
    BY <1>6 DEF Replied
  <2>2. Quiet \in Recordings /\ Quiet.pc = "idle"
    BY DEF Quiet, Recordings
  <2>3. /\ recording' \in [Writers -> Recordings] /\ recording'[w] = Quiet
        /\ \A v \in Writers \ {w} : recording'[v] = recording[v]
    BY <1>0, <2>1, <2>2
  <2>4. \A v \in Writers : Keeps(v)'
    BY <1>0, <2>1, <2>2, <2>3 DEF Keeps
  <2> QED
    BY <1>0, <2>1, <2>3, <2>4 DEF TalkInv
<1>7. CASE Complaining
  BY <1>7, TalkUntouched DEF Complaining, Complain
<1> QED
  BY <1>1, <1>2, <1>3, <1>4, <1>5, <1>6, <1>7 DEF TalkNext

-----------------------------------------------------------------------------
(* Runs of the test suite                                                  *)

Outcomes == {"passed", "failed", "errored"}
ResultRows == [case : Cases \cup {NoCase}, outcome : Outcomes]
Suites == [pc : {"none", "opens", "runs", "closed", "raised", "lost"}, loaded : SUBSET Cases,
           results : Results, finished : BOOLEAN, rows : Results,
           total : Nat, passed : Nat, failed : Nat]

\* A run that goes on has no rows, and results but of what it loaded, which name
\* their cases. What was loaded has been a case, so that it can only be deleted.
TestInv ==
  /\ cases \in [Cases -> {"new", "there", "gone"}]
  /\ suite \in Suites
  /\ \A c \in suite.loaded : cases[c] # "new"
  /\ suite.pc \in {"opens", "runs"} =>
       /\ ~suite.finished /\ DOMAIN suite.results \subseteq suite.loaded
       /\ \A c \in DOMAIN suite.results : suite.results[c].case = c
  /\ ResultsAreComplete

LEMMA ResultsByDomain ==
  ASSUME NEW f
  PROVE  f \in Results <=> DOMAIN f \subseteq Cases /\ f \in [DOMAIN f -> ResultRows]
<1>1. Results = UNION {[ran -> ResultRows] : ran \in SUBSET Cases}
  BY DEF Results, ResultRows, Outcomes
<1>2. ASSUME f \in Results PROVE DOMAIN f \subseteq Cases /\ f \in [DOMAIN f -> ResultRows]
  <2>1. PICK ran \in SUBSET Cases : f \in [ran -> ResultRows]
    BY <1>1, <1>2
  <2>2. DOMAIN f = ran
    BY <2>1
  <2> QED
    BY <2>1, <2>2
<1>3. ASSUME DOMAIN f \subseteq Cases, f \in [DOMAIN f -> ResultRows] PROVE f \in Results
  BY <1>1, <1>3
<1> QED
  BY <1>2, <1>3

LEMMA NoResultsType == NoResults \in Results /\ DOMAIN NoResults = {}
<1>1. DOMAIN NoResults = {} /\ NoResults \in [DOMAIN NoResults -> ResultRows]
  BY DEF NoResults
<1> QED
  BY <1>1, ResultsByDomain

LEMMA NoSuiteType ==
  /\ NoSuite \in Suites /\ NoSuite.pc = "none" /\ ~NoSuite.finished
  /\ DOMAIN NoSuite.rows = {} /\ DOMAIN NoSuite.results = {} /\ NoSuite.loaded = {}
  BY NoResultsType DEF NoSuite, Suites

LEMMA TestInitInv == Init => TestInv
<1> SUFFICES ASSUME Init PROVE TestInv
  OBVIOUS
<1>1. cases = [c \in Cases |-> "new"] /\ suite = NoSuite
  BY DEF Init, ThreadsInit
<1> QED
  BY <1>1, NoSuiteType DEF TestInv, ResultsAreComplete

\* The counts of a run are numbers.
LEMMA CountsAreNumbers ==
  ASSUME NEW f \in Results, NEW outcomes
  PROVE  /\ Cardinality({c \in DOMAIN f : f[c].outcome \in outcomes}) \in Nat
         /\ Cardinality(DOMAIN f) \in Nat
<1>1. IsFiniteSet(DOMAIN f)
  BY ResultsByDomain, ThreadsAssumption, FS_Subset
<1>2. IsFiniteSet({c \in DOMAIN f : f[c].outcome \in outcomes})
  BY <1>1, FS_Subset
<1> QED
  BY <1>1, <1>2, FS_CardinalityType

\* What happens to a suite that has not finished and is not given rows.
LEMMA Unfinished ==
  ASSUME suite' \in Suites, ~suite'.finished, DOMAIN suite'.rows = {},
         cases' \in [Cases -> {"new", "there", "gone"}],
         \A c \in suite'.loaded : cases'[c] # "new",
         suite'.pc \in {"opens", "runs"} =>
           /\ DOMAIN suite'.results \subseteq suite'.loaded
           /\ \A c \in DOMAIN suite'.results : suite'.results[c].case = c,
         suite'.pc = "lost" => suite'.loaded \ Kept' # {}
  PROVE  TestInv'
  BY DEF TestInv, ResultsAreComplete

LEMMA StepDeleteCase ==
  ASSUME TestInv, NEW c \in Cases, DeleteCase(c)
  PROVE  TestInv'
<1> DEFINE rows == [d \in DOMAIN suite.rows |->
                      IF suite.rows[d].case = c
                      THEN [case |-> NoCase, outcome |-> suite.rows[d].outcome] ELSE suite.rows[d]]
<1>1. /\ cases[c] = "there" /\ cases' = [cases EXCEPT ![c] = "gone"]
      /\ suite' = [suite EXCEPT !.rows = rows]
  BY DEF DeleteCase
<1>2. suite \in Suites /\ suite.rows \in Results
  BY DEF TestInv, Suites
<1>3. DOMAIN suite.rows \subseteq Cases /\ suite.rows \in [DOMAIN suite.rows -> ResultRows]
  BY <1>2, ResultsByDomain
<1>4. DOMAIN rows = DOMAIN suite.rows /\ rows \in [DOMAIN rows -> ResultRows]
  BY <1>3 DEF ResultRows
<1>5. \A d \in DOMAIN suite.rows :
        /\ rows[d].outcome = suite.rows[d].outcome
        /\ rows[d].case = IF suite.rows[d].case = c THEN NoCase ELSE suite.rows[d].case
  BY <1>3 DEF ResultRows
<1>6. rows \in Results
  BY <1>3, <1>4, ResultsByDomain
<1> HIDE DEF rows
<1>8. /\ suite' \in Suites /\ suite'.rows = rows
      /\ suite'.pc = suite.pc /\ suite'.loaded = suite.loaded /\ suite'.results = suite.results
      /\ suite'.finished = suite.finished /\ suite'.total = suite.total
      /\ suite'.passed = suite.passed /\ suite'.failed = suite.failed
  BY <1>1, <1>2, <1>6 DEF Suites
<1>9. /\ cases' \in [Cases -> {"new", "there", "gone"}] /\ Kept' = Kept \ {c} /\ c \in Kept
      /\ \A d \in suite.loaded : cases'[d] # "new"
  BY <1>1, <1>2 DEF TestInv, Kept, Suites
<1>10. CASE suite.finished
  <2>1. /\ DOMAIN suite.rows = suite.loaded /\ suite.total = Cardinality(suite.loaded)
        /\ suite.passed = Cardinality({d \in suite.loaded : suite.rows[d].outcome = "passed"})
        /\ \A d \in suite.loaded : suite.rows[d].case = IF d \in Kept THEN d ELSE NoCase
    BY <1>10 DEF TestInv, ResultsAreComplete
  <2>2. {d \in suite'.loaded : suite'.rows[d].outcome = "passed"}
          = {d \in suite.loaded : suite.rows[d].outcome = "passed"}
    BY <1>5, <1>8, <2>1
  <2>3. ASSUME NEW d \in suite.loaded
        PROVE  rows[d].case = IF d \in Kept' THEN d ELSE NoCase
    <3>1. c \in Cases /\ NoCase # c
      BY ThreadsAssumption
    <3> QED
      BY <1>5, <1>9, <2>1, <3>1
  <2> QED
    BY <1>4, <1>8, <1>9, <1>10, <2>1, <2>2, <2>3 DEF TestInv, ResultsAreComplete
<1>11. CASE ~suite.finished
  <2>1. suite.pc = "lost" => suite.loaded \ Kept # {}
    BY DEF TestInv, ResultsAreComplete
  <2>2. suite'.pc = "lost" => suite'.loaded \ Kept' # {}
    BY <1>8, <1>9, <2>1
  <2>3. DOMAIN suite'.rows = {}
    BY <1>4, <1>8, <1>11 DEF TestInv, ResultsAreComplete
  <2>4. suite'.pc \in {"opens", "runs"} =>
           /\ DOMAIN suite'.results \subseteq suite'.loaded
           /\ \A d \in DOMAIN suite'.results : suite'.results[d].case = d
    BY <1>8 DEF TestInv
  <2> QED
    BY <1>8, <1>9, <1>11, <2>2, <2>3, <2>4, Unfinished
<1> QED
  BY <1>10, <1>11

LEMMA StepCloseRun ==
  ASSUME TestInv, CloseRun
  PROVE  TestInv'
<1>1. /\ suite.pc = "runs" /\ suite.loaded = DOMAIN suite.results
      /\ suite' = Closed(Kept) /\ cases' = cases
  BY DEF CloseRun
<1>2. suite \in Suites /\ suite.results \in Results /\ cases \in [Cases -> {"new", "there", "gone"}]
  BY DEF TestInv, Suites
<1>3. /\ ~suite.finished /\ DOMAIN suite.rows = {}
      /\ \A c \in suite.loaded : cases[c] # "new" /\ suite.results[c].case = c
  BY <1>1 DEF TestInv, ResultsAreComplete
<1>0. Kept' = Kept
  BY <1>1 DEF Kept
<1>4. CASE DOMAIN suite.results \subseteq Kept
  <2> DEFINE total == Cardinality(DOMAIN suite.results)
             passed == Ran({"passed"})
             failed == Ran({"failed", "errored"})
  <2>1. /\ total \in Nat /\ passed \in Nat /\ failed \in Nat
        /\ passed = Cardinality({c \in DOMAIN suite.results : suite.results[c].outcome = "passed"})
    <3>1. {c \in DOMAIN suite.results : suite.results[c].outcome \in {"passed"}}
            = {c \in DOMAIN suite.results : suite.results[c].outcome = "passed"}
      OBVIOUS
    <3> QED
      BY <1>2, <3>1, CountsAreNumbers DEF Ran
  <2>2. suite' = [suite EXCEPT !.pc = "closed", !.finished = TRUE, !.rows = suite.results,
                    !.results = NoResults, !.total = total, !.passed = passed, !.failed = failed]
    BY <1>1, <1>4 DEF Closed
  <2> HIDE DEF total, passed, failed
  <2>3. /\ suite' \in Suites /\ suite'.pc = "closed" /\ suite'.finished /\ suite'.rows = suite.results
        /\ suite'.loaded = suite.loaded /\ suite'.total = total /\ suite'.passed = passed
    BY <1>2, <2>1, <2>2, NoResultsType DEF Suites
  <2>4. total = Cardinality(suite.loaded)
    BY <1>1 DEF total
  <2>5. \A c \in suite.loaded : suite.results[c].case = IF c \in Kept THEN c ELSE NoCase
    BY <1>1, <1>3, <1>4
  <2> QED
    BY <1>0, <1>1, <1>2, <1>3, <2>1, <2>3, <2>4, <2>5 DEF TestInv, ResultsAreComplete
<1>5. CASE ~(DOMAIN suite.results \subseteq Kept)
  <2>1. suite' = [suite EXCEPT !.pc = "lost", !.results = NoResults]
    BY <1>1, <1>5 DEF Closed
  <2>2. /\ suite' \in Suites /\ suite'.pc = "lost" /\ ~suite'.finished
        /\ suite'.rows = suite.rows /\ suite'.loaded = suite.loaded
    BY <1>2, <1>3, <2>1, NoResultsType DEF Suites
  <2>3. suite'.loaded \ Kept' # {}
    BY <1>0, <1>1, <1>5, <2>2
  <2> QED
    BY <1>1, <1>2, <1>3, <2>2, <2>3, Unfinished
<1> QED
  BY <1>4, <1>5

LEMMA TestStep ==
  ASSUME TestInv, TestNext
  PROVE  TestInv'
<1>0. /\ suite \in Suites /\ cases \in [Cases -> {"new", "there", "gone"}]
      /\ \A c \in suite.loaded : c \in Cases /\ cases[c] # "new"
  BY DEF TestInv, Suites
<1>a. suite.pc \in {"opens", "runs"} =>
        /\ ~suite.finished /\ DOMAIN suite.rows = {} /\ DOMAIN suite.results \subseteq suite.loaded
        /\ \A c \in DOMAIN suite.results : suite.results[c].case = c
  BY DEF TestInv, ResultsAreComplete
<1>1. CASE Complaining
  BY <1>1 DEF Complaining, Complain, TestInv, ResultsAreComplete, Kept
<1>2. ASSUME NEW c \in Cases, NEW from \in SUBSET Complaints, CreateCase(c, from) PROVE TestInv'
  <2>1. cases[c] = "new" /\ cases' = [cases EXCEPT ![c] = "there"] /\ suite' = suite
    BY <1>2 DEF CreateCase
  <2>2. /\ cases' \in [Cases -> {"new", "there", "gone"}] /\ Kept' = Kept \cup {c}
        /\ c \notin suite.loaded /\ \A d \in suite.loaded : cases'[d] # "new"
    BY <1>0, <2>1 DEF Kept
  <2> QED
    BY <2>1, <2>2 DEF TestInv, ResultsAreComplete
<1>3. ASSUME NEW c \in Cases, DeleteCase(c) PROVE TestInv'
  BY <1>3, StepDeleteCase
<1>4. ASSUME NEW loaded \in SUBSET Cases, LoadCases(loaded) PROVE TestInv'
  <2>1. /\ loaded \subseteq Kept /\ cases' = cases
        /\ suite' = [NoSuite EXCEPT !.pc = "opens", !.loaded = loaded]
    BY <1>4 DEF LoadCases
  <2>2. PICK s \in Suites : s = NoSuite
    BY NoSuiteType
  <2>3. suite' = [s EXCEPT !.pc = "opens", !.loaded = loaded]
    BY <2>1, <2>2
  <2>4. /\ suite' \in Suites /\ suite'.pc = "opens" /\ suite'.loaded = loaded
        /\ suite'.finished = s.finished /\ suite'.rows = s.rows /\ suite'.results = s.results
    BY <2>3 DEF Suites
  <2>5. \A c \in suite'.loaded : cases'[c] # "new"
    BY <2>1, <2>4 DEF Kept
  <2> QED
    BY <1>0, <2>1, <2>2, <2>4, <2>5, NoSuiteType, Unfinished
<1>4a. CASE OpenRun
  <2>1. suite.pc = "opens" /\ cases' = cases /\ suite' = [suite EXCEPT !.pc = "runs"]
    BY <1>4a DEF OpenRun
  <2>2. /\ suite' \in Suites /\ suite'.pc = "runs" /\ suite'.loaded = suite.loaded
        /\ suite'.finished = suite.finished /\ suite'.rows = suite.rows /\ suite'.results = suite.results
    BY <1>0, <2>1 DEF Suites
  <2> QED
    BY <1>0, <1>a, <2>1, <2>2, Unfinished
<1>5. ASSUME NEW c \in Cases, NEW outcome \in {"passed", "failed", "errored"}, RunCase(c, outcome)
      PROVE  TestInv'
  <2> DEFINE results == [d \in DOMAIN suite.results \cup {c} |->
                           IF d = c THEN [case |-> c, outcome |-> outcome] ELSE suite.results[d]]
  <2>1. /\ suite.pc = "runs" /\ c \in suite.loaded /\ cases' = cases
        /\ suite' = [suite EXCEPT !.results = results]
    BY <1>5 DEF RunCase
  <2>2. suite.results \in Results
    BY <1>0 DEF Suites
  <2>3. DOMAIN suite.results \subseteq Cases /\ suite.results \in [DOMAIN suite.results -> ResultRows]
    BY <2>2, ResultsByDomain
  <2>4. DOMAIN results = DOMAIN suite.results \cup {c} /\ results \in [DOMAIN results -> ResultRows]
    BY <2>3 DEF ResultRows, Outcomes
  <2>5. results \in Results
    BY <2>3, <2>4, ResultsByDomain
  <2>7. \A d \in DOMAIN results : results[d].case = d
    BY <1>a, <2>1
  <2> HIDE DEF results
  <2>6. /\ suite' \in Suites /\ suite'.results = results /\ suite'.pc = suite.pc
        /\ suite'.loaded = suite.loaded /\ suite'.finished = suite.finished
        /\ suite'.rows = suite.rows
    BY <1>0, <2>1, <2>5 DEF Suites
  <2> QED
    BY <1>0, <1>a, <2>1, <2>4, <2>6, <2>7, Unfinished
<1>6. CASE RunRaises
  <2>1. /\ suite.pc = "runs" /\ cases' = cases
        /\ suite' = [suite EXCEPT !.pc = "raised", !.results = NoResults]
    BY <1>6 DEF RunRaises
  <2>2. /\ suite' \in Suites /\ suite'.pc = "raised" /\ suite'.loaded = suite.loaded
        /\ suite'.finished = suite.finished /\ suite'.rows = suite.rows
    BY <1>0, <2>1, NoResultsType DEF Suites
  <2> QED
    BY <1>0, <1>a, <2>1, <2>2, Unfinished
<1>7. CASE CloseRun
  BY <1>7, StepCloseRun
<1> QED
  BY <1>1, <1>2, <1>3, <1>4, <1>4a, <1>5, <1>6, <1>7 DEF TestNext

-----------------------------------------------------------------------------
(* The console: each invariant is kept by the steps of its area, and the   *)
(* steps of the others do not touch what it is about.                      *)

LEMMA LiveUntouched ==
  ASSUME LiveInv, UNCHANGED live
  PROVE  LiveInv'
<1>1. UNCHANGED <<source, clearing, cache, reading>>
  BY DEF live
<1> QED
  BY <1>1 DEF LiveInv, HeldUnderTheSource

LEMMA GlossaryUntouched ==
  ASSUME GlossaryInv, UNCHANGED glossary
  PROVE  GlossaryInv'
<1>1. UNCHANGED <<terms, judged, passes>>
  BY DEF glossary
<1> QED
  BY <1>1 DEF GlossaryInv, WordsAsJudged, InUse

LEMMA ConnectorUntouched ==
  ASSUME DecisionInv, QuestionInv, UNCHANGED connector
  PROVE  DecisionInv' /\ QuestionInv'
<1>1. UNCHANGED <<row, editing, decided, trail, role, asking>>
  BY DEF connector
<1> QED
  BY <1>1, QuestionsUntouched DEF DecisionInv, DecisionsStand, Holds

LEMMA TestUntouched ==
  ASSUME TestInv, UNCHANGED <<cases, suite>>
  PROVE  TestInv'
  BY DEF TestInv, ResultsAreComplete, Kept

LEMMA RecordsUntouched ==
  ASSUME TalkInv, TestInv, UNCHANGED records
  PROVE  TalkInv' /\ TestInv'
<1>1. UNCHANGED <<thread, turns, recording, feedback, cases, suite>>
  BY DEF records
<1> QED
  BY <1>1, TalkUntouched, TestUntouched

\* What a talk leaves of the tests, and the tests of the talk.
LEMMA TalkLeavesTests ==
  ASSUME TalkNext
  PROVE  UNCHANGED <<cases, suite>>
  BY DEF TalkNext, CreateThread, DeleteThreads, AppendTurn, Record, Lose, Replied, Complaining, Complain

LEMMA TestsLeaveTalk ==
  ASSUME TestNext
  PROVE  UNCHANGED <<thread, turns, recording>>
  BY DEF TestNext, Complaining, Complain, CreateCase, DeleteCase, LoadCases,
         OpenRun, RunCase, RunRaises, CloseRun

IInv ==
  LiveInv /\ GlossaryInv /\ DecisionInv /\ QuestionInv /\ TalkInv /\ TestInv /\ OfferInv

\* The inductive invariant of the console.
THEOREM ConsoleIsSound == Spec => []IInv
<1>1. Init => IInv
  <2>1. Init => StartersInit
    BY DEF Init
  <2>2. Init => OfferInv
    BY <2>1, OfferInitInv
  <2> QED
    BY <2>2, LiveInitInv, GlossaryInitInv, DecisionInitInv, QuestionInitInv, TalkInitInv,
       TestInitInv DEF IInv
<1>2. IInv /\ [Next]_vars => IInv'
  <2> SUFFICES ASSUME IInv, [Next]_vars PROVE IInv'
    OBVIOUS
  <2>0. LiveInv /\ GlossaryInv /\ DecisionInv /\ QuestionInv /\ TalkInv /\ TestInv /\ OfferInv
    BY DEF IInv
  <2>1. CASE Configuring
    <3>1. ConnectorNext /\ UNCHANGED glossary /\ UNCHANGED live /\ UNCHANGED records
          /\ UNCHANGED offers
      BY <2>1 DEF Configuring
    <3> QED
      BY <2>0, <3>1, DecisionStep, QuestionStep, LiveUntouched, GlossaryUntouched, RecordsUntouched,
         OfferUntouched DEF IInv
  <2>2. CASE Wording
    <3>1. GlossaryNext /\ UNCHANGED connector /\ UNCHANGED live /\ UNCHANGED records
          /\ UNCHANGED offers
      BY <2>2 DEF Wording
    <3> QED
      BY <2>0, <3>1, GlossaryStep, LiveUntouched, ConnectorUntouched, RecordsUntouched,
         OfferUntouched DEF IInv
  <2>3. CASE Reading
    <3>1. LiveNext /\ UNCHANGED connector /\ UNCHANGED glossary /\ UNCHANGED records
          /\ UNCHANGED offers
      BY <2>3 DEF Reading
    <3> QED
      BY <2>0, <3>1, LiveStep, GlossaryUntouched, ConnectorUntouched, RecordsUntouched,
         OfferUntouched DEF IInv
  <2>4. CASE Talking
    <3>1. TalkNext /\ UNCHANGED connector /\ UNCHANGED glossary /\ UNCHANGED live
          /\ UNCHANGED offers
      BY <2>4 DEF Talking
    <3> QED
      BY <2>0, <3>1, TalkStep, TalkLeavesTests, TestUntouched, LiveUntouched, GlossaryUntouched,
         ConnectorUntouched, OfferUntouched DEF IInv
  <2>5. CASE Testing
    <3>1. TestNext /\ UNCHANGED connector /\ UNCHANGED glossary /\ UNCHANGED live
          /\ UNCHANGED offers
      BY <2>5 DEF Testing
    <3> QED
      BY <2>0, <3>1, TestStep, TestsLeaveTalk, TalkUntouched, LiveUntouched, GlossaryUntouched,
         ConnectorUntouched, OfferUntouched DEF IInv
  <2>6. CASE Offering
    <3>1. StartersNext /\ UNCHANGED connector /\ UNCHANGED glossary /\ UNCHANGED live /\ UNCHANGED records
      BY <2>6 DEF Offering
    <3> QED
      BY <2>0, <3>1, LiveUntouched, GlossaryUntouched, ConnectorUntouched, RecordsUntouched, OfferStep DEF IInv
  <2>7. CASE UNCHANGED vars
    <3>1. /\ UNCHANGED connector /\ UNCHANGED glossary /\ UNCHANGED live /\ UNCHANGED records
          /\ UNCHANGED offers
      BY <2>7 DEF vars
    <3> QED
      BY <2>0, <3>1, LiveUntouched, GlossaryUntouched, ConnectorUntouched, RecordsUntouched,
         OfferUntouched DEF IInv
  <2> QED
    BY <2>1, <2>2, <2>3, <2>4, <2>5, <2>6, <2>7 DEF Next
<1> QED
  BY <1>1, <1>2, PTL DEF Spec

\* What the administrator decided is what the connector has, for any scopes,
\* parameters, requests and interleavings of them.
THEOREM DecisionsStandHolds == Spec => []DecisionsStand
<1>1. IInv => DecisionsStand
  BY DEF IInv, DecisionInv
<1> QED
  BY <1>1, ConsoleIsSound, PTL

\* A question reaches nothing that scope, state or role hid since it began, and
\* is expanded with the terms people agreed to: for any documents, rules, terms
\* and discovery passes.
THEOREM QuestionsUseWhatIsAgreedHolds == Spec => []QuestionsUseWhatIsAgreed
<1>1. IInv => QuestionsUseWhatIsAgreed
  BY DEF IInv, QuestionInv, GlossaryInv, QuestionsUseWhatIsAgreed
<1> QED
  BY <1>1, ConsoleIsSound, PTL

\* The cache of live figures holds the source that is configured, with the
\* exceptions the property names, and keeps to its limit: for any sources,
\* keys, ages, limit and readers.
THEOREM HeldUnderTheSourceHolds == Spec => []HeldUnderTheSource
<1>1. IInv => HeldUnderTheSource
  BY DEF IInv, LiveInv
<1> QED
  BY <1>1, ConsoleIsSound, PTL

\* No transcript has a gap, and no acknowledged turn is lost: for any threads
\* and any number of requests that record in them at one time.
THEOREM TranscriptIsWholeHolds == Spec => []TranscriptIsWhole
<1>1. IInv => TranscriptIsWhole
  BY TalkIsWhole DEF IInv
<1> QED
  BY <1>1, ConsoleIsSound, PTL

\* A finished run of the suite has a result for each case it loaded and counts
\* its passes right, and one that ran to its end is lost only to a deletion: for
\* any cases and any interleaving of runs and deletions.
THEOREM ResultsAreCompleteHolds == Spec => []ResultsAreComplete
<1>1. IInv => ResultsAreComplete
  BY DEF IInv, TestInv
<1> QED
  BY <1>1, ConsoleIsSound, PTL

\* What an empty chat offers spans the corpus, and is about what was chosen for
\* it: for any documents, titles, sections, number of chips and requests.
THEOREM OffersSpanTheCorpusHolds == Spec => []OffersSpanTheCorpus
<1>1. IInv => OffersSpanTheCorpus
  BY OffersSpan DEF IInv
<1> QED
  BY <1>1, ConsoleIsSound, PTL
=============================================================================
