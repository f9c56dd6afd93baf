--------------------------- MODULE IndexingProofs ---------------------------
(***************************************************************************)
(* Proofs about Indexing: what a run that nobody overtook writes, and that *)
(* every chunk has the vector of its own text.                             *)
(***************************************************************************)
EXTENDS Indexing, TLAPS

-----------------------------------------------------------------------------
(* The operators                                                           *)

\* Bodies with one text say the same: the text has every word the content has.
LEMMA TextSaysContent ==
  \A a, b \in Bodies : Text[a] = Text[b] => Content[a] = Content[b]
<1> DEFINE words(b) == [i \in Blocks(b) |-> b.blocks[i].text]
           counted(w) == [t \in {w[i] : i \in DOMAIN w} |-> Cardinality({i \in DOMAIN w : w[i] = t})]
<1>1. ASSUME NEW b \in Bodies PROVE Content[b] = counted(words(b)) /\ Text[b][1] = words(b)
  <2>1. {b.blocks[i].text : i \in Blocks(b)} = {words(b)[i] : i \in DOMAIN words(b)}
    OBVIOUS
  <2>2. ASSUME NEW t PROVE {i \in Blocks(b) : b.blocks[i].text = t} = {i \in DOMAIN words(b) : words(b)[i] = t}
    OBVIOUS
  <2>3. Content[b] = counted(words(b))
    BY <2>1, <2>2, Zenon DEF Content
  <2> HIDE DEF words
  <2>4. Text[b] = <<words(b), b.dress>>
    BY DEF Text, words
  <2> QED
    BY <2>3, <2>4
<1> HIDE DEF counted, words
<1> QED
  BY <1>1

\* What a chunk is made of: its identity names the document and the block.
LEMMA ChunkOf ==
  ASSUME NEW d \in Docs, NEW b \in Bodies, NEW c \in Chunks[d][b]
  PROVE  \E i \in Blocks(b) :
           /\ c.id = <<d, Path[b][i], i, b.blocks[i].text, b.dress>>
           /\ c = [id |-> <<d, Path[b][i], i, b.blocks[i].text, b.dress>>,
                   over |-> IF b.blocks[i - 1].level = 0 THEN b.blocks[i - 1].text ELSE ""]
<1> DEFINE made(i) == [id |-> <<d, Path[b][i], i, b.blocks[i].text, b.dress>>,
                       over |-> IF b.blocks[i - 1].level = 0 THEN b.blocks[i - 1].text ELSE ""]
<1>1. Chunks[d][b] = {made(i) : i \in {j \in Blocks(b) \ {1} : b.blocks[j].level = 0}}
  BY Zenon DEF Chunks
<1>2. \E i \in Blocks(b) : c = made(i)
  <2> HIDE DEF made
  <2> QED
    BY <1>1
<1>3. PICK i \in Blocks(b) : c = made(i)
  BY <1>2
<1>4. c.id = <<d, Path[b][i], i, b.blocks[i].text, b.dress>>
  BY <1>3
<1> QED
  BY <1>3, <1>4

\* A chunk's identity names its document.
LEMMA IdsNameDocs ==
  ASSUME NEW d \in Docs, NEW e \in Docs, NEW a \in Bodies, NEW b \in Bodies,
         NEW c \in Chunks[d][a], NEW k \in Chunks[e][b], c.id = k.id
  PROVE  d = e
<1>1. PICK i \in Blocks(a) : c.id = <<d, Path[a][i], i, a.blocks[i].text, a.dress>>
  BY ChunkOf
<1>2. PICK j \in Blocks(b) : k.id = <<e, Path[b][j], j, b.blocks[j].text, b.dress>>
  BY ChunkOf
<1>3. c.id[1] = d
  BY <1>1
<1>4. k.id[1] = e
  BY <1>2
<1> QED
  BY <1>3, <1>4

\* Within one body an identity belongs to one chunk.
LEMMA IdsAreChunks ==
  ASSUME NEW d \in Docs, NEW b \in Bodies,
         NEW c \in Chunks[d][b], NEW k \in Chunks[d][b], c.id = k.id
  PROVE  c = k
<1> DEFINE id(i) == <<d, Path[b][i], i, b.blocks[i].text, b.dress>>
           made(i) == [id |-> id(i),
                       over |-> IF b.blocks[i - 1].level = 0 THEN b.blocks[i - 1].text ELSE ""]
<1>1. PICK i \in Blocks(b) : c.id = id(i) /\ c = made(i)
  BY ChunkOf
<1>2. PICK j \in Blocks(b) : k.id = id(j) /\ k = made(j)
  BY ChunkOf
<1>3. c.id[3] = i
  BY <1>1
<1>4. k.id[3] = j
  BY <1>2
<1>5. i = j
  BY <1>3, <1>4
<1> HIDE DEF made
<1> QED
  BY <1>1, <1>2, <1>5

\* A row or a cut is never None.
LEMMA NoneIsNothing ==
  /\ \A of, parser, chunker : [of |-> of, parser |-> parser, chunker |-> chunker] # None
  /\ \A of, chunker : [of |-> of, chunker |-> chunker] # None
<1>1. DOMAIN None = {"none"}
  BY DEF None
<1>2. \A of, parser, chunker : "of" \in DOMAIN [of |-> of, parser |-> parser, chunker |-> chunker]
  OBVIOUS
<1>3. \A of, chunker : "of" \in DOMAIN [of |-> of, chunker |-> chunker]
  OBVIOUS
<1> QED
  BY <1>1, <1>2, <1>3

\* What each verdict promises of the body and of what the run had read.
LEMMA VerdictSays ==
  ASSUME NEW seen, NEW b
  PROVE
  /\ Verdict(seen, b) = "unchanged" => PipelineCurrent(seen) /\ seen.row.of = b
  /\ Verdict(seen, b) = "indexed" => b.parses
  /\ (Verdict(seen, b) \notin {"unchanged", "indexed"} /\ b.parses) =>
       /\ seen.row # None /\ seen.row.of.parses
       /\ Cosmetic(seen.row, b)
            \/ TextHash(seen.row.of, seen.row.parser, seen.row.chunker)
                 = TextHash(b, release.parser, release.chunker)
       /\ seen.current \/ TextHash(seen.row.of, seen.row.parser, seen.row.chunker)
                            = TextHash(b, release.parser, release.chunker)
<1>1. PipelineCurrent(seen) => seen.row # None /\ seen.current
  BY DEF PipelineCurrent
<1>2. Cosmetic(seen.row, b) => seen.row.of.parses
  BY DEF Cosmetic
<1> QED
  BY <1>1, <1>2 DEF Verdict

\* The chunks of a document that are held are chunks of a body.
LEMMA HeldChunks ==
  ASSUME TypeOK, NEW d \in Docs, NEW c \in Held(d)
  PROVE  chunks[d] # None /\ chunks[d].of \in Bodies /\ c \in Chunks[d][chunks[d].of]
  BY DEF Held, TypeOK, Cut

-----------------------------------------------------------------------------
(* Types                                                                   *)

\* At most one vector of an identity and a model.
Unique(vs) == \A v, u \in vs : v.id = u.id /\ v.model = u.model => v = u

LEMMA UpsertsAreUnique ==
  ASSUME NEW old, NEW new, Unique(old), Unique(new) PROVE Unique(Upserted(old, new))
  BY DEF Unique, Upserted

LEMMA VectorOf ==
  ASSUME NEW c PROVE Vector(c).id = c.id /\ Vector(c).over = c.over /\ Vector(c).model = release.model
  BY DEF Vector

\* The vectors an index run writes: one for each chunk.
LEMMA NewVectors ==
  ASSUME NEW body, NEW recut, recut \subseteq Docs, \A d \in recut : body[d] \in Bodies
  PROVE  Unique({Vector(c) : c \in UNION {Chunks[d][body[d]] : d \in recut}})
<1> DEFINE cut == UNION {Chunks[d][body[d]] : d \in recut}
           new == {Vector(c) : c \in cut}
<1>1. SUFFICES ASSUME NEW v \in new, NEW u \in new, v.id = u.id PROVE v = u
  BY DEF Unique
<1>2. PICK d \in recut : \E c \in Chunks[d][body[d]] : v = Vector(c)
  OBVIOUS
<1>3. PICK c \in Chunks[d][body[d]] : v = Vector(c)
  BY <1>2
<1>4. PICK e \in recut : \E k \in Chunks[e][body[e]] : u = Vector(k)
  OBVIOUS
<1>5. PICK k \in Chunks[e][body[e]] : u = Vector(k)
  BY <1>4
<1>6. c.id = k.id
  BY <1>1, <1>3, <1>5, VectorOf
<1>7. d = e
  BY <1>6, IdsNameDocs
<1>8. c = k
  BY <1>6, <1>7, IdsAreChunks
<1> QED
  BY <1>3, <1>5, <1>8

LEMMA ReleasesAreVersions ==
  ASSUME NEW v \in Releases
  PROVE  /\ v.parser \in {u.parser : u \in Releases}
         /\ v.chunker \in {u.chunker : u \in Releases}
  OBVIOUS

LEMMA RestingIsProgress == Resting \in Progress
  BY DEF Resting, Progress, Shape

LEMMA TodoIsProgress ==
  ASSUME NEW p \in Progress, NEW d PROVE [p EXCEPT !.todo = p.todo \ {d}] \in Progress
<1> DEFINE q == [p EXCEPT !.todo = p.todo \ {d}]
<1>1. q \in Shape /\ q.rows = p.rows /\ q.cuts = p.cuts /\ q.body = p.body
  BY DEF Progress, Shape
<1>2. q \in Progress
  <2> HIDE DEF q
  <2> QED
    BY <1>1 DEF Progress
<1> QED
  BY <1>2

LEMMA InitTypeOK == Init => TypeOK
<1> SUFFICES ASSUME Init PROVE TypeOK
  OBVIOUS
<1>1. run \in [Runs -> Progress]
  BY RestingIsProgress DEF Init
<1>2. embed \in Embedding
  BY DEF Init, Asleep, Embedding
<1>3. budget \in [{"changes", "deploys", "reembeds"} -> Nat]
  BY SourceAssumption DEF Init
<1>4. release \in Releases /\ source \in [Docs -> Bodies \cup {Gone}]
  BY SourceAssumption DEF Init, Releases
<1> QED
  BY <1>1, <1>2, <1>3, <1>4 DEF Init, TypeOK

\* The parts of TypeOK that a step leaves alone.
LEMMA NextTypeOK == TypeOK /\ [Next]_vars => TypeOK'
<1> SUFFICES ASSUME TypeOK, [Next]_vars PROVE TypeOK'
  OBVIOUS
<1> USE DEF stored, history
<1>a. ASSUME NEW what \in {"changes", "deploys", "reembeds"}, Spend(what)
      PROVE  budget' \in [{"changes", "deploys", "reembeds"} -> Nat]
  BY <1>a DEF Spend, TypeOK
<1>1. ASSUME NEW d \in Docs, NEW b \in Bodies \cup {Gone}, Change(d, b) PROVE TypeOK'
  <2>1. budget' \in [{"changes", "deploys", "reembeds"} -> Nat]
    BY <1>1, <1>a DEF Change
  <2> QED
    BY <1>1, <2>1 DEF Change, TypeOK
<1>2. ASSUME NEW v \in Deploys, Deploy(v) PROVE TypeOK'
  <2>1. budget' \in [{"changes", "deploys", "reembeds"} -> Nat]
    BY <1>2, <1>a DEF Deploy
  <2>2. run' \in [Runs -> Progress] /\ embed' \in Embedding /\ release' \in Releases
    BY <1>2, RestingIsProgress DEF Deploy, Asleep, Embedding, Releases
  <2>3. overtaken' \in [Runs -> SUBSET Docs] /\ bare' \in SUBSET Docs
    BY <1>2 DEF Deploy, TypeOK
  <2> QED
    BY <1>2, <2>1, <2>2, <2>3 DEF Deploy, TypeOK
<1>3. ASSUME NEW r \in Runs, Start(r) PROVE TypeOK'
  <2> DEFINE seen == [d \in Docs |-> [row |-> row[d], current |-> ChunksCurrent(d)]]
  <2>1. seen \in [Docs -> [row : Row \cup {None}, current : BOOLEAN]]
    <3>1. \A d \in Docs : ChunksCurrent(d) \in BOOLEAN /\ row[d] \in Row \cup {None}
      BY DEF ChunksCurrent, TypeOK
    <3> QED
      BY <3>1
  <2> HIDE DEF seen
  <2>2. [Resting EXCEPT !.step = "run", !.todo = Docs, !.seen = seen] \in Progress
    BY <2>1, RestingIsProgress DEF Progress, Shape, Resting
  <2>3. run' = [run EXCEPT ![r] = [Resting EXCEPT !.step = "run", !.todo = Docs, !.seen = seen]]
    BY <1>3 DEF Start, seen
  <2>4. run' \in [Runs -> Progress]
    BY <2>2, <2>3 DEF TypeOK
  <2> QED
    BY <1>3, <2>4 DEF Start, TypeOK
<1>4. ASSUME NEW r \in Runs, NEW d \in Docs, PassOver(r, d) PROVE TypeOK'
  <2>1. [run[r] EXCEPT !.todo = run[r].todo \ {d}] \in Progress
    <3>1. run[r] \in Progress
      BY DEF TypeOK
    <3> QED
      BY <3>1, TodoIsProgress
  <2>2. run' = [run EXCEPT ![r] = [run[r] EXCEPT !.todo = run[r].todo \ {d}]]
    BY <1>4 DEF PassOver
  <2>3. run' \in [Runs -> Progress]
    BY <2>1, <2>2 DEF TypeOK
  <2> QED
    BY <1>4, <2>3 DEF PassOver, TypeOK
<1>5. ASSUME NEW r \in Runs, NEW d \in Docs, Index(r, d) PROVE TypeOK'
  <2> DEFINE verdict == Verdict(run[r].seen[d], source[d])
             rows == IF verdict = "unchanged" THEN run[r].rows ELSE run[r].rows \cup {d}
             cuts == IF verdict = "indexed" THEN run[r].cuts \cup {d} ELSE run[r].cuts
             after == [run[r] EXCEPT !.todo = run[r].todo \ {d}, !.body[d] = source[d],
                                     !.rows = rows, !.cuts = cuts]
  <2>1. run' = [run EXCEPT ![r] = after]
    BY <1>5 DEF Index
  <2>2. /\ rows \in SUBSET Docs /\ cuts \in SUBSET Docs /\ cuts \subseteq rows
        /\ rows \subseteq run[r].rows \cup {d}
    BY DEF TypeOK, Progress, Shape
  <2> HIDE DEF rows, cuts
  <2>3. [run[r].body EXCEPT ![d] = source[d]] \in [Docs -> Bodies \cup {Gone}]
    BY DEF TypeOK, Progress, Shape
  <2>b. \A e \in rows : [run[r].body EXCEPT ![d] = source[d]][e] \in Bodies
    BY <1>5, <2>2 DEF Index, TypeOK, Progress, Shape
  <2>c. run[r] \in Shape /\ run[r].todo \ {d} \in SUBSET Docs
    BY DEF TypeOK, Progress, Shape
  <2>d. after \in Shape /\ after.rows = rows /\ after.cuts = cuts
        /\ after.body = [run[r].body EXCEPT ![d] = source[d]]
    BY <2>2, <2>3, <2>c DEF Shape
  <2>4. after \in Progress
    <3> HIDE DEF after
    <3> QED
      BY <2>2, <2>b, <2>d DEF Progress
  <2> HIDE DEF after
  <2>5. run' \in [Runs -> Progress]
    BY <2>1, <2>4 DEF TypeOK
  <2> QED
    BY <1>5, <2>5 DEF Index, TypeOK
<1>6. ASSUME NEW r \in Runs, Fail(r) PROVE TypeOK'
  <2>1. run' \in [Runs -> Progress]
    BY <1>6, RestingIsProgress DEF Fail, TypeOK
  <2> QED
    BY <1>6, <2>1 DEF Fail, TypeOK
<1>7. ASSUME NEW r \in Runs, Commit(r) PROVE TypeOK'
  <2> DEFINE new == {Vector(c) : c \in UNION {Chunks[d][run[r].body[d]] : d \in run[r].cuts}}
  <2>0. /\ run[r].rows \subseteq Docs /\ run[r].cuts \subseteq run[r].rows /\ release \in Releases
        /\ \A d \in run[r].rows : run[r].body[d] \in Bodies
    BY DEF TypeOK, Progress, Shape
  <2>1. \A d \in run[r].rows : [of |-> run[r].body[d], parser |-> release.parser, chunker |-> release.chunker] \in Row
    BY <2>0, ReleasesAreVersions DEF Row
  <2>2. row' \in [Docs -> Row \cup {None}]
    BY <1>7, <2>1 DEF Commit, TypeOK
  <2>3. \A d \in run[r].cuts : [of |-> run[r].body[d], chunker |-> release.chunker] \in Cut
    BY <2>0, ReleasesAreVersions DEF Cut
  <2>4. chunks' \in [Docs -> Cut \cup {None}]
    BY <1>7, <2>3 DEF Commit, TypeOK
  <2>5. Unique(vectors')
    <3>1. Unique(new)
      BY <2>0, NewVectors
    <3>2. Unique(vectors)
      BY DEF TypeOK, Unique
    <3>3. vectors' = Upserted(vectors, new)
      BY <1>7 DEF Commit
    <3> QED
      BY <3>1, <3>2, <3>3, UpsertsAreUnique
  <2>6. run' \in [Runs -> Progress]
    BY <1>7, RestingIsProgress DEF Commit, TypeOK
  <2>7. overtaken' \in [Runs -> SUBSET Docs]
    BY <1>7, <2>0 DEF Commit, TypeOK
  <2>8. mixed' \in SUBSET Docs /\ bare' \in SUBSET Docs
    BY <1>7, <2>0 DEF Commit, TypeOK
  <2>9. embed' \in Embedding
    <3>1. (embed.clean /\ run[r].cuts = {}) \in BOOLEAN
      OBVIOUS
    <3>2. [embed EXCEPT !.clean = embed.clean /\ run[r].cuts = {}] \in Embedding
      BY <3>1 DEF TypeOK, Embedding
    <3>3. embed' = embed \/ embed' = [embed EXCEPT !.clean = embed.clean /\ run[r].cuts = {}]
      BY <1>7 DEF Commit
    <3> QED
      BY <3>2, <3>3 DEF TypeOK
  <2>10. UNCHANGED <<source, release, budget>>
    BY <1>7 DEF Commit
  <2> QED
    BY <2>2, <2>4, <2>5, <2>6, <2>7, <2>8, <2>9, <2>10 DEF TypeOK, Unique
<1>8. ASSUME Prune PROVE TypeOK'
  <2>1. budget' \in [{"changes", "deploys", "reembeds"} -> Nat]
    BY <1>8, <1>a DEF Prune
  <2>2. embed' \in Embedding
    BY <1>8 DEF Prune, Asleep, Embedding
  <2>3. vectors' \subseteq vectors
    BY <1>8 DEF Prune
  <2> QED
    BY <1>8, <2>1, <2>2, <2>3 DEF Prune, TypeOK
<1>9. ASSUME NEW all \in BOOLEAN, Select(all) PROVE TypeOK'
  <2>1. \A d \in Docs : Held(d) \subseteq AllChunks
    BY HeldChunks DEF AllChunks
  <2>2. UNION {Held(d) : d \in Docs} \subseteq AllChunks
    BY <2>1
  <2>3. embed' \in Embedding
    BY <1>9, <2>2 DEF Select, Embedding, TypeOK
  <2> QED
    BY <1>9, <2>3 DEF Select, TypeOK
<1>10. ASSUME NEW c \in embed.todo, Batch(c) PROVE TypeOK'
  <2>1. Unique(vectors')
    <3>1. Unique({Vector(c)}) /\ Unique(vectors)
      BY DEF Unique, TypeOK
    <3> QED
      BY <1>10, <3>1, UpsertsAreUnique DEF Batch
  <2>2. embed' \in Embedding
    BY <1>10 DEF Batch, Embedding, TypeOK
  <2> QED
    BY <1>10, <2>1, <2>2 DEF Batch, TypeOK, Unique
<1>11. ASSUME NEW c \in embed.todo, BatchFails(c) PROVE TypeOK'
  <2>1. embed' \in Embedding
    BY <1>11 DEF BatchFails, Embedding, TypeOK
  <2> QED
    BY <1>11, <2>1 DEF BatchFails, TypeOK
<1>12. ASSUME Reembedded PROVE TypeOK'
  BY <1>12 DEF Reembedded, TypeOK, Asleep, Embedding
<1>13. CASE UNCHANGED vars
  BY <1>13 DEF vars, TypeOK
<1> QED
  BY <1>1, <1>2, <1>3, <1>4, <1>5, <1>6, <1>7, <1>8, <1>9, <1>10, <1>11, <1>12, <1>13 DEF Next

\* Rows, chunks, runs and the reembed command keep their shape, and no chunk
\* has two vectors of one model.
THEOREM TypeCorrect == Spec => []TypeOK
<1> QED
  BY InitTypeOK, NextTypeOK, PTL DEF Spec

-----------------------------------------------------------------------------
(* What a run that nobody overtook decides is right                        *)

\* What a run read of a document nobody committed under it is still there.
SeenInv ==
  \A r \in Runs : run[r].step = "run" => \A d \in Docs \ overtaken[r] :
    /\ run[r].seen[d].row = row[d]
    /\ run[r].seen[d].current => ChunksCurrent(d)

\* The words and the chunker a run knows of are those of the body it fetched.
Known(seen, b) ==
  /\ seen.row # None /\ seen.row.of.parses
  /\ Content[seen.row.of] = Content[b]
  /\ seen.current \/ seen.row.chunker = release.chunker

\* A body is cut, or its words are known, or nothing about it is new.
FetchedInv ==
  \A r \in Runs : run[r].step = "run" => \A d \in Docs :
    LET b == run[r].body[d]
        seen == run[r].seen[d] IN
    /\ d \in run[r].todo => d \notin run[r].rows
    /\ d \in run[r].cuts => b.parses
    /\ (d \in run[r].rows \ run[r].cuts /\ b.parses) => Known(seen, b)
    /\ (b \in Bodies /\ d \notin run[r].rows) =>
         /\ seen.row # None /\ seen.row.of = b /\ seen.current
         /\ seen.row.parser = release.parser

\* The chunks say what the row says, and the row knows which chunker cut them.
RowsInv ==
  \A d \in Docs \ mixed :
    row[d] # None /\ row[d].of.parses =>
      /\ chunks[d] # None
      /\ Content[chunks[d].of] = Content[row[d].of]
      /\ chunks[d].chunker = row[d].chunker

ReadInv == SeenInv /\ FetchedInv /\ RowsInv

LEMMA InitReadInv == Init => ReadInv
  BY DEF Init, ReadInv, SeenInv, FetchedInv, RowsInv, Resting

\* What index_connector writes down of a body it has fetched.
LEMMA IndexIsRight ==
  ASSUME TypeOK, NEW r \in Runs, NEW d \in Docs, run[r].step = "run", source[d] \in Bodies
  PROVE  LET b == source[d]
             seen == run[r].seen[d]
             verdict == Verdict(seen, b) IN
         /\ verdict = "indexed" => b.parses
         /\ (verdict \notin {"unchanged", "indexed"} /\ b.parses) => Known(seen, b)
         /\ verdict = "unchanged" =>
              /\ seen.row # None /\ seen.row.of = b /\ seen.current
              /\ seen.row.parser = release.parser
<1> DEFINE b == source[d]
           seen == run[r].seen[d]
           same == TextHash(seen.row.of, seen.row.parser, seen.row.chunker)
                     = TextHash(b, release.parser, release.chunker)
<1>1. seen.row # None => seen.row.of \in Bodies
  BY DEF TypeOK, Progress, Shape, Row
<1>2. same => Text[seen.row.of] = Text[b] /\ seen.row.chunker = release.chunker
  BY DEF TextHash
<1>3. Verdict(seen, b) \notin {"unchanged", "indexed"} /\ b.parses => Known(seen, b)
  <2> SUFFICES ASSUME Verdict(seen, b) \notin {"unchanged", "indexed"}, b.parses PROVE Known(seen, b)
    OBVIOUS
  <2>1. /\ seen.row # None /\ seen.row.of.parses
        /\ Cosmetic(seen.row, b) \/ same
        /\ seen.current \/ same
    BY VerdictSays
  <2>2. Content[seen.row.of] = Content[b]
    BY <1>1, <1>2, <2>1, TextSaysContent DEF Cosmetic
  <2> HIDE DEF same, b, seen
  <2> QED
    BY <1>2, <2>1, <2>2 DEF Known
<1>4. Verdict(seen, b) = "unchanged" => PipelineCurrent(seen) /\ seen.row.of = b
  BY VerdictSays
<1>5. Verdict(seen, b) = "indexed" => b.parses
  BY VerdictSays
<1> QED
  BY <1>3, <1>4, <1>5 DEF PipelineCurrent

LEMMA StepReadInv == TypeOK /\ ReadInv /\ [Next]_vars => ReadInv'
<1> SUFFICES ASSUME TypeOK, ReadInv, [Next]_vars PROVE ReadInv'
  OBVIOUS
<1> USE DEF stored, history
<1>a. ASSUME UNCHANGED <<row, chunks, mixed>> PROVE RowsInv'
  BY <1>a DEF ReadInv, RowsInv
<1>b. ASSUME UNCHANGED <<release, chunks>>, NEW d \in Docs PROVE ChunksCurrent(d)' = ChunksCurrent(d)
  BY <1>b DEF ChunksCurrent, Held
<1>u. ASSUME UNCHANGED <<release, row, chunks, run, overtaken, mixed>> PROVE ReadInv'
  <2>1. SeenInv'
    BY <1>u, <1>b DEF ReadInv, SeenInv
  <2>2. FetchedInv'
    BY <1>u DEF ReadInv, FetchedInv, Known
  <2> QED
    BY <1>u, <1>a, <2>1, <2>2 DEF ReadInv
<1>1. ASSUME NEW v \in Deploys, Deploy(v) PROVE ReadInv'
  <2>1. \A r \in Runs : run'[r].step = "idle"
    BY <1>1 DEF Deploy, Resting
  <2>2. SeenInv' /\ FetchedInv'
    BY <2>1 DEF SeenInv, FetchedInv
  <2> QED
    BY <1>1, <1>a, <2>2 DEF Deploy, ReadInv
<1>2. ASSUME NEW r \in Runs, Start(r) PROVE ReadInv'
  <2>0. UNCHANGED <<release, row, chunks, mixed>>
    BY <1>2 DEF Start
  <2>1. \A q \in Runs \ {r} : run'[q] = run[q] /\ overtaken'[q] = overtaken[q]
    BY <1>2 DEF Start, TypeOK
  <2>2. /\ \A d \in Docs : /\ run'[r].seen[d].row = row[d]
                           /\ run'[r].seen[d].current = ChunksCurrent(d)
                           /\ run'[r].body[d] = Gone
        /\ run'[r].rows = {} /\ run'[r].cuts = {}
    BY <1>2 DEF Start, TypeOK, Resting
  <2>3. SeenInv'
    BY <1>b, <2>0, <2>1, <2>2 DEF ReadInv, SeenInv
  <2>4. FetchedInv'
    BY <2>0, <2>1, <2>2, SourceAssumption DEF ReadInv, FetchedInv, Known
  <2> QED
    BY <1>a, <2>0, <2>3, <2>4 DEF ReadInv
<1>3. ASSUME NEW r \in Runs, NEW d \in Docs, PassOver(r, d) PROVE ReadInv'
  <2>0. UNCHANGED <<release, row, chunks, mixed, overtaken>>
    BY <1>3 DEF PassOver
  <2>1. \A q \in Runs : /\ run'[q].step = run[q].step /\ run'[q].seen = run[q].seen
                       /\ run'[q].body = run[q].body
                       /\ run'[q].rows = run[q].rows /\ run'[q].cuts = run[q].cuts
                       /\ run'[q].todo \subseteq run[q].todo
    BY <1>3 DEF PassOver, TypeOK, Progress, Shape
  <2>2. SeenInv'
    BY <1>b, <2>0, <2>1 DEF ReadInv, SeenInv
  <2>3. FetchedInv'
    BY <2>0, <2>1 DEF ReadInv, FetchedInv, Known
  <2> QED
    BY <1>a, <2>0, <2>2, <2>3 DEF ReadInv
<1>4. ASSUME NEW r \in Runs, NEW d \in Docs, Index(r, d) PROVE ReadInv'
  <2> DEFINE verdict == Verdict(run[r].seen[d], source[d])
  <2>0. UNCHANGED <<release, row, chunks, mixed, overtaken>>
    BY <1>4 DEF Index
  <2>1. \A q \in Runs : run'[q].step = run[q].step /\ run'[q].seen = run[q].seen
    BY <1>4 DEF Index, TypeOK, Progress, Shape
  <2>2. \A q \in Runs \ {r} : run'[q] = run[q]
    BY <1>4 DEF Index, TypeOK
  <2>3. /\ run'[r].body = [run[r].body EXCEPT ![d] = source[d]]
        /\ run'[r].rows = IF verdict = "unchanged" THEN run[r].rows ELSE run[r].rows \cup {d}
        /\ run'[r].cuts = IF verdict = "indexed" THEN run[r].cuts \cup {d} ELSE run[r].cuts
        /\ run'[r].todo = run[r].todo \ {d}
    BY <1>4 DEF Index, TypeOK, Progress, Shape
  <2>4. /\ run'[r].body[d] = source[d]
        /\ \A e \in Docs \ {d} : run'[r].body[e] = run[r].body[e]
    BY <2>3 DEF TypeOK, Progress, Shape
  <2>5. run[r].step = "run" /\ source[d] \in Bodies
    BY <1>4 DEF Index, TypeOK
  <2>6. SeenInv'
    BY <1>b, <2>0, <2>1 DEF ReadInv, SeenInv
  <2>7. /\ verdict = "indexed" => source[d].parses
        /\ (verdict \notin {"unchanged", "indexed"} /\ source[d].parses) => Known(run[r].seen[d], source[d])
        /\ verdict = "unchanged" =>
             /\ run[r].seen[d].row # None /\ run[r].seen[d].row.of = source[d] /\ run[r].seen[d].current
             /\ run[r].seen[d].row.parser = release.parser
    BY <2>5, IndexIsRight
  <2> HIDE DEF verdict
  <2>f. FetchedInv
    BY DEF ReadInv
  <2>8. FetchedInv'
    <3> SUFFICES ASSUME NEW q \in Runs, run'[q].step = "run", NEW e \in Docs
                 PROVE  /\ e \in run'[q].todo => e \notin run'[q].rows
                        /\ e \in run'[q].cuts => run'[q].body[e].parses
                        /\ (e \in run'[q].rows \ run'[q].cuts /\ run'[q].body[e].parses)
                             => Known(run'[q].seen[e], run'[q].body[e])
                        /\ (run'[q].body[e] \in Bodies /\ e \notin run'[q].rows) =>
                             /\ run'[q].seen[e].row # None /\ run'[q].seen[e].row.of = run'[q].body[e]
                             /\ run'[q].seen[e].current /\ run'[q].seen[e].row.parser = release.parser
      BY <2>0 DEF FetchedInv, Known
    <3>1. CASE q # r
      BY <3>1, <2>2, <2>f DEF FetchedInv
    <3>2. CASE q = r /\ e # d
      <4>1. /\ e \in run'[r].rows <=> e \in run[r].rows
            /\ e \in run'[r].cuts <=> e \in run[r].cuts
            /\ e \in run'[r].todo => e \in run[r].todo
            /\ run'[r].body[e] = run[r].body[e] /\ run'[r].seen = run[r].seen
        BY <3>2, <2>1, <2>3, <2>4
      <4> QED
        BY <3>2, <4>1, <2>5, <2>f DEF FetchedInv
    <3>3. d \notin run[r].rows /\ d \notin run[r].cuts
      BY <1>4, <2>5, <2>f DEF FetchedInv, Index, TypeOK, Progress, Shape
    <3>4. CASE q = r /\ e = d
      <4>1. /\ d \in run'[r].rows <=> verdict # "unchanged"
            /\ d \in run'[r].cuts <=> verdict = "indexed"
            /\ d \notin run'[r].todo
            /\ run'[r].body[d] = source[d] /\ run'[r].seen = run[r].seen
        BY <3>3, <2>1, <2>3, <2>4
      <4> QED
        BY <3>4, <4>1, <2>7
    <3> QED
      BY <3>1, <3>2, <3>4
  <2> QED
    BY <1>a, <2>0, <2>6, <2>8 DEF ReadInv
<1>5. ASSUME NEW r \in Runs, Commit(r) PROVE ReadInv'
  <2> DEFINE written == run[r].rows
             recut == run[r].cuts
             body == run[r].body
  <2>0. /\ run[r].step = "run" /\ release' = release
        /\ mixed' = (mixed \ recut) \cup ((written \ recut) \cap overtaken[r])
        /\ recut \subseteq written /\ written \subseteq Docs
        /\ \A d \in written : body[d] \in Bodies
    BY <1>5 DEF Commit, TypeOK, Progress, Shape
  <2>1. \A d \in Docs :
         /\ d \in written => row'[d] = [of |-> body[d], parser |-> release.parser, chunker |-> release.chunker]
         /\ d \notin written => row'[d] = row[d]
         /\ d \in recut => chunks'[d] = [of |-> body[d], chunker |-> release.chunker]
         /\ d \notin recut => chunks'[d] = chunks[d]
    BY <1>5 DEF Commit
  <2>2. \A q \in Runs \ {r} : run'[q] = run[q] /\ (run[q].step = "run" => overtaken'[q] = overtaken[q] \cup written)
    BY <1>5 DEF Commit, TypeOK
  <2>3. run'[r].step = "idle"
    BY <1>5 DEF Commit, TypeOK, Resting
  <2>s. SeenInv /\ FetchedInv /\ RowsInv
    BY DEF ReadInv
  <2>4. SeenInv'
    <3> SUFFICES ASSUME NEW q \in Runs, run'[q].step = "run", NEW d \in Docs \ overtaken'[q]
                 PROVE  run'[q].seen[d].row = row'[d] /\ (run'[q].seen[d].current => ChunksCurrent(d)')
      BY DEF SeenInv
    <3>1. q # r /\ run'[q] = run[q] /\ d \in Docs \ overtaken[q] /\ d \notin written
      BY <2>2, <2>3
    <3>2. row'[d] = row[d] /\ chunks'[d] = chunks[d]
      BY <2>0, <2>1, <3>1
    <3>3. ChunksCurrent(d)' = ChunksCurrent(d)
      BY <2>0, <3>2 DEF ChunksCurrent, Held
    <3> QED
      BY <2>s, <3>1, <3>2, <3>3 DEF SeenInv
  <2>5. FetchedInv'
    BY <2>0, <2>2, <2>3, <2>s DEF FetchedInv, Known
  <2>6. RowsInv'
    <3> SUFFICES ASSUME NEW d \in Docs \ mixed', row'[d] # None, row'[d].of.parses
                 PROVE  /\ chunks'[d] # None
                        /\ Content[chunks'[d].of] = Content[row'[d].of]
                        /\ chunks'[d].chunker = row'[d].chunker
      BY DEF RowsInv
    <3>1. CASE d \in recut
      <4>1. chunks'[d] = [of |-> body[d], chunker |-> release.chunker]
        BY <3>1, <2>0, <2>1
      <4>2. row'[d] = [of |-> body[d], parser |-> release.parser, chunker |-> release.chunker]
        BY <3>1, <2>0, <2>1
      <4>3. chunks'[d] # None
        BY <4>1, NoneIsNothing, Zenon
      <4> QED
        BY <4>1, <4>2, <4>3
    <3>2. CASE d \in written \ recut
      <4>0. row'[d] = [of |-> body[d], parser |-> release.parser, chunker |-> release.chunker]
        BY <3>2, <2>0, <2>1
      <4>1. d \notin overtaken[r] /\ d \notin mixed /\ row'[d].of = body[d] /\ chunks'[d] = chunks[d]
            /\ row'[d].chunker = release.chunker
        <5>1. d \notin mixed' /\ d \in Docs /\ d \in written /\ d \notin recut
          BY <3>2
        <5>2. d \notin overtaken[r] /\ d \notin mixed
          BY <5>1, <2>0
        <5>3. chunks'[d] = chunks[d]
          BY <5>1, <2>1
        <5> QED
          BY <5>2, <5>3, <4>0
      <4>2. Known(run[r].seen[d], body[d])
        BY <3>2, <4>1, <2>0, <2>s DEF FetchedInv
      <4>3. run[r].seen[d].row = row[d] /\ (run[r].seen[d].current => ChunksCurrent(d))
        BY <4>1, <2>0, <2>s DEF SeenInv
      <4>4. /\ row[d] # None /\ row[d].of.parses /\ Content[row[d].of] = Content[body[d]]
            /\ ChunksCurrent(d) \/ row[d].chunker = release.chunker
        BY <4>2, <4>3 DEF Known
      <4>5. /\ chunks[d] # None /\ Content[chunks[d].of] = Content[row[d].of]
            /\ chunks[d].chunker = row[d].chunker
        BY <4>1, <4>4, <2>s DEF RowsInv
      <4>6. chunks[d].chunker = release.chunker
        BY <4>4, <4>5 DEF ChunksCurrent
      <4> QED
        BY <4>1, <4>4, <4>5, <4>6
    <3>3. CASE d \notin written
      BY <3>3, <2>0, <2>1, <2>s DEF RowsInv
    <3> QED
      BY <3>1, <3>2, <3>3
  <2> QED
    BY <2>4, <2>5, <2>6 DEF ReadInv
<1>6. ASSUME NEW r \in Runs, Fail(r) PROVE ReadInv'
  <2>0. UNCHANGED <<release, row, chunks, mixed>>
    BY <1>6 DEF Fail
  <2>1. \A q \in Runs \ {r} : run'[q] = run[q] /\ overtaken'[q] = overtaken[q]
    BY <1>6 DEF Fail, TypeOK
  <2>2. run'[r].step = "idle"
    BY <1>6 DEF Fail, TypeOK, Resting
  <2>3. SeenInv'
    BY <1>b, <2>0, <2>1, <2>2 DEF ReadInv, SeenInv
  <2>4. FetchedInv'
    BY <2>0, <2>1, <2>2 DEF ReadInv, FetchedInv, Known
  <2> QED
    BY <1>a, <2>0, <2>3, <2>4 DEF ReadInv
<1>7. ASSUME NEW d \in Docs, NEW b \in Bodies \cup {Gone}, Change(d, b) PROVE ReadInv'
  BY <1>7, <1>u DEF Change
<1>8. ASSUME Prune PROVE ReadInv'
  BY <1>8, <1>u DEF Prune
<1>9. ASSUME NEW all \in BOOLEAN, Select(all) PROVE ReadInv'
  BY <1>9, <1>u DEF Select
<1>10. ASSUME NEW c \in embed.todo, Batch(c) \/ BatchFails(c) PROVE ReadInv'
  BY <1>10, <1>u DEF Batch, BatchFails
<1>11. ASSUME Reembedded PROVE ReadInv'
  BY <1>11, <1>u DEF Reembedded
<1>12. CASE UNCHANGED vars
  BY <1>12, <1>u DEF vars
<1> QED
  BY <1>1, <1>2, <1>3, <1>4, <1>5, <1>6, <1>7, <1>8, <1>9, <1>10, <1>11, <1>12 DEF Next

\* The inductive invariant of the index runs.
THEOREM ReadsHold == Spec => []ReadInv
<1> QED
  BY InitReadInv, StepReadInv, TypeCorrect, NextTypeOK, PTL DEF Spec

\* Chunks say what the rows say, for any documents, bodies, releases and runs,
\* except where two overlapping runs wrote the one and the other.
THEOREM ChunksSayWhatRowsSayHolds == Spec => []ChunksSayWhatRowsSay
<1>1. ReadInv => ChunksSayWhatRowsSay
  BY DEF ReadInv, RowsInv, ChunksSayWhatRowsSay
<1> QED
  BY <1>1, ReadsHold, PTL

\* When a run commits that nobody overtook, what it fetched reached the corpus
\* by the parser and the chunker that are running.
LEMMA CommitBringsUpToDate ==
  ASSUME TypeOK, ReadInv, NEW r \in Runs, Commit(r), NEW d \in Docs \ (overtaken[r] \cup mixed),
         run[r].body[d] # Gone, run[r].body[d].parses
  PROVE  /\ Content[chunks'[d].of] = Content[run[r].body[d]]
         /\ chunks'[d].chunker = release.chunker
         /\ row'[d].parser = release.parser
<1> DEFINE b == run[r].body[d]
           seen == run[r].seen[d]
<1>0. /\ b \in Bodies /\ run[r].step = "run"
      /\ d \in run[r].rows => row'[d] = [of |-> b, parser |-> release.parser, chunker |-> release.chunker]
      /\ d \notin run[r].rows => row'[d] = row[d]
      /\ d \in run[r].cuts => chunks'[d] = [of |-> b, chunker |-> release.chunker]
      /\ d \notin run[r].cuts => chunks'[d] = chunks[d]
      /\ d \in run[r].cuts => d \in run[r].rows
  BY DEF Commit, TypeOK, Progress, Shape
<1>1. seen.row = row[d] /\ (seen.current => ChunksCurrent(d))
  BY <1>0 DEF ReadInv, SeenInv
<1>2. row[d] # None /\ row[d].of.parses =>
        Content[chunks[d].of] = Content[row[d].of] /\ chunks[d].chunker = row[d].chunker
  BY DEF ReadInv, RowsInv
<1>3. ChunksCurrent(d) => chunks[d].chunker = release.chunker
  BY DEF ChunksCurrent
<1>4. CASE d \in run[r].cuts
  BY <1>0, <1>4
<1>5. CASE d \in run[r].rows \ run[r].cuts
  <2>1. Known(seen, b)
    BY <1>0, <1>5 DEF ReadInv, FetchedInv
  <2> QED
    BY <1>0, <1>1, <1>2, <1>3, <1>5, <2>1 DEF Known
<1>6. CASE d \notin run[r].rows
  <2>1. seen.row # None /\ seen.row.of = b /\ seen.current /\ seen.row.parser = release.parser
    BY <1>0, <1>6 DEF ReadInv, FetchedInv
  <2> QED
    BY <1>0, <1>1, <1>2, <1>3, <1>6, <2>1
<1> QED
  BY <1>4, <1>5, <1>6

\* An improvement that shipped reaches the corpus, for any releases and edits.
THEOREM RunsBringUpToDateHolds == Spec => RunsBringUpToDate
<1>1. TypeOK /\ ReadInv /\ [Next]_vars =>
        [\A r \in Runs : Commit(r) =>
           \A d \in Docs \ (overtaken[r] \cup mixed) :
             LET b == run[r].body[d] IN
             (b # Gone /\ b.parses) =>
               /\ Content[chunks'[d].of] = Content[b]
               /\ chunks'[d].chunker = release.chunker
               /\ row'[d].parser = release.parser]_vars
  BY CommitBringsUpToDate
<1> QED
  BY <1>1, ReadsHold, TypeCorrect, PTL DEF Spec, RunsBringUpToDate

-----------------------------------------------------------------------------
(* Every chunk has the vector of its own text                              *)

AllHeld == UNION {Held(d) : d \in Docs}
HasVector(c) == \E v \in vectors : v.id = c.id /\ v.model = release.model

\* A vector is of the text of the chunk that has its identity, whatever model
\* made it: a deployment may bring back an earlier one.
VectorInv ==
  \A d \in Docs : \A c \in Held(d) : \A v \in vectors \ crossed :
    v.id = c.id => v.over = c.over

\* What reembed has pruned stays pruned and what it has read is held, unless
\* somebody commits chunks under it; what it has not yet written lacks nothing.
EmbedInv ==
  /\ embed.step # "idle" /\ embed.clean =>
       /\ \A v \in vectors : v.id \in HeldIds /\ v.model = release.model
       /\ embed.todo \subseteq AllHeld
  /\ embed.step = "embed" /\ ~embed.failed =>
       \A c \in AllHeld : c \in embed.todo \/ HasVector(c)

VectorsInv == VectorInv /\ EmbedInv /\ ChunksHaveVectors

LEMMA InitVectorsInv == Init => VectorsInv
  BY DEF Init, VectorsInv, VectorInv, EmbedInv, ChunksHaveVectors, Held, Asleep

\* Two chunks held at once never share an identity.
LEMMA HeldIdsAreChunks ==
  ASSUME TypeOK, NEW d \in Docs, NEW e \in Docs, NEW c \in Held(d), NEW k \in Held(e), c.id = k.id
  PROVE  c = k
<1>1. d = e
  BY HeldChunks, IdsNameDocs
<1> QED
  BY <1>1, HeldChunks, IdsAreChunks

LEMMA IdsOfHeld == HeldIds = {c.id : c \in AllHeld}
  BY DEF HeldIds, AllHeld

\* A vector that is written over is replaced by one of its identity and model.
LEMMA UpsertKeeps ==
  ASSUME NEW old, NEW new, NEW v \in old
  PROVE  \E u \in Upserted(old, new) : u.id = v.id /\ u.model = v.model
<1>1. CASE \E n \in new : v.id = n.id /\ v.model = n.model
  BY <1>1 DEF Upserted
<1>2. CASE \A n \in new : v.id # n.id \/ v.model # n.model
  BY <1>2 DEF Upserted
<1> QED
  BY <1>1, <1>2

LEMMA StepVectorsInv == TypeOK /\ VectorsInv /\ [Next]_vars => VectorsInv'
<1> SUFFICES ASSUME TypeOK, VectorsInv, [Next]_vars PROVE VectorsInv'
  OBVIOUS
<1> USE DEF stored, history
<1>s. VectorInv /\ EmbedInv /\ ChunksHaveVectors
  BY DEF VectorsInv
<1>h. ASSUME UNCHANGED chunks
      PROVE  (\A d \in Docs : Held(d)' = Held(d)) /\ AllHeld' = AllHeld /\ HeldIds' = HeldIds
  BY <1>h DEF Held, AllHeld, HeldIds
<1>u. ASSUME UNCHANGED <<release, chunks, vectors, embed, crossed, bare>> PROVE VectorsInv'
  <2>1. /\ \A d \in Docs : Held(d)' = Held(d)
        /\ AllHeld' = AllHeld /\ HeldIds' = HeldIds
    BY <1>u, <1>h
  <2>2. VectorInv' /\ ChunksHaveVectors'
    BY <1>s, <1>u, <2>1 DEF VectorInv, ChunksHaveVectors
  <2>3. EmbedInv'
    BY <1>s, <1>u, <2>1 DEF EmbedInv, HasVector
  <2> QED
    BY <2>2, <2>3 DEF VectorsInv
<1>1. ASSUME NEW v \in Deploys, Deploy(v) PROVE VectorsInv'
  <2>0. UNCHANGED <<chunks, vectors, crossed>> /\ embed'.step = "idle"
    BY <1>1 DEF Deploy, Asleep
  <2>1. \A d \in Docs : Held(d)' = Held(d)
    BY <2>0, <1>h
  <2>2. VectorInv' /\ EmbedInv'
    BY <1>s, <2>0, <2>1 DEF VectorInv, EmbedInv
  <2>3. ChunksHaveVectors'
    <3>1. CASE v.model = release.model
      BY <1>1, <1>s, <2>0, <2>1, <3>1 DEF Deploy, ChunksHaveVectors
    <3>2. CASE v.model # release.model
      <4>1. \A d \in Docs \ bare' : Held(d) = {}
        BY <1>1, <3>2 DEF Deploy, Held
      <4> QED
        BY <4>1, <2>1 DEF ChunksHaveVectors
    <3> QED
      BY <3>1, <3>2
  <2> QED
    BY <2>2, <2>3 DEF VectorsInv
<1>2. ASSUME NEW r \in Runs, Commit(r) PROVE VectorsInv'
  <2> DEFINE body == run[r].body
             recut == run[r].cuts
             fresh == UNION {Chunks[d][body[d]] : d \in recut}
             new == {Vector(c) : c \in fresh}
             outdated == {v \in vectors : \E n \in new : v.id = n.id /\ v.over # n.over}
  <2>0. /\ vectors' = Upserted(vectors, new) /\ release' = release
        /\ crossed' = {v \in crossed \cup outdated : \A n \in new : v.id # n.id \/ v.model # n.model}
        /\ bare' = bare \ recut
    BY <1>2 DEF Commit
  <2>1. recut \subseteq Docs /\ \A d \in recut : body[d] \in Bodies
    BY DEF TypeOK, Progress, Shape
  <2>2. \A d \in Docs \ recut : Held(d)' = Held(d)
    BY <1>2 DEF Commit, Held
  <2>3. \A d \in recut : Held(d)' = Chunks[d][body[d]]
    <3> SUFFICES ASSUME NEW d \in recut PROVE Held(d)' = Chunks[d][body[d]]
      OBVIOUS
    <3>1. chunks'[d] = [of |-> body[d], chunker |-> release.chunker]
      BY <1>2, <2>1 DEF Commit
    <3>2. chunks'[d] # None
      BY <3>1, NoneIsNothing, Zenon
    <3> QED
      BY <3>1, <3>2 DEF Held
  <2>4. ASSUME NEW c \in fresh
        PROVE  /\ \E v \in vectors' : v.id = c.id /\ v.model = release.model
               /\ \E d \in recut : c \in Chunks[d][body[d]]
    <3>1. Vector(c) \in vectors'
      BY <2>0 DEF Upserted
    <3> QED
      BY <3>1, VectorOf
  <2>5. \A n \in new : \E c \in fresh : n = Vector(c)
    OBVIOUS
  <2>f. \A d \in recut : \A c \in Chunks[d][body[d]] : c \in fresh
    OBVIOUS
  <2> HIDE DEF new, fresh
  <2>6. VectorInv'
    <3> SUFFICES ASSUME NEW d \in Docs, NEW c \in Held(d)', NEW v \in vectors' \ crossed', v.id = c.id
                 PROVE  v.over = c.over
      BY DEF VectorInv
    <3>1. CASE v \in new
      <4>1. PICK k \in fresh : v = Vector(k)
        BY <3>1, <2>5
      <4>2. PICK e \in recut : k \in Chunks[e][body[e]]
        BY <2>4
      <4>3. k.id = c.id /\ v.over = k.over
        BY <4>1, VectorOf
      <4>4. PICK b \in Bodies : c \in Chunks[d][b]
        <5>1. CASE d \in recut
          BY <5>1, <2>1, <2>3
        <5>2. CASE d \notin recut
          BY <5>2, <2>2, HeldChunks
        <5> QED
          BY <5>1, <5>2
      <4>5. d = e
        BY <4>2, <4>3, <4>4, <2>1, IdsNameDocs
      <4>6. k = c
        BY <4>2, <4>3, <4>5, <2>1, <2>3, IdsAreChunks
      <4> QED
        BY <4>3, <4>6
    <3>2. CASE v \notin new
      <4>1. v \in vectors /\ \A n \in new : v.id # n.id \/ v.model # n.model
        BY <3>2, <2>0 DEF Upserted
      <4>2. v \notin crossed /\ v \notin outdated
        BY <4>1, <2>0
      <4>3. CASE d \in recut
        <5>1. c \in fresh
          BY <4>3, <2>3, <2>f
        <5>2. Vector(c) \in new
          BY <5>1 DEF new
        <5> QED
          BY <4>1, <4>2, <5>2, VectorOf
      <4>4. CASE d \notin recut
        BY <4>1, <4>2, <4>4, <2>2, <1>s DEF VectorInv
      <4> QED
        BY <4>3, <4>4
    <3> QED
      BY <3>1, <3>2
  <2>7. ChunksHaveVectors'
    <3> SUFFICES ASSUME NEW d \in Docs \ bare', NEW c \in Held(d)'
                 PROVE  \E v \in vectors' : v.id = c.id /\ v.model = release.model
      BY <2>0 DEF ChunksHaveVectors
    <3>1. CASE d \in recut
      BY <3>1, <2>3, <2>4, <2>f
    <3>2. CASE d \notin recut
      <4>1. \E v \in vectors : v.id = c.id /\ v.model = release.model
        BY <3>2, <2>0, <2>2, <1>s DEF ChunksHaveVectors
      <4>2. PICK v \in vectors : v.id = c.id /\ v.model = release.model
        BY <4>1
      <4>3. \E u \in vectors' : u.id = v.id /\ u.model = v.model
        BY <2>0, UpsertKeeps
      <4> QED
        BY <4>2, <4>3
    <3> QED
      BY <3>1, <3>2
  <2>8. EmbedInv'
    <3>1. /\ embed'.step = embed.step /\ embed'.todo = embed.todo /\ embed'.failed = embed.failed
          /\ embed'.step # "idle" /\ embed'.clean => embed.clean /\ recut = {}
      BY <1>2 DEF Commit, TypeOK, Embedding
    <3>2. ASSUME embed'.step # "idle", embed'.clean
          PROVE  (\A v \in vectors' : v.id \in HeldIds' /\ v.model = release.model) /\ embed.todo \subseteq AllHeld'
      <4>1. recut = {} /\ embed.clean
        BY <3>1, <3>2
      <4>2. new = {}
        BY <4>1 DEF new, fresh
      <4>3. vectors' \subseteq vectors
        BY <4>2, <2>0 DEF Upserted
      <4>4. \A d \in Docs : Held(d)' = Held(d)
        BY <4>1, <2>2
      <4>5. AllHeld' = AllHeld /\ HeldIds' = HeldIds
        BY <4>4 DEF AllHeld, HeldIds
      <4> QED
        BY <4>1, <4>3, <4>5, <3>1, <3>2, <1>s DEF EmbedInv
    <3>3. ASSUME embed'.step = "embed", ~embed'.failed, NEW c \in AllHeld'
          PROVE  c \in embed.todo \/ HasVector(c)'
      <4>1. PICK d \in Docs : c \in Held(d)'
        BY DEF AllHeld
      <4>2. CASE d \in recut
        BY <4>1, <4>2, <2>0, <2>3, <2>4, <2>f DEF HasVector
      <4>3. CASE d \notin recut
        <5>1. c \in AllHeld
          BY <4>1, <4>3, <2>2 DEF AllHeld
        <5>2. c \in embed.todo \/ HasVector(c)
          BY <5>1, <3>1, <3>3, <1>s DEF EmbedInv
        <5>3. HasVector(c) => HasVector(c)'
          <6>1. \A v \in vectors : \E u \in vectors' : u.id = v.id /\ u.model = v.model
            BY <2>0, UpsertKeeps
          <6> QED
            BY <6>1, <2>0 DEF HasVector
        <5> QED
          BY <5>2, <5>3
      <4> QED
        BY <4>2, <4>3
    <3> QED
      BY <3>1, <3>2, <3>3, <2>0 DEF EmbedInv
  <2> QED
    BY <2>6, <2>7, <2>8 DEF VectorsInv
<1>3. ASSUME Prune PROVE VectorsInv'
  <2>0. UNCHANGED <<release, chunks, crossed, bare>> /\ embed'.step = "pruned" /\ embed'.todo = {}
        /\ vectors' = {v \in vectors : v.id \in HeldIds /\ v.model = release.model}
    BY <1>3 DEF Prune, Asleep
  <2>1. (\A d \in Docs : Held(d)' = Held(d)) /\ AllHeld' = AllHeld /\ HeldIds' = HeldIds
    BY <2>0, <1>h
  <2>2. VectorInv'
    BY <1>s, <2>0, <2>1 DEF VectorInv
  <2>3. ChunksHaveVectors'
    <3>1. \A d \in Docs : \A c \in Held(d) : c.id \in HeldIds
      BY DEF HeldIds
    <3> QED
      BY <1>s, <2>0, <2>1, <3>1 DEF ChunksHaveVectors
  <2>4. EmbedInv'
    BY <2>0, <2>1 DEF EmbedInv
  <2> QED
    BY <2>2, <2>3, <2>4 DEF VectorsInv
<1>4. ASSUME NEW all \in BOOLEAN, Select(all) PROVE VectorsInv'
  <2>0. /\ UNCHANGED <<release, chunks, vectors, crossed, bare>>
        /\ embed.step = "pruned" /\ embed'.step = "embed"
        /\ embed'.clean = embed.clean
        /\ embed'.todo = {c \in AllHeld : all \/ Lacks(c)}
    BY <1>4 DEF Select, AllHeld, TypeOK, Embedding
  <2>1. (\A d \in Docs : Held(d)' = Held(d)) /\ AllHeld' = AllHeld /\ HeldIds' = HeldIds
    BY <2>0, <1>h
  <2>2. VectorInv' /\ ChunksHaveVectors'
    BY <1>s, <2>0, <2>1 DEF VectorInv, ChunksHaveVectors
  <2>3. \A c : ~Lacks(c) => HasVector(c)
    BY DEF Lacks, HasVector
  <2>4. \A c : HasVector(c)' = HasVector(c)
    BY <2>0 DEF HasVector
  <2>5. EmbedInv'
    BY <1>s, <2>0, <2>1, <2>3, <2>4 DEF EmbedInv
  <2> QED
    BY <2>2, <2>5 DEF VectorsInv
<1>5. ASSUME NEW c \in embed.todo, Batch(c) PROVE VectorsInv'
  <2> DEFINE new == {Vector(c)}
  <2>0. /\ UNCHANGED <<release, chunks, bare>> /\ vectors' = Upserted(vectors, new)
        /\ crossed' = IF c \in AllHeld THEN crossed \ {Vector(c)} ELSE crossed \cup {Vector(c)}
        /\ embed.step = "embed" /\ embed'.step = "embed" /\ embed'.todo = embed.todo \ {c}
        /\ embed'.clean = embed.clean /\ embed'.failed = embed.failed
    BY <1>5 DEF Batch, AllHeld, TypeOK, Embedding
  <2>1. (\A d \in Docs : Held(d)' = Held(d)) /\ AllHeld' = AllHeld /\ HeldIds' = HeldIds
    BY <2>0, <1>h
  <2>2. VectorInv'
    <3> SUFFICES ASSUME NEW d \in Docs, NEW k \in Held(d), NEW v \in vectors' \ crossed', v.id = k.id
                 PROVE  v.over = k.over
      BY <2>1 DEF VectorInv
    <3>1. CASE v = Vector(c)
      <4>1. PICK e \in Docs : c \in Held(e)
        BY <3>1, <2>0 DEF AllHeld
      <4>2. c = k
        BY <3>1, <4>1, VectorOf, HeldIdsAreChunks
      <4> QED
        BY <3>1, <4>2, VectorOf
    <3>2. CASE v # Vector(c)
      <4>1. v \in vectors \ crossed
        BY <3>2, <2>0 DEF Upserted
      <4> QED
        BY <4>1, <1>s DEF VectorInv
    <3> QED
      BY <3>1, <3>2
  <2>3. ChunksHaveVectors'
    <3> SUFFICES ASSUME NEW d \in Docs \ bare, NEW k \in Held(d)
                 PROVE  \E v \in vectors' : v.id = k.id /\ v.model = release.model
      BY <2>0, <2>1 DEF ChunksHaveVectors
    <3>1. \E v \in vectors : v.id = k.id /\ v.model = release.model
      BY <1>s DEF ChunksHaveVectors
    <3>2. PICK v \in vectors : v.id = k.id /\ v.model = release.model
      BY <3>1
    <3>3. \E u \in vectors' : u.id = v.id /\ u.model = v.model
      BY <2>0, UpsertKeeps
    <3> QED
      BY <3>2, <3>3
  <2>4. Vector(c) \in vectors' /\ Vector(c).id = c.id /\ Vector(c).model = release.model
    BY <2>0, VectorOf DEF Upserted
  <2>5. \A k \in AllHeld : HasVector(k) => HasVector(k)'
    <3>1. \A v \in vectors : \E u \in vectors' : u.id = v.id /\ u.model = v.model
      BY <2>0, UpsertKeeps
    <3> QED
      BY <3>1, <2>0 DEF HasVector
  <2>6. HasVector(c)'
    BY <2>0, <2>4 DEF HasVector
  <2>7. EmbedInv'
    <3>1. ASSUME embed.clean
          PROVE  (\A v \in vectors' : v.id \in HeldIds /\ v.model = release.model) /\ embed.todo \subseteq AllHeld
      <4>1. (\A v \in vectors : v.id \in HeldIds /\ v.model = release.model) /\ embed.todo \subseteq AllHeld
        BY <3>1, <2>0, <1>s DEF EmbedInv
      <4>2. c.id \in HeldIds
        BY <4>1, IdsOfHeld
      <4>3. \A v \in vectors' : v \in vectors \/ v = Vector(c)
        BY <2>0 DEF Upserted
      <4> QED
        BY <4>1, <4>2, <4>3, <2>4
    <3>2. ASSUME ~embed.failed, NEW k \in AllHeld PROVE k \in embed.todo \ {c} \/ HasVector(k)'
      <4>1. k \in embed.todo \/ HasVector(k)
        BY <3>2, <2>0, <1>s DEF EmbedInv
      <4> QED
        BY <4>1, <2>5, <2>6
    <3> QED
      BY <3>1, <3>2, <2>0, <2>1 DEF EmbedInv
  <2> QED
    BY <2>2, <2>3, <2>7 DEF VectorsInv
<1>6. ASSUME NEW c \in embed.todo, BatchFails(c) PROVE VectorsInv'
  <2>0. /\ UNCHANGED <<release, chunks, vectors, crossed, bare>>
        /\ embed'.step = embed.step /\ embed'.todo \subseteq embed.todo
        /\ embed'.clean = embed.clean /\ embed'.failed
    BY <1>6 DEF BatchFails, TypeOK, Embedding
  <2>1. (\A d \in Docs : Held(d)' = Held(d)) /\ AllHeld' = AllHeld /\ HeldIds' = HeldIds
    BY <2>0, <1>h
  <2>2. VectorInv' /\ ChunksHaveVectors'
    BY <1>s, <2>0, <2>1 DEF VectorInv, ChunksHaveVectors
  <2>3. EmbedInv'
    BY <1>s, <2>0, <2>1 DEF EmbedInv
  <2> QED
    BY <2>2, <2>3 DEF VectorsInv
<1>7. ASSUME Reembedded PROVE VectorsInv'
  <2>0. /\ UNCHANGED <<release, chunks, vectors, crossed>>
        /\ embed.step = "embed" /\ embed.todo = {} /\ embed'.step = "idle"
        /\ bare' = IF embed.failed THEN bare ELSE {}
    BY <1>7 DEF Reembedded, Asleep
  <2>1. \A d \in Docs : Held(d)' = Held(d)
    BY <2>0, <1>h
  <2>2. VectorInv' /\ EmbedInv'
    BY <1>s, <2>0, <2>1 DEF VectorInv, EmbedInv
  <2>3. ChunksHaveVectors'
    <3>1. CASE embed.failed
      BY <1>s, <2>0, <2>1, <3>1 DEF ChunksHaveVectors
    <3>2. CASE ~embed.failed
      <4>1. \A d \in Docs : \A c \in Held(d) : HasVector(c)
        BY <1>s, <2>0, <3>2 DEF EmbedInv, AllHeld
      <4> QED
        BY <2>0, <2>1, <4>1 DEF ChunksHaveVectors, HasVector
    <3> QED
      BY <3>1, <3>2
  <2> QED
    BY <2>2, <2>3 DEF VectorsInv
<1>8. ASSUME NEW d \in Docs, NEW b \in Bodies \cup {Gone}, Change(d, b) PROVE VectorsInv'
  BY <1>8, <1>u DEF Change
<1>9. ASSUME NEW r \in Runs, Start(r) \/ Fail(r) PROVE VectorsInv'
  BY <1>9, <1>u DEF Start, Fail
<1>10. ASSUME NEW r \in Runs, NEW d \in Docs, PassOver(r, d) \/ Index(r, d) PROVE VectorsInv'
  BY <1>10, <1>u DEF PassOver, Index
<1>11. CASE UNCHANGED vars
  BY <1>11, <1>u DEF vars
<1> QED
  BY <1>1, <1>2, <1>3, <1>4, <1>5, <1>6, <1>7, <1>8, <1>9, <1>10, <1>11 DEF Next

\* The inductive invariant of the vectors.
THEOREM VectorsHold == Spec => []VectorsInv
<1> QED
  BY InitVectorsInv, StepVectorsInv, TypeCorrect, PTL DEF Spec

\* A search compares with the vector of the text the chunk now has, for any
\* documents, releases, runs and reembeds.
THEOREM VectorsAreOfTheirChunksHolds == Spec => []VectorsAreOfTheirChunks
<1>1. VectorsInv => VectorsAreOfTheirChunks
  BY DEF VectorsInv, VectorInv, VectorsAreOfTheirChunks
<1> QED
  BY <1>1, VectorsHold, PTL

\* No failure of a run, of a batch or of a reembed leaves a chunk without one.
THEOREM ChunksHaveVectorsHolds == Spec => []ChunksHaveVectors
<1>1. VectorsInv => ChunksHaveVectors
  BY DEF VectorsInv
<1> QED
  BY <1>1, VectorsHold, PTL

\* A reembed with every batch written leaves one vector for each chunk.
LEMMA ReembeddedRestores ==
  ASSUME TypeOK, VectorsInv, Reembedded, ~embed.failed, embed.clean
  PROVE  {v.id : v \in vectors} = HeldIds /\ \A v \in vectors : v.model = release.model
<1>1. embed.step = "embed" /\ embed.todo = {}
  BY DEF Reembedded
<1>2. \A v \in vectors : v.id \in HeldIds /\ v.model = release.model
  BY <1>1 DEF VectorsInv, EmbedInv
<1>3. \A c \in AllHeld : \E v \in vectors : v.id = c.id
  BY <1>1 DEF VectorsInv, EmbedInv, HasVector
<1> QED
  BY <1>2, <1>3, IdsOfHeld

\* The restoration is complete for any chunks, batches and interruptions.
THEOREM ReembedRestoresHolds == Spec => ReembedRestores
<1>1. TypeOK /\ VectorsInv /\ [Next]_vars =>
        [(Reembedded /\ ~embed.failed /\ embed.clean) =>
           /\ {v.id : v \in vectors} = HeldIds
           /\ \A v \in vectors : v.model = release.model]_vars
  BY ReembeddedRestores
<1> QED
  BY <1>1, VectorsHold, TypeCorrect, PTL DEF Spec, ReembedRestores
=============================================================================
