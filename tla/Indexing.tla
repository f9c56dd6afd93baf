------------------------------ MODULE Indexing ------------------------------
(***************************************************************************)
(* The index of one AskContent connector: its document rows, the chunks    *)
(* citations resolve to and the vectors they are found by.                 *)
(*                                                                         *)
(*   - index_connector (services/indexing.py) reads what is held, fetches  *)
(*     every document, decides what moved (domain/fingerprint.py) and      *)
(*     writes rows, chunks and vectors in ONE transaction. Two of them can *)
(*     run at once: jobs of that kind coalesce only while one is queued.   *)
(*   - reembed (services/reembed.py) prunes vectors, reads the chunks that *)
(*     lack one and writes them batch by batch.                            *)
(*   - a deployment brings another parser, chunker or embedder.            *)
(*                                                                         *)
(* A document's body is its blocks and its dress (what the normaliser      *)
(* folds away: quotes, dashes, spaces). Each paragraph is a chunk.         *)
(***************************************************************************)
EXTENDS Naturals, Sequences, FiniteSets

CONSTANTS
  Docs,        \* documents in the connector's population
  Bodies,      \* what the repository can hold: [blocks, dress, parses]
  Original,    \* what it holds at first
  Size,        \* Size[t]: the length of text t
  Runs,        \* index runs that can be under way at once
  Deploys,     \* releases a deployment can bring: [parser, chunker, model]
  First,       \* the release running at first
  MaxChanges,  \* bound: edits at the source
  MaxDeploys,  \* bound: deployments
  MaxReembeds, \* bound: reembed commands
  Gone         \* a document that is out of scope, or cannot be read

Releases == Deploys \cup {First}

ASSUME ReleaseAssumption ==
  \A v \in Releases : v = [parser |-> v.parser, chunker |-> v.chunker, model |-> v.model]

ASSUME SourceAssumption ==
  /\ Gone \notin Bodies /\ Original \in Bodies
  /\ MaxChanges \in Nat /\ MaxDeploys \in Nat /\ MaxReembeds \in Nat

VARIABLES
  source,     \* what the repository holds
  release,    \* the code that is running
  row,        \* askcontent_document: the body and the versions it was written from
  chunks,     \* askcontent_document_chunk: the body cut up, and the chunker
  vectors,    \* askcontent_embedding: [id, over, model]
  run,        \* index runs in progress
  embed,      \* the reembed command
  overtaken,  \* history: documents somebody committed under a run
  mixed,      \* history: rows and chunks that two overlapping runs wrote
  crossed,    \* history: vectors of a chunk that was replaced while its overlap moved
  bare,       \* history: documents chunked under an earlier model
  budget      \* [changes, deploys, reembeds] left

stored == <<row, chunks, vectors>>
history == <<overtaken, mixed, crossed, bare>>
vars == <<source, release, stored, run, embed, history, budget>>

-----------------------------------------------------------------------------
(* What a body hashes to and what it is cut into                           *)

Blocks(b) == 1..Len(b.blocks)

\* The heading path a block stands under: a heading of level n replaces the
\* path from there on, level 0 is a paragraph.
Path == [b \in Bodies |->
  LET path[i \in 0..Len(b.blocks)] ==
        IF i = 0 THEN <<>>
        ELSE LET block == b.blocks[i]
                 kept == {n \in 1..Len(path[i - 1]) : n < block.level}
             IN IF block.level = 0 THEN path[i - 1]
                ELSE Append([n \in kept |-> path[i - 1][n]], block.text)
  IN path]

\* full_text: the texts in their order, as they are dressed.
Text == [b \in Bodies |-> <<[i \in Blocks(b) |-> b.blocks[i].text], b.dress>>]

\* content_fingerprint: what is said, normalised and sorted.
Content == [b \in Bodies |->
  [t \in {b.blocks[i].text : i \in Blocks(b)} |-> Cardinality({i \in Blocks(b) : b.blocks[i].text = t})]]

\* structure_fingerprint: kind, heading path and length of each block.
Structure == [b \in Bodies |->
  [i \in Blocks(b) |-> <<b.blocks[i].level = 0, Path[b][i], Size[b.blocks[i].text]>>]]

\* The chunks of a body: the id is made of path, position and text, the
\* embedded text has the tail of the chunk before it in the section as well.
Chunks == [d \in Docs |-> [b \in Bodies |->
  {[id |-> <<d, Path[b][i], i, b.blocks[i].text, b.dress>>,
    over |-> IF b.blocks[i - 1].level = 0 THEN b.blocks[i - 1].text ELSE ""] :
   i \in {j \in Blocks(b) \ {1} : b.blocks[j].level = 0}}]]

-----------------------------------------------------------------------------

Row == [of : Bodies, parser : {v.parser : v \in Releases}, chunker : {v.chunker : v \in Releases}]
Cut == [of : Bodies, chunker : {v.chunker : v \in Releases}]

None == [none |-> TRUE]   \* no row, no chunks

\* What a run holds: what it read of the table, the documents to come, the
\* bodies it fetched, and the rows and chunks it wrote and has not committed.
Resting == [step |-> "idle", seen |-> [d \in Docs |-> [row |-> None, current |-> FALSE]],
            todo |-> {}, body |-> [d \in Docs |-> Gone],
            rows |-> {}, cuts |-> {}]

Asleep == [step |-> "idle", todo |-> {}, failed |-> FALSE, clean |-> TRUE]

\* A run, and the reembed command, in progress.
Shape == [step : {"idle", "run"}, seen : [Docs -> [row : Row \cup {None}, current : BOOLEAN]],
          todo : SUBSET Docs, body : [Docs -> Bodies \cup {Gone}],
          rows : SUBSET Docs, cuts : SUBSET Docs]
Progress == {p \in Shape : p.cuts \subseteq p.rows /\ \A d \in p.rows : p.body[d] \in Bodies}
AllChunks == UNION {Chunks[d][b] : d \in Docs, b \in Bodies}
Embedding == [step : {"idle", "pruned", "embed"}, todo : SUBSET AllChunks,
              failed : BOOLEAN, clean : BOOLEAN]

Held(d) == IF chunks[d] = None THEN {} ELSE Chunks[d][chunks[d].of]
HeldIds == UNION {{c.id : c \in Held(d)} : d \in Docs}

TypeOK ==
  /\ source \in [Docs -> Bodies \cup {Gone}]
  /\ release \in Releases
  /\ row \in [Docs -> Row \cup {None}]
  /\ chunks \in [Docs -> Cut \cup {None}]
  /\ \A v, u \in vectors : v.id = u.id /\ v.model = u.model => v = u
  /\ run \in [Runs -> Progress]
  /\ embed \in Embedding
  /\ overtaken \in [Runs -> SUBSET Docs]
  /\ mixed \in SUBSET Docs /\ bare \in SUBSET Docs
  /\ budget \in [{"changes", "deploys", "reembeds"} -> Nat]

Init ==
  /\ source = [d \in Docs |-> Original]
  /\ release = First
  /\ row = [d \in Docs |-> None] /\ chunks = [d \in Docs |-> None] /\ vectors = {}
  /\ run = [r \in Runs |-> Resting] /\ embed = Asleep
  /\ overtaken = [r \in Runs |-> {}] /\ mixed = {} /\ crossed = {} /\ bare = {}
  /\ budget = [changes |-> MaxChanges, deploys |-> MaxDeploys, reembeds |-> MaxReembeds]

Spend(what) == budget[what] > 0 /\ budget' = [budget EXCEPT ![what] = @ - 1]

\* Somebody edits the document, takes it away or brings it back.
Change(d, b) ==
  /\ Spend("changes")
  /\ b # source[d]
  /\ source' = [source EXCEPT ![d] = b]
  /\ UNCHANGED <<release, stored, run, embed, history>>

\* Another release. Its processes start anew: what the old ones had not
\* committed is rolled back.
Deploy(v) ==
  /\ Spend("deploys")
  /\ v # release
  /\ release' = v
  /\ run' = [r \in Runs |-> Resting] /\ embed' = Asleep
  /\ overtaken' = [r \in Runs |-> {}]
  /\ bare' = IF v.model = release.model THEN bare ELSE {d \in Docs : chunks[d] # None}
  /\ UNCHANGED <<source, stored, mixed, crossed>>

-----------------------------------------------------------------------------
(* index_connector                                                         *)

\* chunks_current: a chunk of the present chunker is there.
ChunksCurrent(d) == Held(d) # {} /\ chunks[d].chunker = release.chunker

Start(r) ==
  /\ run[r].step = "idle"
  /\ run' = [run EXCEPT ![r] = [Resting EXCEPT
       !.step = "run", !.todo = Docs,
       !.seen = [d \in Docs |-> [row |-> row[d], current |-> ChunksCurrent(d)]]]]
  /\ overtaken' = [overtaken EXCEPT ![r] = {}]
  /\ UNCHANGED <<source, release, stored, embed, mixed, crossed, bare, budget>>

\* Out of scope or unreadable: counted, noted and passed over.
PassOver(r, d) ==
  /\ run[r].step = "run" /\ d \in run[r].todo
  /\ source[d] = Gone
  /\ run' = [run EXCEPT ![r].todo = @ \ {d}]
  /\ UNCHANGED <<source, release, stored, embed, history, budget>>

\* The parser alone, whatever the chunker.
ParserCurrent(seen) == seen.row # None /\ seen.row.parser = release.parser

\* A re-parse and a re-chunk would produce what is there.
PipelineCurrent(seen) ==
  seen.row # None /\ seen.current /\ seen.row.parser = release.parser

TextHash(of, parser, chunker) == <<Text[of], parser, chunker>>

\* A layout that agrees taken for words that agree.
SameLayout(old, b) == old.of.parses /\ Structure[old.of] = Structure[b]

\* compare: the words are the same, and the layout where it is known.
Cosmetic(old, b) ==
  old.of.parses /\ Content[old.of] = Content[b] /\ Structure[old.of] = Structure[b]

\* What becomes of a fetched body, given what the run had read, in the order of
\* index_connector's early exits.
Verdict(seen, b) ==
  LET prior == seen.row IN
  IF PipelineCurrent(seen) /\ prior.of = b THEN "unchanged"
  ELSE IF ~b.parses THEN "refused"
  ELSE IF PipelineCurrent(seen) /\ Cosmetic(prior, b) THEN "cosmetic"
  ELSE IF /\ prior # None /\ prior.of.parses
          /\ TextHash(prior.of, prior.parser, prior.chunker)
               = TextHash(b, release.parser, release.chunker) THEN "reused"
  ELSE "indexed"

\* Fetched, parsed, compared with what the run had read, and written inside its
\* transaction. Rows are locked until their writer commits, so that runs that
\* wrote the same row commit one after the other; what they write depends on
\* what they read and fetched, never on who went first.
Index(r, d) ==
  LET b == source[d]
      verdict == Verdict(run[r].seen[d], b) IN
  /\ run[r].step = "run" /\ d \in run[r].todo
  /\ b # Gone
  /\ run' = [run EXCEPT
       ![r].todo = @ \ {d},
       ![r].body[d] = b,
       ![r].rows = IF verdict = "unchanged" THEN @ ELSE @ \cup {d},
       ![r].cuts = IF verdict = "indexed" THEN @ \cup {d} ELSE @]
  /\ UNCHANGED <<source, release, stored, embed, history, budget>>

\* A plain INSERT.
Inserted(old, new) == old \cup new

\* ON CONFLICT DO NOTHING.
Completed(old, new) ==
  old \cup {n \in new : \A v \in old : v.id # n.id \/ v.model # n.model}

\* INSERT ... ON CONFLICT (connector, kind, ref, model) DO UPDATE.
Upserted(old, new) ==
  {v \in old : \A n \in new : v.id # n.id \/ v.model # n.model} \cup new

Vector(c) == [id |-> c.id, over |-> c.over, model |-> release.model]

Commit(r) ==
  LET written == run[r].rows
      recut == run[r].cuts
      body == run[r].body
      new == {Vector(c) : c \in UNION {Chunks[d][body[d]] : d \in recut}}
      outdated == {v \in vectors : \E n \in new : v.id = n.id /\ v.over # n.over} IN
  /\ run[r].step = "run" /\ run[r].todo = {}
  /\ row' = [d \in Docs |->
       IF d \in written THEN [of |-> body[d], parser |-> release.parser, chunker |-> release.chunker]
       ELSE row[d]]
  /\ chunks' = [d \in Docs |->
       IF d \in recut THEN [of |-> body[d], chunker |-> release.chunker] ELSE chunks[d]]
  /\ vectors' = Upserted(vectors, new)
  /\ run' = [run EXCEPT ![r] = Resting]
  /\ overtaken' = [q \in Runs |-> IF q = r \/ run[q].step = "idle" THEN {} ELSE overtaken[q] \cup written]
  /\ mixed' = (mixed \ recut) \cup ((written \ recut) \cap overtaken[r])
  /\ crossed' = {v \in crossed \cup outdated : \A n \in new : v.id # n.id \/ v.model # n.model}
  /\ bare' = bare \ recut
  /\ embed' = IF embed.step = "idle" THEN embed ELSE [embed EXCEPT !.clean = @ /\ recut = {}]
  /\ UNCHANGED <<source, release, budget>>

\* The embedder or the database fails, or the process dies: all is rolled back.
Fail(r) ==
  /\ run[r].step = "run"
  /\ run' = [run EXCEPT ![r] = Resting]
  /\ overtaken' = [overtaken EXCEPT ![r] = {}]
  /\ UNCHANGED <<source, release, stored, embed, mixed, crossed, bare, budget>>

-----------------------------------------------------------------------------
(* reembed                                                                 *)

\* Vectors of the running model pruned instead of the retired ones.
PruneSwapped ==
  /\ Spend("reembeds")
  /\ embed.step = "idle"
  /\ vectors' = {v \in vectors : v.id \in HeldIds /\ v.model # release.model}
  /\ embed' = [Asleep EXCEPT !.step = "pruned"]
  /\ UNCHANGED <<source, release, row, chunks, run, history>>

\* Orphans left where they are.
PruneModels ==
  /\ Spend("reembeds")
  /\ embed.step = "idle"
  /\ vectors' = {v \in vectors : v.model = release.model}
  /\ embed' = [Asleep EXCEPT !.step = "pruned"]
  /\ UNCHANGED <<source, release, row, chunks, run, history>>

\* Orphans and vectors of retired models, committed before anything is read.
Prune ==
  /\ Spend("reembeds")
  /\ embed.step = "idle"
  /\ vectors' = {v \in vectors : v.id \in HeldIds /\ v.model = release.model}
  /\ embed' = [Asleep EXCEPT !.step = "pruned"]
  /\ UNCHANGED <<source, release, row, chunks, run, history>>

Lacks(c) == \A v \in vectors : v.id # c.id \/ v.model # release.model

\* The chunks to embed are read once: those that lack a vector, or all.
Select(all) ==
  /\ embed.step = "pruned"
  /\ embed' = [embed EXCEPT !.step = "embed",
                            !.todo = {c \in UNION {Held(d) : d \in Docs} : all \/ Lacks(c)}]
  /\ UNCHANGED <<source, release, stored, run, history, budget>>

\* A batch is embedded, written and committed.
Batch(c) ==
  /\ embed.step = "embed" /\ c \in embed.todo
  /\ vectors' = Upserted(vectors, {Vector(c)})
  /\ crossed' = IF c \in UNION {Held(d) : d \in Docs} THEN crossed \ {Vector(c)}
                ELSE crossed \cup {Vector(c)}
  /\ embed' = [embed EXCEPT !.todo = @ \ {c}]
  /\ UNCHANGED <<source, release, row, chunks, run, overtaken, mixed, bare, budget>>

\* A batch the embedder refuses is reported and passed over.
BatchFails(c) ==
  /\ embed.step = "embed" /\ c \in embed.todo
  /\ embed' = [embed EXCEPT !.todo = @ \ {c}, !.failed = TRUE]
  /\ UNCHANGED <<source, release, stored, run, history, budget>>

Reembedded ==
  /\ embed.step = "embed" /\ embed.todo = {}
  /\ embed' = Asleep
  /\ bare' = IF embed.failed THEN bare ELSE {}
  /\ UNCHANGED <<source, release, stored, run, overtaken, mixed, crossed, budget>>

-----------------------------------------------------------------------------

Next ==
  \/ \E d \in Docs, b \in Bodies \cup {Gone} : Change(d, b)
  \/ \E v \in Deploys : Deploy(v)
  \/ \E r \in Runs : Start(r) \/ Commit(r) \/ Fail(r)
  \/ \E r \in Runs, d \in Docs : PassOver(r, d) \/ Index(r, d)
  \/ Prune
  \/ \E all \in BOOLEAN : Select(all)
  \/ \E c \in embed.todo : Batch(c) \/ BatchFails(c)
  \/ Reembedded

Spec == Init /\ [][Next]_vars

-----------------------------------------------------------------------------
(* Properties                                                              *)

\* A citation resolves to words the document's row was written from, through
\* re-saves, upgrades, failed runs and refusals in between: unless the present
\* body was refused, or a run wrote its row over a commit it had not read.
ChunksSayWhatRowsSay ==
  \A d \in Docs \ mixed :
    row[d] # None /\ row[d].of.parses =>
      chunks[d] # None /\ Content[chunks[d].of] = Content[row[d].of]

\* "the improvement shipped and never reached the corpus": when a run nobody
\* overtook commits, what it fetched and could parse is what the chunks say,
\* cut by the chunker and parsed by the parser that are running.
RunsBringUpToDate ==
  [][\A r \in Runs : Commit(r) =>
       \A d \in Docs \ (overtaken[r] \cup mixed) :
         LET b == run[r].body[d] IN
         (b # Gone /\ b.parses) =>
           /\ Content[chunks'[d].of] = Content[b]
           /\ chunks'[d].chunker = release.chunker
           /\ row'[d].parser = release.parser]_vars

\* The vector a search compares with is of the text the chunk now has, overlap
\* included, unless reembed wrote it from a chunk that had been replaced, or it
\* is of a model that was not running when the overlap changed.
VectorsAreOfTheirChunks ==
  \A d \in Docs : \A c \in Held(d) : \A v \in vectors \ crossed :
    (v.id = c.id /\ v.model = release.model) => v.over = c.over

\* No chunk is without a vector of the running model, except those chunked
\* under another one and not embedded again since: a failed run, a failed
\* batch or an interrupted reembed takes none away.
ChunksHaveVectors ==
  \A d \in Docs \ bare : \A c \in Held(d) : 
    \E v \in vectors : v.id = c.id /\ v.model = release.model

\* A reembed that ends with every batch written, and that no index run
\* committed chunks under, leaves one vector for each chunk: none missing, no
\* orphan, no retired model.
ReembedRestores ==
  [][(Reembedded /\ ~embed.failed /\ embed.clean) =>
       /\ {v.id : v \in vectors} = HeldIds
       /\ \A v \in vectors : v.model = release.model]_vars
=============================================================================
