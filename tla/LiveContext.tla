----------------------------- MODULE LiveContext -----------------------------
(***************************************************************************)
(* The live figures a widget may be answered from (services/               *)
(* live_context.py): one source a connector, configured by a handler that  *)
(* commits the new configuration and then clears the cache; a cache in the *)
(* process, bounded, with an age each entry may have; and the decision     *)
(* whether a question is worth a call.                                     *)
(*                                                                         *)
(* A reader takes the configuration with its request and uses it some time *)
(* later, so what it puts into the cache may be of a source that is no     *)
(* longer the connector's.                                                 *)
(***************************************************************************)
EXTENDS Naturals, FiniteSets

CONSTANTS
  Keys,       \* the identifiers pages supply
  NoKey,      \* a page that supplies none
  Sources,    \* configurations that parse: enabled, with a URL and fields
  NoSource,   \* none is configured, or it does not parse
  Ttl,        \* the ttl_seconds of each source
  Permitted,  \* the keys the key_pattern of each source matches
  Limit,      \* entries the cache may have (512 in the code)
  Readers,    \* requests of the widget
  MaxHandlers \* bound on the handlers that configure at one time

ASSUME LiveAssumption ==
  /\ NoKey \notin Keys /\ NoSource \notin Sources
  /\ Ttl \in [Sources -> Nat] /\ Permitted \in [Sources -> SUBSET Keys]
  /\ Limit \in Nat \ {0} /\ MaxHandlers \in Nat \ {0}

VARIABLES
  source,     \* askcontent_connector.context_source, as it parses
  clearing,   \* handlers that replaced it and have not cleared the cache yet
  cache,      \* CACHE: for a key, of which source the reading is, and how old
  reading     \* where each request of the widget has got

live == <<source, clearing, cache, reading>>

-----------------------------------------------------------------------------
Entry(of, late) == [of |-> of, age |-> 0, late |-> late]
Empty == [k \in {} |-> Entry(NoSource, FALSE)]

Drop(held, ks) == [k \in DOMAIN held \ ks |-> held[k]]

\* The entries _Cache.put may take for the oldest when it has to evict.
Oldest(held) == {k \in DOMAIN held : \A j \in DOMAIN held : held[j].age <= held[k].age}
Evictions(held) == IF Cardinality(DOMAIN held) >= Limit THEN {{k} : k \in Oldest(held)} ELSE {{}}

\* _Cache.put: it evicts before it writes, also when it only overwrites.
Put(held, k, entry) ==
  {[j \in (DOMAIN held \ out) \cup {k} |-> IF j = k THEN entry ELSE held[j]] : out \in Evictions(held)}

\* _Cache.get: an entry past its ttl is no entry, and is dropped.
Fresh(s, k) == k \in DOMAIN cache /\ cache[k].age <= Ttl[s]
Expired(s, k) == IF k \in DOMAIN cache /\ ~Fresh(s, k) THEN {k} ELSE {}

\* should_fetch and key_allowed: whether a question is worth a call.
Calls(s, k, deictic, covered) ==
  /\ s # NoSource /\ k # NoKey
  /\ deictic \/ ~covered
  /\ k \in Permitted[s]

Away == [pc |-> "idle", source |-> NoSource, key |-> NoKey, late |-> FALSE]

LiveInit ==
  /\ source \in Sources \cup {NoSource}
  /\ clearing = 0 /\ cache = Empty
  /\ reading = [r \in Readers |-> Away]

-----------------------------------------------------------------------------
\* (mutant) The cache is left alone.
Cleared(held) == held
ClearedAll(held) == Empty

\* set_context_source: the UPDATE and its commit. Two handlers may be at it.
Configure(s) ==
  /\ clearing < MaxHandlers /\ s # source
  /\ source' = s /\ clearing' = clearing + 1
  /\ UNCHANGED <<cache, reading>>

\* set_context_source: CACHE.clear(). Who is reading now will be late.
Clear ==
  /\ clearing > 0
  /\ clearing' = clearing - 1 /\ cache' = ClearedAll(cache)
  /\ reading' = [r \in Readers |-> [reading[r] EXCEPT !.late = reading[r].pc # "idle"]]
  /\ UNCHANGED source

-----------------------------------------------------------------------------
\* A request of the widget takes the configuration, and retrieves.
Take(r, k) ==
  /\ reading[r].pc = "idle" /\ source # NoSource
  /\ reading' = [reading EXCEPT ![r] = [pc |-> "took", source |-> source, key |-> k, late |-> FALSE]]
  /\ UNCHANGED <<source, clearing, cache>>

\* read: no call, a reading that is held, or a call; and an entry that is too
\* old for the source the request took is dropped on the way.
Look(r, deictic, covered) ==
  LET s == reading[r].source
      k == reading[r].key
      calls == Calls(s, k, deictic, covered)
  IN /\ reading[r].pc = "took"
     /\ reading' = [reading EXCEPT ![r] = IF calls /\ ~Fresh(s, k) THEN [@ EXCEPT !.pc = "calls"] ELSE Away]
     /\ cache' = IF calls THEN Drop(cache, Expired(s, k)) ELSE cache
     /\ UNCHANGED <<source, clearing>>

\* The fetch comes back. A failure, or an answer without any of the fields, is
\* not held.
Return(r, points) ==
  /\ reading[r].pc = "calls"
  /\ cache' \in IF points THEN Put(cache, reading[r].key, Entry(reading[r].source, reading[r].late))
               ELSE {cache}
  /\ reading' = [reading EXCEPT ![r] = Away]
  /\ UNCHANGED <<source, clearing>>

\* Time passes, as far as anybody can tell: an age past every ttl is one age.
Old(age) == \A s \in Sources : age > Ttl[s]
Tick ==
  /\ \E k \in DOMAIN cache : ~Old(cache[k].age)
  /\ cache' = [k \in DOMAIN cache |-> [cache[k] EXCEPT !.age = IF Old(@) THEN @ ELSE @ + 1]]
  /\ UNCHANGED <<source, clearing, reading>>

LiveNext ==
  \/ \E s \in Sources \cup {NoSource} : Configure(s)
  \/ Clear
  \/ \E r \in Readers :
       \/ \E k \in Keys \cup {NoKey} : Take(r, k)
       \/ \E deictic, covered \in BOOLEAN : Look(r, deictic, covered)
       \/ \E points \in BOOLEAN : Return(r, points)
  \/ Tick

-----------------------------------------------------------------------------
LiveType ==
  /\ source \in Sources \cup {NoSource} /\ clearing \in 0..MaxHandlers
  /\ DOMAIN cache \subseteq Keys
  /\ \A k \in DOMAIN cache :
       cache[k].of \in Sources /\ cache[k].age \in Nat /\ cache[k].late \in BOOLEAN
  /\ reading \in [Readers -> [pc : {"idle", "took", "calls"}, source : Sources \cup {NoSource},
                            key : Keys \cup {NoKey}, late : BOOLEAN]]

\* What the cache holds is a reading of the source that is configured, except
\* while a handler is between its commit and its clear, and except for what
\* a reader wrote that took its configuration before a clear and finished
\* after it: set_context_source clears the cache because "anything held under
\* the old one describes a source that no longer exists" (api/extra.py).  And
\* the cache has no more entries than its limit.
HeldUnderTheSource ==
  /\ \A k \in DOMAIN cache : cache[k].of = source \/ clearing > 0 \/ cache[k].late
  /\ Cardinality(DOMAIN cache) <= Limit
=============================================================================
