--------------------------- MODULE KnowledgeBase ----------------------------
(***************************************************************************)
(* Importing documents and searching them at the same time.                *)
(*                                                                         *)
(* An import (AppContainer.ingest_demo_documents) replaces the grants of   *)
(* each document in PostgreSQL, then writes the chunks to Chroma - old     *)
(* chunks are marked inactive, the new ones upserted - and to the BM25     *)
(* index of its own process.  Nothing makes these steps one; the import    *)
(* may stop after any of them, and other processes see each of them.       *)
(* A search (HybridRetriever.search) reads the document ids it may see     *)
(* with two queries, and then asks both channels, Chroma first, once for   *)
(* the question and once for each query it has been rewritten to.          *)
(*                                                                         *)
(* Chroma and PostgreSQL are external: one call, or one transaction, is    *)
(* one step.  An ACL is the set of principals that its public flag,        *)
(* departments and roles let in; top_k, scores and reranking only leave    *)
(* hits out and order them.                                                *)
(***************************************************************************)
EXTENDS Integers, Sequences, FiniteSets

CONSTANTS Docs,        \* document ids
          Principals,  \* identities that ask
          Imports,     \* runs of the import
          NoImport,    \* not an import
          Searches,    \* searches
          Catalog,     \* Catalog[i]: the chunks import i has loaded, in order
          InServer,    \* the imports that run in the process that searches
          Zone,        \* Zone[i]: how far the clock of import i's process is ahead of UTC
          GrantStore,  \* is APP_DB_DSN set?  If not, grants are not stored
          Rewrites,    \* is query_rewriter_enabled set?  If not, a search asks once
          Overlap,     \* may two imports run at once?
          MaxTime,     \* bound on the clock
          MaxRestarts  \* bound on restarts of the searching process

\* A chunk's id is a digest of the document, the version and the locator.
Ids == Docs \X Nat \X Nat

\* What a catalogue gives for effective_at: an ISO date with an offset, one without, or
\* text that is no date.
Date == [form : {"aware", "naive", "malformed"}, time : Nat]
Chunk == [doc : Docs, version : Nat, part : Nat, date : Date,
          acl : SUBSET Principals]

ASSUME KnowledgeAssumption ==
    /\ Catalog \in [Imports -> Seq(Chunk)]
    /\ \A d \in Docs : d \notin Ids
    /\ InServer \subseteq Imports
    /\ NoImport \notin Imports
    /\ Zone \in [Imports -> Int]
    /\ GrantStore \in BOOLEAN /\ Rewrites \in BOOLEAN /\ Overlap \in BOOLEAN
    /\ MaxTime \in Nat /\ MaxRestarts \in Nat

\* An import that loads no chunks raises before it writes anything, and is none.
\* Chunks carry the metadata of their file; no two files of a catalogue share a
\* document id.
ASSUME CatalogAssumption == \A i \in Imports :
    /\ Catalog[i] # <<>>
    /\ \A k, n \in DOMAIN Catalog[i] : Catalog[i][k].doc = Catalog[i][n].doc =>
          /\ Catalog[i][k].version = Catalog[i][n].version
          /\ Catalog[i][k].date = Catalog[i][n].date
          /\ Catalog[i][k].acl = Catalog[i][n].acl

VARIABLES
    now,       \* the clock effective dates are compared with
    grants,    \* grants[d]: the document's row in PostgreSQL and its grants
    store,     \* the Chroma collection: chunk id -> metadata
    index,     \* the BM25 index of the searching process: chunk id -> chunk
    step,      \* step[i]: what import i does next
    at,        \* at[i]: the chunk import i is at
    seen,      \* seen[i]: the metadata it has read and will write back
    phase,     \* phase[s]: what search s does next
    asker,     \* asker[s]: the principal of search s
    listed,    \* listed[s]: effective dates of the documents it has read
    allowed,   \* allowed[s]: document ids it may see
    dense,     \* dense[s]: what Chroma has returned for the query, or Pending
    answers,   \* answers[s]: what both channels have returned for each query
    restarts,  \* restarts of the searching process so far
    sole,      \* history: sole[d], the import that has had d to itself since
               \* it began, if the last one to begin has
    entitled,  \* history: documents granted to the asker during the search
    expected,  \* history: chunks a search has to find
    revised    \* history: documents written to Chroma between two queries of a search

importVars == <<step, at, seen>>
searchVars == <<phase, asker, listed, allowed, dense, answers>>
vars == <<now, grants, store, index, importVars, searchVars, restarts,
          sole, entitled, expected, revised>>

IdOf(c) == <<c.doc, c.version, c.part>>
ChunksOf(i) == {Catalog[i][k] : k \in DOMAIN Catalog[i]}
DocsOf(i) == {c.doc : c \in ChunksOf(i)}
IdsOf(i, d) == {IdOf(c) : c \in {x \in ChunksOf(i) : x.doc = d}}

\* _effective_timestamp: a date without an offset is one of the importing process's zone,
\* and what is no date is the epoch.
ChromaFrom(i, date) ==
    IF date.form = "aware" THEN date.time
    ELSE IF date.form = "naive" THEN date.time - Zone[i] ELSE 0

\* _as_utc: a date without an offset is one of UTC, and what is no date raises.
GrantFrom(date) == date.time
Readable(date) == date.form # "malformed"

Row(from, acl, active) == [from |-> from, acl |-> acl, active |-> active]

Absent == [known |-> FALSE, from |-> 0, acl |-> {}]
Empty == [id \in {} |-> Absent]
Pending == {"pending"}

Init ==
    /\ now = 0
    /\ grants = [d \in Docs |-> Absent]
    /\ store = Empty
    /\ index = Empty
    /\ step = [i \in Imports |-> "idle"]
    /\ at = [i \in Imports |-> 1]
    /\ seen = [i \in Imports |-> Empty]
    /\ phase = [s \in Searches |-> "idle"]
    /\ asker \in [Searches -> Principals]
    /\ listed = [s \in Searches |-> Empty]
    /\ allowed = [s \in Searches |-> {}]
    /\ dense = [s \in Searches |-> Pending]
    /\ answers = [s \in Searches |-> {}]
    /\ restarts = 0
    /\ sole = [d \in Docs |-> NoImport]
    /\ entitled = [s \in Searches |-> {}]
    /\ expected = [s \in Searches |-> {}]
    /\ revised = [s \in Searches |-> {}]

-----------------------------------------------------------------------------
(***************************************************************************)
(* The import.                                                             *)
(***************************************************************************)
Importing(i) == step[i] \in {"grants", "get", "update", "upsert", "index"}

\* Mutation: the vector store is called in a thread, the index alone holds the loop.
HoldsLoopIndexing(i) == i \in InServer /\ step[i] = "index"

\* From its first collection.get to the end an import does not suspend: in the
\* searching process, nothing else runs meanwhile.
HoldsLoop(i) ==
    /\ i \in InServer
    /\ \/ step[i] \in {"update", "upsert", "index"}
       \/ step[i] = "get" /\ at[i] > 1

\* The two channels are asked by coroutines that become ready together and do
\* not suspend: in their process, nothing runs between them.
Asking(s) == phase[s] = "channels" /\ dense[s] # Pending

ImportMayRun(i) == i \in InServer =>
    /\ \A j \in Imports \ {i} : ~HoldsLoop(j)
    /\ \A s \in Searches : ~Asking(s)

SearchMayRun(s) ==
    /\ \A i \in Imports : ~HoldsLoop(i)
    /\ \A t \in Searches \ {s} : ~Asking(t)

\* The documents of import i are from now on in the making: no search can be
\* held to find them.
StartImport(i) ==
    /\ step[i] = "idle" /\ ImportMayRun(i)
    /\ Overlap \/ \A j \in Imports : ~Importing(j)
    /\ step' = [step EXCEPT ![i] = "grants"]
    /\ sole' = [d \in Docs |->
          IF d \notin DocsOf(i) THEN sole[d]
          ELSE IF \E j \in Imports : Importing(j) /\ d \in DocsOf(j)
          THEN NoImport ELSE i]
    /\ expected' = [s \in Searches |-> {id \in expected[s] : id[1] \notin DocsOf(i)}]
    /\ UNCHANGED <<now, grants, store, index, at, seen, searchVars, restarts,
                   entitled, revised>>

\* The last import of d that began has completed it and was not disturbed.
Imported(d) == sole[d] # NoImport /\ step[sole[d]] = "done"

\* The document is handled with its first chunk; its other chunks carry the
\* same metadata.
FirstOfDoc(i, k) == \A j \in 1..k - 1 : Catalog[i][j].doc # Catalog[i][k].doc

\* sync_document_grants, one transaction per document: its row is written and
\* its grants are replaced.  Without a store the grants are not kept; with one, a
\* date that cannot be read stops the import (StopImport).
SyncGrants(i) ==
    /\ step[i] = "grants" /\ ImportMayRun(i)
    /\ GrantStore => Readable(Catalog[i][at[i]].date)
    /\ LET c == Catalog[i][at[i]]
           last == at[i] = Len(Catalog[i])
       IN  /\ IF GrantStore /\ FirstOfDoc(i, at[i])
              THEN /\ grants' = [grants EXCEPT ![c.doc] =
                          [known |-> TRUE, from |-> GrantFrom(c.date), acl |-> c.acl]]
                   /\ entitled' = [s \in Searches |->
                          IF phase[s] # "idle" /\ asker[s] \in c.acl
                          THEN entitled[s] \cup {c.doc} ELSE entitled[s]]
              ELSE UNCHANGED <<grants, entitled>>
           /\ at' = [at EXCEPT ![i] = IF last THEN 1 ELSE @ + 1]
           /\ step' = [step EXCEPT ![i] = IF last THEN "get" ELSE @]
    /\ UNCHANGED <<now, store, index, seen, searchVars, restarts, sole,
                   expected, revised>>

\* collection.get(where doc_id): the stored chunks of the document, read for
\* each chunk anew.
GetExisting(i) ==
    /\ step[i] = "get" /\ ImportMayRun(i)
    /\ LET doc == Catalog[i][at[i]].doc
       IN  seen' = [seen EXCEPT ![i] =
                      [id \in {x \in DOMAIN store : x[1] = doc} |-> store[id]]]
    /\ step' = [step EXCEPT ![i] = "update"]
    /\ UNCHANGED <<now, grants, store, index, at, searchVars, restarts,
                   sole, entitled, expected, revised>>

\* Mutation: the metadata read is written back as it was.
MarkedNot(old) == [id \in DOMAIN store |->
    IF id \in DOMAIN old THEN old[id] ELSE store[id]]

\* collection.update: the metadata that was read is written back, inactive.
Marked(old) == [id \in DOMAIN store |->
    IF id \in DOMAIN old THEN [old[id] EXCEPT !.active = FALSE] ELSE store[id]]

UpdateExisting(i) ==
    /\ step[i] = "update"
    /\ store' = Marked(seen[i])
    /\ LET last == at[i] = Len(Catalog[i])
       IN  /\ at' = [at EXCEPT ![i] = IF last THEN 1 ELSE @ + 1]
           /\ step' = [step EXCEPT ![i] = IF last THEN "upsert" ELSE "get"]
    /\ UNCHANGED <<now, grants, index, seen, searchVars, restarts, sole,
                   entitled, expected, revised>>

ChunkOf(i, id) == CHOOSE c \in ChunksOf(i) : IdOf(c) = id
RowOf(i, id) ==
    LET c == ChunkOf(i, id) IN Row(ChromaFrom(i, c.date), c.acl, TRUE)

\* The row of a chunk upserted over the one that is stored.  Chroma may keep the
\* stored keys the new metadata lacks, and an ACL is a set of keys.
Upserted(i, id, keeps) ==
    LET r == RowOf(i, id)
    IN  IF keeps /\ id \in DOMAIN store
        THEN [r EXCEPT !.acl = @ \cup store[id].acl] ELSE r

\* collection.upsert: all chunks of the import, active, in one call.
UpsertChunks(i) ==
    /\ step[i] = "upsert"
    /\ LET new == {IdOf(c) : c \in ChunksOf(i)}
       IN  \E keeps \in BOOLEAN :
             store' = [id \in DOMAIN store \cup new |->
                         IF id \in new THEN Upserted(i, id, keeps) ELSE store[id]]
    /\ step' = [step EXCEPT ![i] = "index"]
    /\ revised' = [s \in Searches |->
          IF phase[s] = "channels" /\ answers[s] # {}
          THEN revised[s] \cup DocsOf(i) ELSE revised[s]]
    /\ UNCHANGED <<now, grants, index, at, seen, searchVars, restarts, sole,
                   entitled, expected>>

\* Mutation: the index is rebuilt from the chunks of this import alone.
IndexedAlone(i) == [id \in {IdOf(c) : c \in ChunksOf(i)} |-> RowOf(i, id)]

\* The old chunks of its documents leave the index, its chunks are added.
Indexed(i) ==
    LET kept == {id \in DOMAIN index : id[1] \notin DocsOf(i)}
        new == {IdOf(c) : c \in ChunksOf(i)}
    IN  [id \in kept \cup new |-> IF id \in new THEN RowOf(i, id) ELSE index[id]]

\* BM25LexicalRetriever.upsert, in the memory of the importing process: what a
\* process of its own indexes is gone when it ends.
IndexChunks(i) ==
    /\ step[i] = "index"
    /\ index' = IF i \in InServer THEN Indexed(i) ELSE index
    /\ step' = [step EXCEPT ![i] = "done"]
    /\ UNCHANGED <<now, grants, store, at, seen, searchVars, restarts, sole,
                   entitled, expected, revised>>

\* The import raises (a store or the model is unavailable, a date cannot be read) or
\* is killed.  The in-memory index does not fail; the searching process is killed
\* by Restart.
StopImport(i) ==
    /\ Importing(i) /\ ImportMayRun(i)
    /\ i \in InServer => step[i] # "index"
    /\ step' = [step EXCEPT ![i] = "stopped"]
    /\ UNCHANGED <<now, grants, store, index, at, seen, searchVars, restarts,
                   sole, entitled, expected, revised>>

-----------------------------------------------------------------------------
(***************************************************************************)
(* The search.                                                             *)
(***************************************************************************)

\* Import i's chunk c is effective by what each store makes of its date.
Effective(i, c) ==
    /\ ChromaFrom(i, c.date) <= now
    /\ GrantStore => GrantFrom(c.date) <= now

\* Chunks a complete import has put where p can see them.
Findable(p) ==
    {id \in UNION {IdsOf(sole[d], d) : d \in {x \in Docs : Imported(x)}} :
        LET i == sole[id[1]]
            c == ChunkOf(i, id)
        IN  p \in c.acl /\ Effective(i, c)}

StartSearch(s) ==
    /\ phase[s] = "idle" /\ SearchMayRun(s)
    /\ phase' = [phase EXCEPT ![s] = IF GrantStore THEN "documents" ELSE "channels"]
    /\ entitled' = [entitled EXCEPT ![s] = {d \in Docs : asker[s] \in grants[d].acl}]
    /\ expected' = [expected EXCEPT ![s] = Findable(asker[s])]
    /\ UNCHANGED <<now, grants, store, index, importVars, asker, listed, allowed,
                   dense, answers, restarts, sole, revised>>

\* _fetch_documents, the first query of document_ids_for.
ReadDocuments(s) ==
    /\ phase[s] = "documents" /\ SearchMayRun(s)
    /\ listed' = [listed EXCEPT ![s] =
                    [d \in {x \in Docs : grants[x].known} |-> grants[d].from]]
    /\ phase' = [phase EXCEPT ![s] = "grants"]
    /\ UNCHANGED <<now, grants, store, index, importVars, asker, allowed, dense,
                   answers, restarts, sole, entitled, expected, revised>>

\* _fetch_document_grants and the loop over the documents; without any visible
\* document the search returns no hits at once.
ReadGrants(s) ==
    /\ phase[s] = "grants" /\ SearchMayRun(s)
    /\ LET visible == {d \in DOMAIN listed[s] :
                         listed[s][d] <= now /\ asker[s] \in grants[d].acl}
       IN  /\ allowed' = [allowed EXCEPT ![s] = visible]
           /\ phase' = [phase EXCEPT ![s] = IF visible = {} THEN "done" ELSE "channels"]
    /\ UNCHANGED <<now, grants, store, index, importVars, asker, listed, dense,
                   answers, restarts, sole, entitled, expected, revised>>

\* Mutation: the document filter is not combined with the ACL filter.
DenseHitsAclOnly(p, docs) ==
    {id \in DOMAIN store : store[id].active /\ store[id].from <= now
                           /\ p \in store[id].acl}

\* Mutation: a document becomes visible after its effective date.
DenseHitsLate(p, docs) ==
    {id \in DOMAIN store : /\ store[id].active /\ store[id].from < now
                           /\ p \in store[id].acl
                           /\ GrantStore => id[1] \in docs}

\* ChromaVectorStore.search: active, effective, in the ACL, and of an allowed
\* document where the allowed ones are known.
DenseHits(p, docs) ==
    {id \in DOMAIN store : /\ store[id].active /\ store[id].from <= now
                           /\ p \in store[id].acl
                           /\ GrantStore => id[1] \in docs}

\* BM25LexicalRetriever.search: the ids of the chunks the ACL lets the
\* principal see, intersected with the allowed document ids where these are
\* known.  A document id is never a chunk id.
SparseHits(p, docs) ==
    LET visible == {id \in DOMAIN index : p \in index[id].acl}
    IN  IF GrantStore THEN {id \in visible : id \in docs} ELSE visible

\* One query asks Chroma, whenever its embedding has come.
SearchDense(s) ==
    /\ phase[s] = "channels" /\ ~Asking(s) /\ SearchMayRun(s)
    /\ dense' = [dense EXCEPT ![s] = DenseHits(asker[s], allowed[s])]
    /\ UNCHANGED <<now, grants, store, index, importVars, phase, asker, listed,
                   allowed, answers, restarts, sole, entitled, expected, revised>>

\* A process beside may write to Chroma between the two.  When it was the last
\* query, _rrf_merge_many takes the union of what all of them have found;
\* reranking falls back to its order.  The list of queries is as long as the
\* rewriter makes it.
SearchSparse(s) ==
    /\ phase[s] = "channels" /\ Asking(s) /\ SearchMayRun(s)
    /\ answers' = [answers EXCEPT ![s] = @ \cup
          {[dense |-> dense[s], sparse |-> SparseHits(asker[s], allowed[s])]}]
    /\ dense' = [dense EXCEPT ![s] = Pending]
    /\ \E more \in {FALSE, Rewrites} :
          phase' = [phase EXCEPT ![s] = IF more THEN "channels" ELSE "done"]
    /\ UNCHANGED <<now, grants, store, index, importVars, asker, listed, allowed,
                   restarts, sole, entitled, expected, revised>>

\* The database, the embedding model or the vector store is unavailable.
FailSearch(s) ==
    /\ phase[s] \in {"documents", "grants", "channels"}
    /\ ~Asking(s) /\ SearchMayRun(s)
    /\ phase' = [phase EXCEPT ![s] = "failed"]
    /\ UNCHANGED <<now, grants, store, index, importVars, asker, listed, allowed,
                   dense, answers, restarts, sole, entitled, expected, revised>>

-----------------------------------------------------------------------------
Tick ==
    /\ now < MaxTime
    /\ now' = now + 1
    /\ UNCHANGED <<grants, store, index, importVars, searchVars, restarts,
                   sole, entitled, expected, revised>>

\* The searching process restarts: its index, its searches and the imports it
\* runs are gone, PostgreSQL and Chroma stay.
Restart ==
    /\ restarts < MaxRestarts
    /\ restarts' = restarts + 1
    /\ index' = Empty
    /\ step' = [i \in Imports |->
                  IF i \in InServer /\ Importing(i) THEN "stopped" ELSE step[i]]
    /\ phase' = [s \in Searches |->
                   IF phase[s] \in {"documents", "grants", "channels"}
                   THEN "failed" ELSE phase[s]]
    /\ UNCHANGED <<now, grants, store, at, seen, asker, listed, allowed, dense,
                   answers, sole, entitled, expected, revised>>

ImportStep(i) ==
    \/ StartImport(i) \/ SyncGrants(i) \/ GetExisting(i) \/ UpdateExisting(i)
    \/ UpsertChunks(i) \/ IndexChunks(i) \/ StopImport(i)

SearchStep(s) ==
    \/ StartSearch(s) \/ ReadDocuments(s) \/ ReadGrants(s) \/ SearchDense(s)
    \/ SearchSparse(s) \/ FailSearch(s)

Finished ==
    /\ \A i \in Imports : step[i] \in {"done", "stopped"}
    /\ \A s \in Searches : phase[s] \in {"done", "failed"}
    /\ UNCHANGED vars

Next == \/ \E i \in Imports : ImportStep(i)
        \/ \E s \in Searches : SearchStep(s)
        \/ Tick \/ Restart \/ Finished

Spec == Init /\ [][Next]_vars

-----------------------------------------------------------------------------
(***************************************************************************)
(* Properties.                                                             *)
(***************************************************************************)
Hits(s) == UNION {a.dense \cup a.sparse : a \in answers[s]}

\* Where grants are stored, every hit is of a document that was granted to the
\* principal at some moment of the search: a grant revoked before it began is
\* revoked, whichever imports run, stop half way or overlap meanwhile.
HitsEntitled ==
    \A s \in Searches : GrantStore /\ phase[s] = "done" =>
        \A id \in Hits(s) : id[1] \in entitled[s]

\* A search finds every chunk of a completed import that its principal may see
\* and that is effective by what both stores make of its date, unless the
\* document was being imported again meanwhile: the filters of both stores
\* together are not stricter than the ACL and these two dates.
SearchComplete ==
    \A s \in Searches : phase[s] = "done" => expected[s] \subseteq Hits(s)

\* Importing anew repairs whatever a stopped import has left: after a complete
\* import exactly its chunks are active, with the effective date its process has
\* read and no principal of its ACL left out.
LatestImportStands ==
    \A d \in Docs : Imported(d) =>
        /\ IdsOf(sole[d], d) \subseteq DOMAIN store
        /\ \A id \in DOMAIN store : id[1] = d /\ store[id].active =>
              /\ id \in IdsOf(sole[d], d)
              /\ store[id].from = RowOf(sole[d], id).from
              /\ RowOf(sole[d], id).acl \subseteq store[id].acl
        /\ \A id \in IdsOf(sole[d], d) : store[id].active

\* No query brings two versions of one document, whatever imports the searching
\* process runs, and a search of several queries mixes two versions of a document
\* only when its chunks were replaced between two of its queries.
AnswersOneVersion ==
    \A s \in Searches : phase[s] = "done" =>
        /\ \A a \in answers[s] : \A x, y \in a.dense \cup a.sparse :
              x[1] = y[1] => x[2] = y[2]
        /\ \A x, y \in Hits(s) : x[1] = y[1] /\ x[2] # y[2] => x[1] \in revised[s]

\* Whatever imports overlapped in the searching process, once none of them is under way a
\* document has one active version: the writes of one import that replace a version do
\* not suspend.  (Processes beside each other have no such order.)
OneActiveVersion ==
    (\A i \in Imports : i \in InServer /\ ~Importing(i)) /\ restarts = 0 =>
        \A x, y \in DOMAIN store :
            x[1] = y[1] /\ store[x].active /\ store[y].active => x[2] = y[2]

\* The index of the searching process holds what has been imported.
LexicalFollowsImport ==
    \A d \in Docs : Imported(d) /\ restarts = 0 =>
        IdsOf(sole[d], d) \subseteq DOMAIN index

GrantedDocs(p) == {d \in Docs : grants[d].from <= now /\ p \in grants[d].acl}

\* Both channels let a principal see the same chunks of what is imported into
\* their process.
ChannelsAgree ==
    (\A i \in Imports : step[i] = "done" /\ i \in InServer) /\ restarts = 0 =>
        \A p \in Principals :
            SparseHits(p, GrantedDocs(p)) = DenseHits(p, GrantedDocs(p))
=============================================================================
