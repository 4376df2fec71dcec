------------------------ MODULE KnowledgeBaseProofs -------------------------
(***************************************************************************)
(* Imports and searches, for every catalogue, number of imports and        *)
(* searches, interleaving and crash: a search answers from documents       *)
(* granted to its principal and leaves out nothing it owes, the latest     *)
(* import of a document stands, and where imports share the process of the *)
(* search no two versions mix. The last part is about texts: their chunks  *)
(* hold every letter.                                                      *)
(*                                                                         *)
(* Entitlement does not rest on Chroma's own filter, whose ACL may be      *)
(* older than the grants, but on both queries falling into the search      *)
(* (Granted), a channel returning allowed documents only (DenseAllowed)    *)
(* and BM25 comparing chunk ids with document ids (IndexIds).              *)
(***************************************************************************)
EXTENDS DocumentTexts, Induction, SequenceTheorems

Domains ==
    /\ DOMAIN grants = Docs
    /\ DOMAIN phase = Searches /\ DOMAIN listed = Searches
    /\ DOMAIN dense = Searches /\ DOMAIN answers = Searches
    /\ DOMAIN entitled = Searches
    /\ allowed \in [Searches -> SUBSET Docs]
    /\ \A s \in Searches : DOMAIN listed[s] \subseteq Docs

\* The index holds chunk ids.
IndexIds == DOMAIN index \subseteq Ids

\* What is granted to the asker while the search runs has been recorded.
Granted(s) == phase[s] # "idle" =>
    \A d \in Docs : asker[s] \in grants[d].acl => d \in entitled[s]

\* Only what was granted when the second query read it is allowed.
AllowedGranted(s) ==
    /\ phase[s] = "idle" => allowed[s] = {}
    /\ allowed[s] \subseteq entitled[s]

\* Chroma is asked with the allowed documents, after they are known.
DenseAllowed(s) ==
    /\ phase[s] \in {"idle", "documents", "grants"} => dense[s] = Pending
    /\ dense[s] # Pending => \A id \in dense[s] : id[1] \in allowed[s]

\* So is BM25: every query has only hits of allowed documents.
AnswersAllowed(s) ==
    /\ phase[s] \in {"idle", "documents", "grants"} => answers[s] = {}
    /\ \A a \in answers[s] : \A id \in a.dense \cup a.sparse : id[1] \in allowed[s]

SearchInv(s) == Granted(s) /\ AllowedGranted(s) /\ DenseAllowed(s) /\ AnswersAllowed(s)

EntitledInv ==
    /\ Domains /\ IndexIds
    /\ GrantStore => \A s \in Searches : SearchInv(s)

\* The ids of the chunks of an import are chunk ids: _chunk_id is made from a
\* document, a version and a place in it.
LEMMA ChunkIds ==
  ASSUME KnowledgeAssumption, NEW i \in Imports
  PROVE  {IdOf(c) : c \in ChunksOf(i)} \subseteq Ids
<1>1. Catalog[i] \in Seq(Chunk)
  BY DEF KnowledgeAssumption
<1>2. \A k \in DOMAIN Catalog[i] : Catalog[i][k] \in Chunk
  BY <1>1
<1> QED
  BY <1>2 DEF ChunksOf, IdOf, Ids, Chunk

\* With a grant store BM25 returns nothing: no chunk id is an allowed document
\* id.
LEMMA SparseEmpty ==
  ASSUME KnowledgeAssumption, IndexIds, GrantStore, NEW p, NEW docs \in SUBSET Docs
  PROVE  SparseHits(p, docs) = {}
BY DEF KnowledgeAssumption, IndexIds, SparseHits

\* With a grant store the dense channel returns allowed documents only.
LEMMA DenseOfAllowed ==
  ASSUME GrantStore, NEW p, NEW docs, NEW id \in DenseHits(p, docs)
  PROVE  id[1] \in docs
BY DEF DenseHits

\* The invariant holds before anything is imported or asked.
LEMMA EntitledInit ==
  ASSUME KnowledgeAssumption, Init
  PROVE  EntitledInv
BY DEF Init, EntitledInv, Domains, IndexIds, SearchInv, Granted, AllowedGranted,
       DenseAllowed, AnswersAllowed, Pending, Empty

\* A step that leaves the grants and the searches alone keeps the invariant
\* when it puts only chunk ids into the index.
LEMMA ElsewhereKeeps ==
  ASSUME EntitledInv, IndexIds', UNCHANGED <<grants, searchVars, entitled>>
  PROVE  EntitledInv'
BY DEF EntitledInv, Domains, SearchInv, Granted, AllowedGranted, DenseAllowed,
       AnswersAllowed, Pending, searchVars

\* A step of search s that keeps what the others see keeps the invariant when
\* it establishes it for s.
LEMMA SearchKeeps ==
  ASSUME EntitledInv, NEW s \in Searches, Domains', GrantStore => SearchInv(s)',
         UNCHANGED <<grants, index, asker>>,
         \A t \in Searches \ {s} :
             /\ phase'[t] = phase[t] /\ allowed'[t] = allowed[t]
             /\ dense'[t] = dense[t] /\ answers'[t] = answers[t]
             /\ entitled'[t] = entitled[t]
  PROVE  EntitledInv'
<1>1. IndexIds'
  BY DEF EntitledInv, IndexIds
<1>2. ASSUME GrantStore, NEW t \in Searches PROVE SearchInv(t)'
  <2>1. CASE t = s
    BY <1>2, <2>1
  <2>2. CASE t # s
    BY <1>2, <2>2 DEF EntitledInv, SearchInv, Granted, AllowedGranted,
       DenseAllowed, AnswersAllowed, Pending
  <2> QED
    BY <2>1, <2>2
<1> QED
  BY <1>1, <1>2 DEF EntitledInv

\* Every step of an import keeps the invariant: a grant it adds is recorded for
\* the searches that run.
LEMMA ImportKeeps ==
  ASSUME KnowledgeAssumption, EntitledInv, NEW i \in Imports, ImportStep(i)
  PROVE  EntitledInv'
<1>1. CASE SyncGrants(i)
  <2> DEFINE c == Catalog[i][at[i]]
  <2>1. IndexIds' /\ Domains'
    BY <1>1 DEF SyncGrants, EntitledInv, Domains, IndexIds, searchVars
  <2>2. ASSUME GrantStore, NEW s \in Searches PROVE SearchInv(s)'
    <3>1. SearchInv(s) /\ Domains
      BY <2>2 DEF EntitledInv
    <3>2. entitled[s] \subseteq entitled'[s]
      <4>1. \/ entitled' = entitled
            \/ entitled' = [t \in Searches |->
                  IF phase[t] # "idle" /\ asker[t] \in c.acl
                  THEN entitled[t] \cup {c.doc} ELSE entitled[t]]
        BY <1>1 DEF SyncGrants
      <4> HIDE DEF c
      <4> QED BY <4>1
    <3>3. UNCHANGED <<phase, asker, allowed, dense, answers>>
      BY <1>1 DEF SyncGrants, searchVars
    <3>4. Granted(s)'
      <4>1. SUFFICES ASSUME phase[s] # "idle", NEW d \in Docs,
                            asker[s] \in grants'[d].acl
                     PROVE  d \in entitled'[s]
        BY <3>3 DEF Granted
      <4>2. CASE grants'[d] = grants[d]
        BY <3>1, <3>2, <4>1, <4>2 DEF SearchInv, Granted
      <4>3. CASE grants'[d] # grants[d]
        <5>1. /\ grants' = [grants EXCEPT ![c.doc] =
                     [known |-> TRUE, from |-> GrantFrom(c.date), acl |-> c.acl]]
              /\ entitled' = [t \in Searches |->
                     IF phase[t] # "idle" /\ asker[t] \in c.acl
                     THEN entitled[t] \cup {c.doc} ELSE entitled[t]]
          BY <1>1, <4>3 DEF SyncGrants
        <5>2. d = c.doc /\ grants'[d].acl = c.acl
          BY <3>1, <4>3, <5>1 DEF Domains
        <5> QED
          BY <4>1, <5>1, <5>2
      <4> QED
        BY <4>2, <4>3
    <3>5. AllowedGranted(s)' /\ DenseAllowed(s)' /\ AnswersAllowed(s)'
      BY <3>1, <3>2, <3>3 DEF SearchInv, AllowedGranted, DenseAllowed,
         AnswersAllowed, Pending
    <3> QED
      BY <3>4, <3>5 DEF SearchInv
  <2> QED
    BY <2>1, <2>2 DEF EntitledInv
<1>2. CASE IndexChunks(i)
  <2>1. IndexIds'
    <3>1. CASE index' = index
      BY <3>1 DEF EntitledInv, IndexIds
    <3>2. CASE index' = Indexed(i)
      BY <3>2, ChunkIds DEF EntitledInv, IndexIds, Indexed
    <3> QED
      BY <1>2, <3>1, <3>2 DEF IndexChunks
  <2> QED
    BY <1>2, <2>1, ElsewhereKeeps DEF IndexChunks
<1>3. CASE \/ StartImport(i) \/ GetExisting(i) \/ UpdateExisting(i)
           \/ UpsertChunks(i) \/ StopImport(i)
  <2>1. UNCHANGED <<grants, index, searchVars, entitled>>
    BY <1>3 DEF StartImport, GetExisting, UpdateExisting, UpsertChunks, StopImport
  <2> QED
    BY <2>1, ElsewhereKeeps DEF EntitledInv, IndexIds
<1> QED
  BY <1>1, <1>2, <1>3 DEF ImportStep

\* Every step of a search keeps the invariant.
LEMMA SearchStepKeeps ==
  ASSUME KnowledgeAssumption, EntitledInv, NEW s \in Searches, SearchStep(s)
  PROVE  EntitledInv'
<1> USE DEF EntitledInv, Domains, SearchInv
<1>1. CASE StartSearch(s)
  <2>1. Domains'
    BY <1>1 DEF StartSearch
  <2>2. GrantStore => SearchInv(s)'
    BY <1>1 DEF StartSearch, Granted, AllowedGranted, DenseAllowed, AnswersAllowed,
       Pending
  <2> QED
    BY <1>1, <2>1, <2>2, SearchKeeps DEF StartSearch
<1>2. CASE ReadDocuments(s)
  <2>1. Domains'
    BY <1>2 DEF ReadDocuments
  <2>2. GrantStore => SearchInv(s)'
    BY <1>2 DEF ReadDocuments, Granted, AllowedGranted, DenseAllowed, AnswersAllowed,
       Pending
  <2> QED
    BY <1>2, <2>1, <2>2, SearchKeeps DEF ReadDocuments
<1>3. CASE ReadGrants(s)
  <2> DEFINE visible == {d \in DOMAIN listed[s] :
                           listed[s][d] <= now /\ asker[s] \in grants[d].acl}
  <2>1. Domains' /\ visible \subseteq Docs
    BY <1>3 DEF ReadGrants
  <2>2. ASSUME GrantStore PROVE SearchInv(s)'
    <3>1. /\ allowed'[s] = visible /\ phase'[s] \in {"done", "channels"}
          /\ UNCHANGED <<entitled, grants, asker, dense, answers>>
          /\ phase[s] = "grants"
      BY <1>3 DEF ReadGrants
    <3>2. Granted(s)' /\ AllowedGranted(s)'
      BY <2>1, <2>2, <3>1 DEF Granted, AllowedGranted
    <3>3. DenseAllowed(s)' /\ AnswersAllowed(s)'
      BY <2>2, <3>1 DEF DenseAllowed, AnswersAllowed
    <3> QED
      BY <3>2, <3>3
  <2> QED
    BY <1>3, <2>1, <2>2, SearchKeeps DEF ReadGrants
<1>4. CASE SearchDense(s)
  <2>1. Domains'
    BY <1>4 DEF SearchDense
  <2>2. GrantStore => SearchInv(s)'
    BY <1>4, DenseOfAllowed DEF SearchDense, Granted, AllowedGranted, DenseAllowed,
       AnswersAllowed
  <2> QED
    BY <1>4, <2>1, <2>2, SearchKeeps DEF SearchDense
<1>5. CASE SearchSparse(s)
  <2>1. Domains'
    BY <1>5 DEF SearchSparse
  <2> DEFINE new == [dense |-> dense[s], sparse |-> SparseHits(asker[s], allowed[s])]
  <2>2. ASSUME GrantStore PROVE SearchInv(s)'
    <3>1. /\ phase[s] = "channels" /\ phase'[s] \in {"channels", "done"}
          /\ dense[s] # Pending /\ dense'[s] = Pending
          /\ answers'[s] = answers[s] \cup {new}
          /\ UNCHANGED <<allowed, entitled, grants, asker>>
      BY <1>5 DEF SearchSparse, Asking
    <3>2. new.sparse = {}
      BY <2>2, SparseEmpty
    <3>3. \A id \in new.dense \cup new.sparse : id[1] \in allowed[s]
      BY <2>2, <3>1, <3>2 DEF DenseAllowed
    <3> HIDE DEF new
    <3>4. Granted(s)' /\ AllowedGranted(s)'
      BY <2>2, <3>1 DEF Granted, AllowedGranted
    <3>5. DenseAllowed(s)' /\ AnswersAllowed(s)'
      BY <2>2, <3>1, <3>3 DEF DenseAllowed, AnswersAllowed
    <3> QED
      BY <3>4, <3>5
  <2> QED
    BY <1>5, <2>1, <2>2, SearchKeeps DEF SearchSparse
<1>6. CASE FailSearch(s)
  <2>1. Domains'
    BY <1>6 DEF FailSearch
  <2>2. GrantStore => SearchInv(s)'
    BY <1>6 DEF FailSearch, Granted, AllowedGranted, DenseAllowed, AnswersAllowed,
       Pending
  <2> QED
    BY <1>6, <2>1, <2>2, SearchKeeps DEF FailSearch
<1> QED
  BY <1>1, <1>2, <1>3, <1>4, <1>5, <1>6 DEF SearchStep

\* The clock, a restart and the end keep the invariant.
LEMMA OtherStepKeeps ==
  ASSUME EntitledInv, Tick \/ Restart \/ Finished \/ UNCHANGED vars
  PROVE  EntitledInv'
<1>1. CASE Tick \/ Finished \/ UNCHANGED vars
  <2>1. UNCHANGED <<grants, index, searchVars, entitled>>
    BY <1>1 DEF Tick, Finished, vars
  <2> QED
    BY <2>1, ElsewhereKeeps DEF EntitledInv, IndexIds
<1>2. CASE Restart
  <2>1. Domains' /\ IndexIds'
    BY <1>2 DEF Restart, EntitledInv, Domains, IndexIds, Empty
  <2>2. ASSUME GrantStore, NEW s \in Searches PROVE SearchInv(s)'
    BY <1>2, <2>2 DEF Restart, EntitledInv, Domains, SearchInv, Granted,
       AllowedGranted, DenseAllowed, AnswersAllowed, Pending
  <2> QED
    BY <2>1, <2>2 DEF EntitledInv
<1> QED
  BY <1>1, <1>2

\* What runs with a grant store is searched within what is granted.
THEOREM AlwaysEntitledInv == Spec => []EntitledInv
<1>1. Init => EntitledInv
  BY EntitledInit, KnowledgeAssumption
<1>2. EntitledInv /\ [Next]_vars => EntitledInv'
  BY ImportKeeps, SearchStepKeeps, OtherStepKeeps, KnowledgeAssumption DEF Next
<1> QED
  BY <1>1, <1>2, PTL DEF Spec

\* HybridRetriever.search: every hit is of a document that was granted to the
\* principal at some moment of the search.
THEOREM AlwaysHitsEntitled == Spec => []HitsEntitled
<1>1. EntitledInv => HitsEntitled
  BY DEF EntitledInv, SearchInv, AllowedGranted, AnswersAllowed, HitsEntitled, Hits
<1> QED
  BY <1>1, AlwaysEntitledInv, PTL

\* With a grant store all hits of a search come from the dense channel.
DenseAlone == GrantStore =>
    \A s \in Searches : Hits(s) = UNION {a.dense : a \in answers[s]}

LexicalSilent == GrantStore => \A s \in Searches : \A a \in answers[s] : a.sparse = {}

LEMMA LexicalStaysSilent ==
  ASSUME EntitledInv, LexicalSilent, [Next]_vars
  PROVE  LexicalSilent'
<1> SUFFICES ASSUME GrantStore, NEW s \in Searches, NEW a \in answers'[s]
             PROVE  a.sparse = {}
  BY DEF LexicalSilent
<1>1. s \in DOMAIN answers
  BY DEF EntitledInv, Domains
<1>2. CASE answers'[s] = answers[s]
  BY <1>2 DEF LexicalSilent
<1>3. ASSUME NEW t \in Searches, SearchStep(t), ~(SearchSparse(t) /\ t = s)
      PROVE  answers'[s] = answers[s]
  BY <1>1, <1>3 DEF SearchStep, StartSearch, ReadDocuments, ReadGrants, SearchDense,
     SearchSparse, FailSearch
<1>4. CASE SearchSparse(s)
  <2>1. allowed[s] \in SUBSET Docs
    BY DEF EntitledInv, Domains
  <2>2. SparseHits(asker[s], allowed[s]) = {}
    BY <2>1, SparseEmpty, KnowledgeAssumption DEF EntitledInv
  <2>3. a \in answers[s] \/ a = [dense |-> dense[s], sparse |-> {}]
    BY <1>1, <1>4, <2>2 DEF SearchSparse
  <2> QED
    BY <2>3 DEF LexicalSilent
<1>5. CASE (\E i \in Imports : ImportStep(i)) \/ Tick \/ Restart \/ Finished \/ UNCHANGED vars
  <2>1. answers' = answers
    BY <1>5 DEF ImportStep, StartImport, SyncGrants, GetExisting, UpdateExisting,
       UpsertChunks, IndexChunks, StopImport, Tick, Restart, Finished, vars, searchVars
  <2> QED
    BY <1>2, <2>1
<1> QED
  BY <1>2, <1>3, <1>4, <1>5 DEF Next

\* What the run kb_channels_grants meets once holds always: BM25 compares chunk ids with
\* the documents that are allowed, so with a grant store it adds nothing to a search,
\* whatever was indexed and however many queries are asked.
THEOREM AlwaysDenseAlone == Spec => []DenseAlone
<1>1. Init => LexicalSilent
  BY DEF Init, LexicalSilent
<1>2. LexicalSilent => DenseAlone
  BY DEF LexicalSilent, DenseAlone, Hits
<1> QED
  BY <1>1, <1>2, LexicalStaysSilent, AlwaysEntitledInv, PTL DEF Spec

-----------------------------------------------------------------------------
(***************************************************************************)
(* The latest import stands.  While one import has a document to itself    *)
(* since it began, nobody else writes the document's rows, so the rows it  *)
(* has handled stay inactive until it upserts its own.                     *)
(***************************************************************************)
Metadata == [from : Int, acl : SUBSET Principals, active : BOOLEAN]
IsStored(rows) == \A id \in DOMAIN rows : rows[id] \in Metadata
Places == {"idle", "grants", "get", "update", "upsert", "index", "done", "stopped"}

RowsOf(d) == {id \in DOMAIN store : id[1] = d}
DocAt(i) == Catalog[i][at[i]].doc

ImportTypes ==
    /\ step \in [Imports -> Places] /\ at \in [Imports -> Nat \ {0}]
    /\ DOMAIN seen = Imports /\ DOMAIN sole = Docs
    /\ IsStored(store)

\* Where an import is, and what it has read there.
PlaceInv(i) ==
    /\ step[i] \in {"idle", "grants"} /\ Len(Catalog[i]) > 0 => at[i] <= Len(Catalog[i])
    /\ step[i] \in {"get", "update"} => at[i] <= Len(Catalog[i])
    /\ IsStored(seen[i])
    /\ step[i] = "update" => \A id \in DOMAIN seen[i] : id[1] = DocAt(i)

\* The import that has a document to itself is the only one that handles it.
SoleInv(d) == sole[d] # NoImport =>
    /\ sole[d] \in Imports /\ d \in DocsOf(sole[d])
    /\ \A j \in Imports \ {sole[d]} : Importing(j) => d \notin DocsOf(j)

\* Import i has passed a chunk of d on its way through the rows to replace.
Handled(i, d) ==
    \/ step[i] \in {"get", "update"} /\ \E k \in 1..at[i] - 1 : Catalog[i][k].doc = d
    \/ step[i] = "upsert"

\* Exactly the chunks of import i are active among the rows of d.
Stands(i, d) ==
    /\ IdsOf(i, d) \subseteq DOMAIN store
    /\ \A id \in RowsOf(d) : store[id].active =>
          /\ id \in IdsOf(i, d)
          /\ store[id].from = RowOf(i, id).from
          /\ RowOf(i, id).acl \subseteq store[id].acl
    /\ \A id \in IdsOf(i, d) : store[id].active

ReplacedBy(i, d) ==
    /\ Handled(i, d) => \A id \in RowsOf(d) : ~store[id].active
    /\ step[i] = "update" /\ DocAt(i) = d => RowsOf(d) \subseteq DOMAIN seen[i]
    /\ step[i] \in {"index", "done"} => Stands(i, d)

DocInv(d) == SoleInv(d) /\ (sole[d] # NoImport => ReplacedBy(sole[d], d))

StandInv ==
    /\ ImportTypes
    /\ \A i \in Imports : PlaceInv(i)
    /\ \A d \in Docs : DocInv(d)

\* The chunks of an import, their ids and their rows.
LEMMA CatalogTypes ==
    ASSUME KnowledgeAssumption, NEW i \in Imports
    PROVE  /\ Len(Catalog[i]) \in Nat /\ DOMAIN Catalog[i] = 1..Len(Catalog[i])
           /\ \A k \in 1..Len(Catalog[i]) : Catalog[i][k] \in Chunk
           /\ \A d : d \in DocsOf(i) <=> \E k \in 1..Len(Catalog[i]) : Catalog[i][k].doc = d
           /\ \A c \in ChunksOf(i) : c \in Chunk /\ IdOf(c)[1] = c.doc
<1>1. Catalog[i] \in Seq(Chunk)
  BY DEF KnowledgeAssumption
<1>2. /\ Len(Catalog[i]) \in Nat /\ DOMAIN Catalog[i] = 1..Len(Catalog[i])
      /\ \A k \in 1..Len(Catalog[i]) : Catalog[i][k] \in Chunk
  BY <1>1
<1> QED BY <1>2 DEF DocsOf, ChunksOf, IdOf

LEMMA ImportedIds ==
    ASSUME KnowledgeAssumption, NEW i \in Imports, NEW d
    PROVE  /\ \A id \in IdsOf(i, d) : id[1] = d /\ id \in {IdOf(c) : c \in ChunksOf(i)}
           /\ \A id \in {IdOf(c) : c \in ChunksOf(i)} :
                 /\ id[1] = d => id \in IdsOf(i, d)
                 /\ id[1] \in DocsOf(i)
                 /\ RowOf(i, id) \in Metadata /\ RowOf(i, id).active
<1>1. \A id \in IdsOf(i, d) : id[1] = d /\ id \in {IdOf(c) : c \in ChunksOf(i)}
  BY CatalogTypes DEF IdsOf
<1>2. ASSUME NEW x \in ChunksOf(i)
      PROVE  /\ IdOf(x)[1] = d => IdOf(x) \in IdsOf(i, d)
             /\ IdOf(x)[1] \in DocsOf(i)
             /\ RowOf(i, IdOf(x)) \in Metadata /\ RowOf(i, IdOf(x)).active
  <2>1. IdOf(x)[1] = d => IdOf(x) \in IdsOf(i, d)
    BY CatalogTypes DEF IdsOf
  <2>2. IdOf(x)[1] \in DocsOf(i)
    BY CatalogTypes DEF DocsOf
  <2> DEFINE c == ChunkOf(i, IdOf(x))
  <2>3. c \in Chunk
    BY CatalogTypes DEF ChunkOf
  <2>4. RowOf(i, IdOf(x)) = Row(ChromaFrom(i, c.date), c.acl, TRUE)
    BY DEF RowOf
  <2> HIDE DEF c
  <2>5. ChromaFrom(i, c.date) \in Int /\ c.acl \in SUBSET Principals
    BY <2>3, KnowledgeAssumption DEF KnowledgeAssumption, ChromaFrom, Chunk, Date
  <2>6. RowOf(i, IdOf(x)) \in Metadata /\ RowOf(i, IdOf(x)).active
    BY <2>4, <2>5 DEF Row, Metadata
  <2> QED BY <2>1, <2>2, <2>6
<1> QED BY <1>1, <1>2

\* A document whose rows nobody touches is as replaced as it was.
LEMMA UntouchedDoc ==
    ASSUME KnowledgeAssumption, NEW d \in Docs, DocInv(d), sole'[d] = sole[d],
           {id \in DOMAIN store' : id[1] = d} = RowsOf(d),
           \A id \in RowsOf(d) : store'[id] = store[id],
           \A j \in Imports : Importing(j)' /\ d \in DocsOf(j) => Importing(j),
           sole[d] \in Imports =>
              \/ step'[sole[d]] = "stopped"
              \/ /\ step'[sole[d]] = step[sole[d]] /\ at'[sole[d]] = at[sole[d]]
                 /\ seen'[sole[d]] = seen[sole[d]]
    PROVE  DocInv(d)'
<1> SUFFICES ASSUME sole[d] # NoImport PROVE DocInv(d)'
  BY DEF DocInv, SoleInv
<1> DEFINE i == sole[d]
<1>1. i \in Imports /\ SoleInv(d)'
  BY DEF DocInv, SoleInv
<1>2. CASE step'[i] = "stopped"
  BY <1>1, <1>2 DEF DocInv, ReplacedBy, Handled
<1>3. CASE step'[i] = step[i] /\ at'[i] = at[i] /\ seen'[i] = seen[i]
  <2>1. RowsOf(d)' = RowsOf(d) /\ ReplacedBy(i, d)
    BY DEF RowsOf, DocInv
  <2>2. Handled(i, d)' => \A id \in RowsOf(d)' : ~store'[id].active
    BY <1>3, <2>1 DEF ReplacedBy, Handled
  <2>3. step'[i] = "update" /\ DocAt(i)' = d => RowsOf(d)' \subseteq DOMAIN seen'[i]
    BY <1>3, <2>1 DEF ReplacedBy, DocAt
  <2>4. Stands(i, d) => Stands(i, d)'
    <3> SUFFICES ASSUME Stands(i, d) PROVE Stands(i, d)'
      OBVIOUS
    <3>1. \A id \in IdsOf(i, d) : id \in RowsOf(d)
      BY <1>1, ImportedIds DEF Stands, RowsOf
    <3>2. /\ IdsOf(i, d) \subseteq DOMAIN store'
          /\ \A id \in IdsOf(i, d) : store'[id].active
      BY <2>1, <3>1 DEF Stands, RowsOf
    <3>3. \A id \in RowsOf(d)' : store'[id].active =>
              /\ id \in IdsOf(i, d)
              /\ store'[id].from = RowOf(i, id).from
              /\ RowOf(i, id).acl \subseteq store'[id].acl
      BY <2>1 DEF Stands
    <3> QED BY <3>2, <3>3 DEF Stands
  <2>5. ReplacedBy(i, d)'
    BY <1>3, <2>1, <2>2, <2>3, <2>4 DEF ReplacedBy
  <2>6. i' = i
    OBVIOUS
  <2> QED BY <1>1, <2>5, <2>6 DEF DocInv
<1> QED BY <1>1, <1>2, <1>3

\* The parts of the invariant that the steps of one import leave alone elsewhere.
LEMMA OtherPlaces ==
    ASSUME NEW i \in Imports, NEW j \in Imports \ {i}, PlaceInv(j),
           step'[j] = step[j], at'[j] = at[j], seen'[j] = seen[j]
    PROVE  PlaceInv(j)'
BY DEF PlaceInv, DocAt

\* A step that writes no row: all documents but those of import i are untouched.
LEMMA NoRowWritten ==
    ASSUME KnowledgeAssumption, StandInv, NEW i \in Imports, store' = store,
           \A j \in Imports \ {i} :
               step'[j] = step[j] /\ at'[j] = at[j] /\ seen'[j] = seen[j],
           NEW d \in Docs, sole'[d] = sole[d], sole[d] # i,
           Importing(i)' /\ d \in DocsOf(i) => Importing(i)
    PROVE  DocInv(d)'
<1>1. DocInv(d)
  BY DEF StandInv
<1>2. \A j \in Imports : Importing(j)' /\ d \in DocsOf(j) => Importing(j)
  BY DEF Importing
<1>3. {id \in DOMAIN store' : id[1] = d} = RowsOf(d)
  BY DEF RowsOf
<1> QED BY <1>1, <1>2, <1>3, UntouchedDoc

LEMMA StartKeepsStand ==
    ASSUME KnowledgeAssumption, StandInv, NEW i \in Imports, StartImport(i)
    PROVE  StandInv'
<1>0. /\ step[i] = "idle" /\ step' = [step EXCEPT ![i] = "grants"]
      /\ UNCHANGED <<at, seen, store>> /\ ImportTypes
      /\ sole' = [d \in Docs |->
            IF d \notin DocsOf(i) THEN sole[d]
            ELSE IF \E j \in Imports : Importing(j) /\ d \in DocsOf(j)
            THEN NoImport ELSE i]
  BY DEF StartImport, StandInv
<1>1. ImportTypes'
  BY <1>0 DEF ImportTypes, Places
<1>2. ASSUME NEW j \in Imports PROVE PlaceInv(j)'
  <2>1. CASE j # i
    BY <1>0, <1>2, <2>1, OtherPlaces DEF StandInv, ImportTypes
  <2>2. CASE j = i
    BY <1>0, <2>2 DEF StandInv, ImportTypes, PlaceInv
  <2> QED BY <2>1, <2>2
<1>3. ASSUME NEW d \in Docs PROVE DocInv(d)'
  <2>1. CASE d \notin DocsOf(i)
    <3>1. sole'[d] = sole[d] /\ sole[d] # i
      BY <1>0, <2>1, KnowledgeAssumption DEF StandInv, DocInv, SoleInv, KnowledgeAssumption
    <3> QED BY <1>0, <2>1, <3>1, NoRowWritten DEF ImportTypes
  <2>2. CASE d \in DocsOf(i) /\ sole'[d] = NoImport
    BY <2>2 DEF DocInv, SoleInv
  <2>3. CASE d \in DocsOf(i) /\ sole'[d] # NoImport
    <3>1. sole'[d] = i /\ step'[i] = "grants"
          /\ \A j \in Imports \ {i} : step'[j] = step[j]
      BY <1>0, <2>3 DEF ImportTypes
    <3>2. \A j \in Imports \ {i} : Importing(j) => d \notin DocsOf(j)
      BY <1>0, <2>3
    <3> QED BY <2>3, <3>1, <3>2 DEF DocInv, SoleInv, ReplacedBy, Handled, Importing
  <2> QED BY <2>1, <2>2, <2>3
<1> QED BY <1>1, <1>2, <1>3 DEF StandInv

\* The grants of a document are written, and the stored chunks read.
LEMMA ReadingKeepsStand ==
    ASSUME KnowledgeAssumption, StandInv, NEW i \in Imports, SyncGrants(i) \/ GetExisting(i)
    PROVE  StandInv'
<1>0. /\ ImportTypes /\ PlaceInv(i) /\ UNCHANGED <<store, sole>>
      /\ Importing(i)
      /\ \A j \in Imports \ {i} :
             step'[j] = step[j] /\ at'[j] = at[j] /\ seen'[j] = seen[j]
      /\ Len(Catalog[i]) \in Nat
  BY CatalogTypes DEF SyncGrants, GetExisting, StandInv, ImportTypes, Importing
<1>1. /\ \/ /\ step[i] = "grants" /\ seen'[i] = seen[i]
            /\ \/ step'[i] = "get" /\ at'[i] = 1 /\ at[i] = Len(Catalog[i])
               \/ step'[i] = "grants" /\ at'[i] = at[i] + 1 /\ at[i] # Len(Catalog[i])
         \/ /\ step[i] = "get" /\ step'[i] = "update" /\ at'[i] = at[i]
            /\ seen'[i] = [id \in {x \in DOMAIN store : x[1] = DocAt(i)} |-> store[id]]
  BY <1>0 DEF SyncGrants, GetExisting, ImportTypes, DocAt
<1>2. ImportTypes'
  <2>1. /\ step' \in [Imports -> Places] /\ DOMAIN seen' = Imports
        /\ DOMAIN sole' = Docs /\ IsStored(store')
    BY <1>0 DEF SyncGrants, GetExisting, ImportTypes, Places, IsStored
  <2>2. at[i] + 1 \in Nat \ {0} /\ 1 \in Nat \ {0}
    BY <1>0 DEF ImportTypes
  <2>3. at' \in [Imports -> Nat \ {0}]
    BY <1>0, <2>2 DEF SyncGrants, GetExisting, ImportTypes
  <2> QED BY <2>1, <2>3 DEF ImportTypes
<1>3. ASSUME NEW j \in Imports PROVE PlaceInv(j)'
  <2>1. CASE j # i
    BY <1>0, <2>1, OtherPlaces DEF StandInv
  <2>2. CASE j = i
    <3>1. CASE step[i] = "grants"
      <4>1. at[i] \in Nat \ {0}
        BY <1>0 DEF ImportTypes
      <4> QED BY <1>0, <1>1, <2>2, <3>1, <4>1 DEF PlaceInv
    <3>2. CASE step[i] = "get"
      <4>1. IsStored(seen'[i]) /\ \A id \in DOMAIN seen'[i] : id[1] = DocAt(i)
        BY <1>0, <1>1, <3>2 DEF ImportTypes, IsStored
      <4> QED BY <1>0, <1>1, <2>2, <3>2, <4>1 DEF PlaceInv, DocAt
    <3> QED BY <1>1, <3>1, <3>2
  <2> QED BY <2>1, <2>2
<1>4. ASSUME NEW d \in Docs PROVE DocInv(d)'
  <2>1. CASE sole[d] # i
    BY <1>0, <2>1, NoRowWritten
  <2>2. CASE sole[d] = i
    <3>1. SoleInv(d)' /\ ReplacedBy(i, d) /\ sole'[d] = i
      BY <1>0, <2>2, KnowledgeAssumption
      DEF StandInv, DocInv, SoleInv, Importing, KnowledgeAssumption
    <3>2. RowsOf(d)' = RowsOf(d)
      BY <1>0 DEF RowsOf
    <3>3. CASE step[i] = "grants"
      <4>1. ~Handled(i, d)' /\ step'[i] \in {"get", "grants"}
        BY <1>1, <3>3 DEF Handled
      <4> QED BY <3>1, <4>1 DEF DocInv, ReplacedBy
    <3>4. CASE step[i] = "get"
      <4>1. step'[i] = "update" /\ at'[i] = at[i] /\ (Handled(i, d)' <=> Handled(i, d))
        BY <1>1, <3>4 DEF Handled
      <4>2. DocAt(i)' = d => RowsOf(d)' \subseteq DOMAIN seen'[i]
        BY <1>1, <3>2, <3>4, <4>1 DEF DocAt, RowsOf
      <4> QED BY <1>0, <3>1, <3>2, <4>1, <4>2 DEF DocInv, ReplacedBy
    <3> QED BY <1>1, <3>3, <3>4
  <2> QED BY <2>1, <2>2
<1> QED BY <1>2, <1>3, <1>4 DEF StandInv

\* The stored chunks of a document are marked inactive.
LEMMA MarkingKeepsStand ==
    ASSUME KnowledgeAssumption, StandInv, NEW i \in Imports, UpdateExisting(i)
    PROVE  StandInv'
<1>0. /\ ImportTypes /\ PlaceInv(i) /\ sole' = sole /\ step[i] = "update"
      /\ Importing(i) /\ store' = Marked(seen[i]) /\ seen'[i] = seen[i]
      /\ \A j \in Imports \ {i} :
             step'[j] = step[j] /\ at'[j] = at[j] /\ seen'[j] = seen[j]
      /\ Len(Catalog[i]) \in Nat /\ at[i] \in 1..Len(Catalog[i])
      /\ \/ step'[i] = "upsert" /\ at'[i] = 1 /\ at[i] = Len(Catalog[i])
         \/ step'[i] = "get" /\ at'[i] = at[i] + 1 /\ at[i] < Len(Catalog[i])
  BY CatalogTypes DEF UpdateExisting, StandInv, ImportTypes, PlaceInv, Importing
<1>1. /\ DOMAIN store' = DOMAIN store
      /\ \A id \in DOMAIN store :
            /\ id \in DOMAIN seen[i] => store'[id] = [seen[i][id] EXCEPT !.active = FALSE]
            /\ id \notin DOMAIN seen[i] => store'[id] = store[id]
  BY <1>0 DEF Marked
<1>2. \A id \in DOMAIN seen[i] : /\ seen[i][id] \in Metadata /\ id[1] = DocAt(i)
                                 /\ [seen[i][id] EXCEPT !.active = FALSE] \in Metadata
                                 /\ ~[seen[i][id] EXCEPT !.active = FALSE].active
  BY <1>0 DEF PlaceInv, IsStored, Metadata
<1>3. ImportTypes'
  <2>1. IsStored(store')
    BY <1>0, <1>1, <1>2 DEF IsStored, ImportTypes
  <2> QED BY <1>0, <2>1 DEF UpdateExisting, ImportTypes, Places
<1>4. ASSUME NEW j \in Imports PROVE PlaceInv(j)'
  <2>1. CASE j # i
    BY <1>0, <2>1, OtherPlaces DEF StandInv
  <2>2. CASE j = i
    BY <1>0, <2>2 DEF PlaceInv
  <2> QED BY <2>1, <2>2
<1>5. DocAt(i) \in DocsOf(i)
  BY <1>0, CatalogTypes DEF DocAt
<1>6. ASSUME NEW d \in Docs PROVE DocInv(d)'
  <2>1. CASE d \notin DocsOf(i)
    <3>1. /\ {id \in DOMAIN store' : id[1] = d} = RowsOf(d)
          /\ \A id \in RowsOf(d) : store'[id] = store[id]
      BY <1>1, <1>2, <1>5, <2>1 DEF RowsOf
    <3>2. \A j \in Imports : Importing(j)' /\ d \in DocsOf(j) => Importing(j)
      BY <1>0 DEF Importing
    <3>3. sole[d] # i \/ sole[d] = NoImport
      BY <2>1 DEF StandInv, DocInv, SoleInv
    <3> QED
      BY <1>0, <3>1, <3>2, <3>3, UntouchedDoc, KnowledgeAssumption
      DEF StandInv, KnowledgeAssumption
  <2>2. CASE d \in DocsOf(i) /\ sole[d] = NoImport
    BY <1>0, <2>2 DEF DocInv, SoleInv
  <2>3. CASE d \in DocsOf(i) /\ sole[d] # NoImport
    <3>1. sole[d] = i /\ SoleInv(d)' /\ ReplacedBy(i, d)
      BY <1>0, <2>3 DEF StandInv, DocInv, SoleInv, Importing
    <3>2. RowsOf(d)' = RowsOf(d)
      BY <1>1 DEF RowsOf
    <3>3. ASSUME NEW id \in RowsOf(d), ~store[id].active  PROVE ~store'[id].active
      <4>1. id \in DOMAIN store
        BY DEF RowsOf
      <4>2. CASE id \in DOMAIN seen[i]
        BY <1>1, <1>2, <4>1, <4>2
      <4>3. CASE id \notin DOMAIN seen[i]
        BY <1>1, <3>3, <4>1, <4>3
      <4> QED BY <4>2, <4>3
    <3>4. ASSUME DocAt(i) = d, NEW id \in RowsOf(d)  PROVE ~store'[id].active
      <4>1. id \in DOMAIN store /\ id \in DOMAIN seen[i]
        BY <1>0, <3>1, <3>4 DEF ReplacedBy, RowsOf
      <4> QED BY <1>1, <1>2, <4>1
    <3>5. Handled(i, d)' => Handled(i, d) \/ DocAt(i) = d
      <4>1. CASE step'[i] = "get"
        BY <1>0, <4>1 DEF Handled, DocAt
      <4>2. CASE step'[i] = "upsert"
        <5>1. PICK k \in 1..Len(Catalog[i]) : Catalog[i][k].doc = d
          BY <2>3, CatalogTypes
        <5>2. k \in 1..at[i] - 1 \/ k = at[i]
          BY <1>0, <4>2, <5>1
        <5> QED BY <1>0, <5>1, <5>2 DEF Handled, DocAt
      <4> QED BY <1>0, <4>1, <4>2
    <3>6. ReplacedBy(i, d)'
      BY <1>0, <3>1, <3>2, <3>3, <3>4, <3>5 DEF ReplacedBy
    <3> QED BY <1>0, <3>1, <3>6 DEF DocInv
  <2> QED BY <2>1, <2>2, <2>3
<1> QED BY <1>3, <1>4, <1>6 DEF StandInv

\* All chunks of the import are written at once, over rows that are inactive.
LEMMA UpsertingKeepsStand ==
    ASSUME KnowledgeAssumption, StandInv, NEW i \in Imports, UpsertChunks(i)
    PROVE  StandInv'
<1> DEFINE new == {IdOf(c) : c \in ChunksOf(i)}
<1>0. /\ ImportTypes /\ PlaceInv(i) /\ UNCHANGED <<at, seen, sole>>
      /\ step[i] = "upsert" /\ Importing(i)
      /\ step' = [step EXCEPT ![i] = "index"] /\ step'[i] = "index"
      /\ \A j \in Imports \ {i} : step'[j] = step[j]
  BY DEF UpsertChunks, StandInv, ImportTypes, Importing
<1>1. PICK keeps \in BOOLEAN :
          store' = [id \in DOMAIN store \cup new |->
                      IF id \in new THEN Upserted(i, id, keeps) ELSE store[id]]
  BY DEF UpsertChunks
<1>2. \A id \in new : /\ id[1] \in DocsOf(i) /\ RowOf(i, id) \in Metadata
                      /\ RowOf(i, id).active
  BY ImportedIds
<1> HIDE DEF new
<1>3. ASSUME NEW id \in new
      PROVE  LET row == Upserted(i, id, keeps)
             IN  /\ row \in Metadata /\ row.active
                 /\ row.from = RowOf(i, id).from /\ RowOf(i, id).acl \subseteq row.acl
  <2>1. RowOf(i, id) \in Metadata /\ (id \in DOMAIN store => store[id] \in Metadata)
    BY <1>0, <1>2 DEF ImportTypes, IsStored
  <2> QED BY <1>2, <2>1 DEF Upserted, Metadata
<1>4. ImportTypes'
  <2>1. IsStored(store')
    BY <1>0, <1>1, <1>3 DEF IsStored, ImportTypes
  <2> QED BY <1>0, <2>1 DEF ImportTypes, Places
<1>5. ASSUME NEW j \in Imports PROVE PlaceInv(j)'
  <2>1. CASE j # i
    BY <1>0, <2>1, OtherPlaces DEF StandInv
  <2>2. CASE j = i
    BY <1>0, <2>2 DEF PlaceInv
  <2> QED BY <2>1, <2>2
<1>6. ASSUME NEW d \in Docs PROVE DocInv(d)'
  <2>1. CASE d \notin DocsOf(i)
    <3>1. /\ {id \in DOMAIN store' : id[1] = d} = RowsOf(d)
          /\ \A id \in RowsOf(d) : store'[id] = store[id]
      BY <1>1, <1>2, <2>1 DEF RowsOf
    <3>2. \A j \in Imports : Importing(j)' /\ d \in DocsOf(j) => Importing(j)
      BY <1>0 DEF Importing
    <3>3. sole[d] # i \/ sole[d] = NoImport
      BY <2>1 DEF StandInv, DocInv, SoleInv
    <3> QED
      BY <1>0, <3>1, <3>2, <3>3, UntouchedDoc, KnowledgeAssumption
      DEF StandInv, KnowledgeAssumption
  <2>2. CASE d \in DocsOf(i) /\ sole[d] = NoImport
    BY <1>0, <2>2 DEF DocInv, SoleInv
  <2>3. CASE d \in DocsOf(i) /\ sole[d] # NoImport
    <3>1. sole[d] = i /\ SoleInv(d)' /\ \A id \in RowsOf(d) : ~store[id].active
      BY <1>0, <2>3 DEF StandInv, DocInv, SoleInv, Importing, ReplacedBy, Handled
    <3>2. \A id \in IdsOf(i, d) : id \in new /\ id[1] = d
      BY ImportedIds DEF new
    <3>3. \A id \in new : id[1] = d => id \in IdsOf(i, d)
      BY ImportedIds DEF new
    <3>4. /\ \A id \in new : id \in DOMAIN store' /\ store'[id] = Upserted(i, id, keeps)
          /\ \A id \in DOMAIN store' : id \notin new => id \in DOMAIN store /\ store'[id] = store[id]
      BY <1>1
    <3>5. ASSUME NEW id \in RowsOf(d)', store'[id].active
          PROVE  /\ id \in IdsOf(i, d)
                 /\ store'[id].from = RowOf(i, id).from
                 /\ RowOf(i, id).acl \subseteq store'[id].acl
      <4>1. id \in DOMAIN store' /\ id[1] = d
        BY DEF RowsOf
      <4>2. id \in new
        BY <3>1, <3>4, <3>5, <4>1 DEF RowsOf
      <4> QED BY <1>3, <3>3, <3>4, <4>1, <4>2
    <3>6. Stands(i, d)'
      BY <1>3, <3>2, <3>4, <3>5 DEF Stands
    <3>7. ReplacedBy(i, d)'
      BY <1>0, <3>6 DEF ReplacedBy, Handled
    <3> QED BY <1>0, <3>1, <3>7 DEF DocInv
  <2> QED BY <2>1, <2>2, <2>3
<1> QED BY <1>4, <1>5, <1>6 DEF StandInv

\* The index of a process is not the store, and an import that stops writes nothing.
LEMMA EndingKeepsStand ==
    ASSUME KnowledgeAssumption, StandInv, NEW i \in Imports, IndexChunks(i) \/ StopImport(i)
    PROVE  StandInv'
<1>0. /\ ImportTypes /\ UNCHANGED <<at, seen, sole, store>> /\ Importing(i)
      /\ \/ step[i] = "index" /\ step' = [step EXCEPT ![i] = "done"]
         \/ step' = [step EXCEPT ![i] = "stopped"]
      /\ \A j \in Imports \ {i} : step'[j] = step[j]
  BY DEF IndexChunks, StopImport, StandInv, ImportTypes, Importing
<1>1. ImportTypes' /\ ((step'[i] = "done" /\ step[i] = "index") \/ step'[i] = "stopped")
  BY <1>0 DEF ImportTypes, Places
<1>2. ASSUME NEW j \in Imports PROVE PlaceInv(j)'
  <2>1. CASE j # i
    BY <1>0, <2>1, OtherPlaces DEF StandInv
  <2>2. CASE j = i
    BY <1>0, <1>1, <2>2 DEF StandInv, PlaceInv
  <2> QED BY <2>1, <2>2
<1>3. ASSUME NEW d \in Docs PROVE DocInv(d)'
  <2>1. CASE sole[d] # i
    BY <1>0, <2>1, NoRowWritten
  <2>2. CASE sole[d] = i
    <3>1. SoleInv(d)' /\ ReplacedBy(i, d) /\ sole'[d] = i
      BY <1>0, <2>2, KnowledgeAssumption
      DEF StandInv, DocInv, SoleInv, Importing, KnowledgeAssumption
    <3>2. Stands(i, d) => Stands(i, d)'
      BY <1>0 DEF Stands, RowsOf
    <3>3. ReplacedBy(i, d)'
      BY <1>1, <3>1, <3>2 DEF ReplacedBy, Handled
    <3> QED BY <3>1, <3>3 DEF DocInv
  <2> QED BY <2>1, <2>2
<1> QED BY <1>1, <1>2, <1>3 DEF StandInv

\* Nothing else writes rows; a restart stops imports where they are.
LEMMA OthersKeepStand ==
    ASSUME KnowledgeAssumption, StandInv, UNCHANGED <<at, seen, sole, store>>,
           \/ step' = step
           \/ step' = [i \in Imports |->
                         IF i \in InServer /\ Importing(i) THEN "stopped" ELSE step[i]]
    PROVE  StandInv'
<1>0. /\ ImportTypes
      /\ \A i \in Imports : step'[i] = step[i] \/ step'[i] = "stopped"
  BY DEF StandInv
<1>1. ImportTypes'
  BY <1>0 DEF ImportTypes, Places
<1>2. \A i \in Imports : PlaceInv(i)'
  BY <1>0 DEF StandInv, PlaceInv, DocAt
<1>3. ASSUME NEW d \in Docs PROVE DocInv(d)'
  <2>1. /\ DocInv(d) /\ sole'[d] = sole[d]
        /\ {id \in DOMAIN store' : id[1] = d} = RowsOf(d)
        /\ \A id \in RowsOf(d) : store'[id] = store[id]
    BY DEF StandInv, RowsOf
  <2>2. \A j \in Imports : Importing(j)' /\ d \in DocsOf(j) => Importing(j)
    BY <1>0 DEF Importing
  <2>3. sole[d] \in Imports =>
           \/ step'[sole[d]] = "stopped"
           \/ /\ step'[sole[d]] = step[sole[d]] /\ at'[sole[d]] = at[sole[d]]
              /\ seen'[sole[d]] = seen[sole[d]]
    BY <1>0
  <2> QED BY <2>1, <2>2, <2>3, UntouchedDoc
<1> QED BY <1>1, <1>2, <1>3 DEF StandInv

LEMMA InitStand == KnowledgeAssumption /\ Init => StandInv
<1> SUFFICES ASSUME KnowledgeAssumption, Init PROVE StandInv
  OBVIOUS
<1>1. ImportTypes
  BY DEF Init, ImportTypes, Places, IsStored, Empty
<1>2. ASSUME NEW i \in Imports PROVE PlaceInv(i)
  <2>1. step[i] = "idle" /\ at[i] = 1 /\ IsStored(seen[i]) /\ Len(Catalog[i]) \in Nat
    BY CatalogTypes DEF Init, IsStored, Empty
  <2> QED BY <2>1 DEF PlaceInv
<1>3. \A d \in Docs : DocInv(d)
  BY DEF Init, DocInv, SoleInv
<1> QED BY <1>1, <1>2, <1>3 DEF StandInv

LEMMA AlwaysStandInv == Spec => []StandInv
<1>1. Init => StandInv
  BY InitStand, KnowledgeAssumption
<1>2. StandInv /\ [Next]_vars => StandInv'
  <2> SUFFICES ASSUME StandInv, [Next]_vars PROVE StandInv'
    OBVIOUS
  <2>1. ASSUME NEW i \in Imports, ImportStep(i) PROVE StandInv'
    BY <2>1, StartKeepsStand, ReadingKeepsStand, MarkingKeepsStand, UpsertingKeepsStand,
       EndingKeepsStand, KnowledgeAssumption
    DEF ImportStep
  <2>2. ASSUME NEW s \in Searches, SearchStep(s) PROVE StandInv'
    <3>1. UNCHANGED <<at, seen, sole, store, step>>
      BY <2>2
      DEF SearchStep, StartSearch, ReadDocuments, ReadGrants, SearchDense, SearchSparse,
          FailSearch, importVars
    <3> QED BY <3>1, OthersKeepStand, KnowledgeAssumption
  <2>3. CASE Tick \/ Finished \/ UNCHANGED vars
    <3>1. UNCHANGED <<at, seen, sole, store, step>>
      BY <2>3 DEF Tick, Finished, vars, importVars
    <3> QED BY <3>1, OthersKeepStand, KnowledgeAssumption
  <2>4. CASE Restart
    BY <2>4, OthersKeepStand, KnowledgeAssumption DEF Restart
  <2> QED BY <2>1, <2>2, <2>3, <2>4 DEF Next
<1> QED BY <1>1, <1>2, PTL DEF Spec

\* container.py, ingest_demo_documents, and vector_store.py, upsert: once the last
\* import of a document to begin has completed undisturbed, exactly its chunks are active,
\* with its effective date and no principal of its ACL left out, whatever earlier imports
\* have left half done.
THEOREM AlwaysLatestImportStands == Spec => []LatestImportStands
<1>1. StandInv => LatestImportStands
  <2> SUFFICES ASSUME StandInv, NEW d \in Docs, Imported(d)
               PROVE  /\ IdsOf(sole[d], d) \subseteq DOMAIN store
                      /\ \A id \in DOMAIN store : id[1] = d /\ store[id].active =>
                            /\ id \in IdsOf(sole[d], d)
                            /\ store[id].from = RowOf(sole[d], id).from
                            /\ RowOf(sole[d], id).acl \subseteq store[id].acl
                      /\ \A id \in IdsOf(sole[d], d) : store[id].active
    BY DEF LatestImportStands
  <2>1. Stands(sole[d], d)
    BY DEF StandInv, DocInv, ReplacedBy, Imported
  <2> QED BY <2>1 DEF Stands, RowsOf
<1> QED BY <1>1, AlwaysStandInv, PTL

-----------------------------------------------------------------------------
(***************************************************************************)
(* A search is complete.  What a completed import has granted is what it   *)
(* has stored, so the documents a search lists and the filter it gives to  *)
(* Chroma leave out no chunk its principal may see.                        *)
(***************************************************************************)
\* The grants of document d are those import i has loaded for it.
GrantedBy(i, d) == \A c \in ChunksOf(i) : c.doc = d =>
    /\ grants[d].known
    /\ grants[d].from = GrantFrom(c.date) /\ grants[d].acl = c.acl

\* Import i has passed a chunk of d while it wrote grants.
Synced(i, d) ==
    \/ step[i] = "grants" /\ \E k \in 1..at[i] - 1 : Catalog[i][k].doc = d
    \/ step[i] \in {"get", "update", "upsert", "index", "done"}

GrantInv ==
    /\ DOMAIN grants = Docs
    /\ \A i \in Imports : step[i] \in {"idle", "grants"} => at[i] <= Len(Catalog[i])
    /\ \A i \in Imports : step[i] = "idle" => at[i] = 1
    /\ GrantStore => \A d \in Docs : sole[d] # NoImport /\ Synced(sole[d], d) =>
          GrantedBy(sole[d], d)

\* Nothing of a search's history is lost by a step that leaves a document alone.
LEMMA GrantsUntouched ==
    ASSUME StandInv, GrantInv, NEW d \in Docs, grants'[d] = grants[d], sole'[d] = sole[d],
           sole[d] # NoImport =>
              \/ step'[sole[d]] = "stopped"
              \/ Synced(sole[d], d)' => Synced(sole[d], d),
           GrantStore, sole'[d] # NoImport, Synced(sole[d], d)'
    PROVE  GrantedBy(sole[d], d)'
BY DEF GrantInv, GrantedBy, Synced

LEMMA SyncKeepsGrants ==
    ASSUME KnowledgeAssumption, CatalogAssumption, StandInv, GrantInv,
           NEW i \in Imports, SyncGrants(i)
    PROVE  GrantInv'
<1> DEFINE c == Catalog[i][at[i]]
<1>0. /\ ImportTypes /\ PlaceInv(i) /\ sole' = sole /\ step[i] = "grants" /\ Importing(i)
      /\ \A j \in Imports \ {i} : step'[j] = step[j] /\ at'[j] = at[j]
      /\ Len(Catalog[i]) \in Nat /\ at[i] \in Nat \ {0} /\ at[i] <= Len(Catalog[i])
      /\ \/ step'[i] = "get" /\ at'[i] = 1 /\ at[i] = Len(Catalog[i])
         \/ step'[i] = "grants" /\ at'[i] = at[i] + 1 /\ at[i] # Len(Catalog[i])
  BY CatalogTypes DEF SyncGrants, StandInv, GrantInv, ImportTypes, Importing
<1>1. at[i] \in 1..Len(Catalog[i]) /\ c \in Chunk /\ c \in ChunksOf(i) /\ c.doc \in DocsOf(i)
  BY <1>0, CatalogTypes DEF ChunksOf, DocsOf
<1>2. IF GrantStore /\ FirstOfDoc(i, at[i])
      THEN grants' = [grants EXCEPT ![c.doc] =
                         [known |-> TRUE, from |-> GrantFrom(c.date), acl |-> c.acl]]
      ELSE grants' = grants
  BY DEF SyncGrants
<1>3. DOMAIN grants' = Docs
  BY <1>2 DEF GrantInv
<1>4. ASSUME NEW j \in Imports
      PROVE  /\ step'[j] \in {"idle", "grants"} => at'[j] <= Len(Catalog[j])
             /\ step'[j] = "idle" => at'[j] = 1
  BY <1>0 DEF GrantInv
<1>5. ASSUME GrantStore, NEW d \in Docs, sole'[d] # NoImport, Synced(sole[d], d)'
      PROVE  GrantedBy(sole[d], d)'
  <2>1. CASE d \notin DocsOf(i)
    <3>1. sole[d] # i /\ sole[d] \in Imports
      BY <1>0, <1>5, <2>1 DEF StandInv, DocInv, SoleInv
    <3>2. grants'[d] = grants[d]
      BY <1>1, <1>2, <2>1 DEF GrantInv
    <3>3. Synced(sole[d], d)' => Synced(sole[d], d)
      BY <1>0, <3>1 DEF Synced
    <3> QED BY <1>0, <1>5, <3>2, <3>3, GrantsUntouched
  <2>2. CASE d \in DocsOf(i)
    <3>1. sole[d] = i
      BY <1>0, <1>5, <2>2 DEF StandInv, DocInv, SoleInv
    <3>2. CASE d = c.doc /\ FirstOfDoc(i, at[i])
      <4>1. grants'[d] = [known |-> TRUE, from |-> GrantFrom(c.date), acl |-> c.acl]
        BY <1>2, <1>5, <3>2 DEF GrantInv
      <4>2. \A e \in ChunksOf(i) : e.doc = d => e.date = c.date /\ e.acl = c.acl
        BY <1>1, <3>2, CatalogTypes DEF CatalogAssumption, ChunksOf
      <4> QED BY <1>0, <3>1, <4>1, <4>2 DEF GrantedBy
    <3>3. CASE ~(d = c.doc /\ FirstOfDoc(i, at[i]))
      <4>1. grants'[d] = grants[d]
        BY <1>1, <1>2, <3>3, KnowledgeAssumption DEF GrantInv, Chunk
      <4>2. \E k \in 1..at[i] - 1 : Catalog[i][k].doc = d
        <5>1. CASE d = c.doc
          BY <1>0, <3>3, <5>1 DEF FirstOfDoc
        <5>2. CASE d # c.doc
          <6>1. PICK k \in 1..Len(Catalog[i]) : Catalog[i][k].doc = d
            BY <2>2, CatalogTypes
          <6>2. CASE step'[i] = "get"
            BY <1>0, <5>2, <6>1, <6>2
          <6>3. CASE step'[i] = "grants"
            <7>1. PICK n \in 1..at'[i] - 1 : Catalog[i][n].doc = d
              BY <1>0, <1>5, <3>1, <6>3 DEF Synced
            <7> QED BY <1>0, <5>2, <6>3, <7>1
          <6> QED BY <1>0, <6>2, <6>3
        <5> QED BY <5>1, <5>2
      <4>3. Synced(i, d)
        BY <1>0, <4>2 DEF Synced
      <4> QED BY <1>0, <1>5, <3>1, <4>1, <4>3, GrantsUntouched
    <3> QED BY <3>2, <3>3
  <2> QED BY <2>1, <2>2
<1> QED BY <1>0, <1>3, <1>4, <1>5 DEF GrantInv

\* Every other step leaves the grants alone, and no document becomes synced by it.
LEMMA OthersKeepGrants ==
    ASSUME KnowledgeAssumption, CatalogAssumption, StandInv, GrantInv,
           \/ \E i \in Imports : ImportStep(i) /\ ~SyncGrants(i)
           \/ \E s \in Searches : SearchStep(s)
           \/ Tick \/ Restart \/ UNCHANGED vars
    PROVE  GrantInv'
<1>0. ImportTypes /\ grants' = grants
  BY DEF StandInv, ImportStep, StartImport, GetExisting, UpdateExisting, UpsertChunks,
         IndexChunks, StopImport, SearchStep, StartSearch, ReadDocuments, ReadGrants,
         SearchDense, SearchSparse, FailSearch, Tick, Restart, vars
<1>1. ASSUME \A j \in Imports : /\ step'[j] \in {"idle", "grants"} =>
                                      step'[j] = step[j] /\ at'[j] = at[j]
                                /\ \A d \in Docs : Synced(j, d)' => Synced(j, d),
             sole' = sole
      PROVE  GrantInv'
  <2>1. ASSUME NEW j \in Imports
        PROVE  /\ step'[j] \in {"idle", "grants"} => at'[j] <= Len(Catalog[j])
               /\ step'[j] = "idle" => at'[j] = 1
    BY <1>1 DEF GrantInv
  <2>2. ASSUME GrantStore, NEW d \in Docs, sole'[d] # NoImport, Synced(sole[d], d)'
        PROVE  GrantedBy(sole[d], d)'
    <3>1. sole[d] \in Imports
      BY <1>1, <2>2 DEF StandInv, DocInv, SoleInv
    <3> QED BY <1>0, <1>1, <2>2, <3>1, GrantsUntouched
  <2> QED BY <1>0, <2>1, <2>2 DEF GrantInv
<1>2. ASSUME NEW i \in Imports, StartImport(i)  PROVE GrantInv'
  <2>0. /\ step[i] = "idle" /\ step' = [step EXCEPT ![i] = "grants"] /\ at' = at
        /\ sole' = [d \in Docs |->
              IF d \notin DocsOf(i) THEN sole[d]
              ELSE IF \E j \in Imports : Importing(j) /\ d \in DocsOf(j)
              THEN NoImport ELSE i]
        /\ step'[i] = "grants" /\ \A j \in Imports \ {i} : step'[j] = step[j]
    BY <1>0, <1>2 DEF StartImport, ImportTypes
  <2>1. ASSUME NEW j \in Imports
        PROVE  /\ step'[j] \in {"idle", "grants"} => at'[j] <= Len(Catalog[j])
               /\ step'[j] = "idle" => at'[j] = 1
    BY <2>0 DEF GrantInv
  <2>2. ASSUME GrantStore, NEW d \in Docs, sole'[d] # NoImport, Synced(sole[d], d)'
        PROVE  GrantedBy(sole[d], d)'
    <3>1. CASE d \in DocsOf(i)
      <4>1. sole'[d] = i /\ at[i] = 1
        BY <2>0, <2>2, <3>1 DEF GrantInv
      <4>2. ~Synced(i, d)'
        BY <2>0, <4>1 DEF Synced
      <4> QED BY <2>2, <4>1, <4>2 DEF Synced
    <3>2. CASE d \notin DocsOf(i)
      <4>1. sole'[d] = sole[d] /\ sole[d] \in Imports /\ sole[d] # i
        BY <2>0, <2>2, <3>2 DEF StandInv, DocInv, SoleInv
      <4>2. Synced(sole[d], d)' => Synced(sole[d], d)
        BY <2>0, <4>1 DEF Synced
      <4> QED BY <1>0, <2>2, <4>1, <4>2, GrantsUntouched
    <3> QED BY <3>1, <3>2
  <2> QED BY <1>0, <2>1, <2>2 DEF GrantInv
<1>3. ASSUME NEW i \in Imports, \/ GetExisting(i) \/ UpdateExisting(i) \/ UpsertChunks(i)
                                \/ IndexChunks(i) \/ StopImport(i)
      PROVE  GrantInv'
  <2>1. /\ sole' = sole
        /\ \A j \in Imports \ {i} : step'[j] = step[j] /\ at'[j] = at[j]
        /\ \/ /\ step[i] \in {"get", "update", "upsert", "index"}
              /\ step'[i] \in {"get", "update", "upsert", "index", "done"}
           \/ step'[i] = "stopped"
    BY <1>0, <1>3
    DEF GetExisting, UpdateExisting, UpsertChunks, IndexChunks, StopImport, ImportTypes
  <2>2. \A j \in Imports : /\ step'[j] \in {"idle", "grants"} =>
                                 step'[j] = step[j] /\ at'[j] = at[j]
                           /\ \A d \in Docs : Synced(j, d)' => Synced(j, d)
    BY <2>1 DEF Synced
  <2> QED BY <1>1, <2>1, <2>2
<1>4. CASE (\E s \in Searches : SearchStep(s)) \/ Tick \/ Restart \/ UNCHANGED vars
  <2>1. /\ sole' = sole /\ at' = at
        /\ \A j \in Imports : step'[j] = step[j] \/ step'[j] = "stopped"
    BY <1>4
    DEF SearchStep, StartSearch, ReadDocuments, ReadGrants, SearchDense, SearchSparse,
        FailSearch, Tick, Restart, vars, importVars
  <2>2. \A j \in Imports : /\ step'[j] \in {"idle", "grants"} =>
                                 step'[j] = step[j] /\ at'[j] = at[j]
                           /\ \A d \in Docs : Synced(j, d)' => Synced(j, d)
    BY <2>1 DEF Synced
  <2> QED BY <1>1, <2>1, <2>2
<1> QED BY <1>2, <1>3, <1>4 DEF ImportStep

LEMMA AlwaysGrantInv == Spec => []GrantInv
<1>1. Init => GrantInv
  <2> SUFFICES ASSUME Init PROVE GrantInv
    OBVIOUS
  <2>1. ASSUME NEW i \in Imports
        PROVE  /\ step[i] \in {"idle", "grants"} => at[i] <= Len(Catalog[i])
               /\ step[i] = "idle" => at[i] = 1
    <3>1. Len(Catalog[i]) \in Nat \ {0}
      <4>1. Catalog[i] \in Seq(Chunk) /\ Catalog[i] # <<>>
        BY KnowledgeAssumption, CatalogAssumption DEF KnowledgeAssumption, CatalogAssumption
      <4> QED BY <4>1
    <3> QED BY <3>1 DEF Init
  <2> QED BY <2>1 DEF Init, GrantInv
<1>2. StandInv /\ GrantInv /\ [Next]_vars => GrantInv'
  BY SyncKeepsGrants, OthersKeepGrants, KnowledgeAssumption, CatalogAssumption
  DEF Next, ImportStep, Finished
<1> QED BY <1>1, <1>2, AlwaysStandInv, PTL DEF Spec

-----------------------------------------------------------------------------
\* Chunk id is still what search s has to find.
Due(s, id) ==
    /\ id[1] \in Docs /\ Imported(id[1])
    /\ id \in IdsOf(sole[id[1]], id[1])
    /\ asker[s] \in ChunkOf(sole[id[1]], id).acl
    /\ Effective(sole[id[1]], ChunkOf(sole[id[1]], id))

\* What a search has read so far leaves none of them out.
CompleteInv(s) ==
    /\ phase[s] # "idle" => \A id \in expected[s] : Due(s, id)
    /\ phase[s] \in {"documents", "grants"} => GrantStore
    /\ phase[s] = "grants" => \A id \in expected[s] :
          /\ id[1] \in DOMAIN listed[s]
          /\ listed[s][id[1]] = GrantFrom(ChunkOf(sole[id[1]], id).date)
    /\ phase[s] = "channels" /\ GrantStore => \A id \in expected[s] : id[1] \in allowed[s]
    /\ phase[s] \in {"idle", "documents", "grants"} => dense[s] = Pending
    /\ phase[s] = "channels" /\ dense[s] # Pending => expected[s] \subseteq dense[s]
    /\ phase[s] = "done" => expected[s] \subseteq Hits(s)

AllComplete ==
    /\ now \in Nat /\ DOMAIN expected = Searches
    /\ \A s \in Searches : CompleteInv(s)

\* The chunk a row was made from.
LEMMA ChunkOfRow ==
    ASSUME KnowledgeAssumption, NEW i \in Imports, NEW d, NEW id \in IdsOf(i, d)
    PROVE  /\ ChunkOf(i, id) \in ChunksOf(i) /\ ChunkOf(i, id) \in Chunk
           /\ ChunkOf(i, id).doc = d
           /\ RowOf(i, id).from = ChromaFrom(i, ChunkOf(i, id).date)
           /\ RowOf(i, id).acl = ChunkOf(i, id).acl
<1> DEFINE c == ChunkOf(i, id)
<1>1. \E x \in ChunksOf(i) : IdOf(x) = id
  BY DEF IdsOf
<1>2. c \in ChunksOf(i) /\ IdOf(c) = id
  BY <1>1 DEF ChunkOf
<1>3. RowOf(i, id) = Row(ChromaFrom(i, c.date), c.acl, TRUE)
  BY DEF RowOf
<1>4. id[1] = d
  BY ImportedIds
<1> HIDE DEF c
<1>5. c \in Chunk /\ c.doc = d
  BY <1>2, <1>4, CatalogTypes
<1> QED BY <1>2, <1>3, <1>5 DEF Row, c

\* The grants of a document say what its chunks say.
LEMMA GrantsOfRow ==
    ASSUME KnowledgeAssumption, StandInv, GrantInv, GrantStore, NEW s, NEW id, Due(s, id)
    PROVE  /\ grants[id[1]].known
           /\ grants[id[1]].from = GrantFrom(ChunkOf(sole[id[1]], id).date)
           /\ grants[id[1]].acl = ChunkOf(sole[id[1]], id).acl
<1> DEFINE d == id[1]
           i == sole[d]
<1>1. d \in Docs /\ sole[d] # NoImport /\ step[i] = "done" /\ id \in IdsOf(i, d)
  BY DEF Due, Imported
<1>2. i \in Imports
  BY <1>1 DEF StandInv, DocInv, SoleInv
<1>3. ChunkOf(i, id) \in ChunksOf(i) /\ ChunkOf(i, id).doc = d
  BY <1>1, <1>2, ChunkOfRow
<1>4. GrantedBy(i, d)
  BY <1>1 DEF GrantInv, Synced
<1> QED BY <1>3, <1>4 DEF GrantedBy

\* Chroma returns it.
LEMMA DenseFinds ==
    ASSUME KnowledgeAssumption, StandInv, NEW s, NEW id, Due(s, id), NEW docs,
           GrantStore => id[1] \in docs
    PROVE  id \in DenseHits(asker[s], docs)
<1> DEFINE d == id[1]
           i == sole[d]
<1>1. d \in Docs /\ sole[d] # NoImport /\ step[i] = "done" /\ id \in IdsOf(i, d)
  BY DEF Due, Imported
<1>2. Stands(i, d)
  BY <1>1 DEF StandInv, DocInv, ReplacedBy
<1>3. id \in RowsOf(d) /\ store[id].active
  BY <1>1, <1>2 DEF Stands, RowsOf
<1>4. store[id].from = RowOf(i, id).from /\ RowOf(i, id).acl \subseteq store[id].acl
  BY <1>2, <1>3 DEF Stands
<1>5. i \in Imports
  BY <1>1 DEF StandInv, DocInv, SoleInv
<1>6. /\ RowOf(i, id).from = ChromaFrom(i, ChunkOf(i, id).date)
      /\ RowOf(i, id).acl = ChunkOf(i, id).acl
  BY <1>1, <1>5, ChunkOfRow
<1>7. asker[s] \in ChunkOf(i, id).acl /\ ChromaFrom(i, ChunkOf(i, id).date) <= now
  BY DEF Due, Effective
<1>8. store[id].from <= now /\ asker[s] \in store[id].acl
  BY <1>4, <1>6, <1>7
<1> QED BY <1>3, <1>8 DEF DenseHits, RowsOf

\* It stays due unless its document is imported again.
LEMMA DueStays ==
    ASSUME NEW s, NEW id, Due(s, id), asker' = asker, sole'[id[1]] = sole[id[1]],
           step[sole[id[1]]] = "done" => step'[sole[id[1]]] = "done",
           \/ now' = now
           \/ /\ now \in Nat /\ now' = now + 1
              /\ ChromaFrom(sole[id[1]], ChunkOf(sole[id[1]], id).date) \in Int
              /\ GrantFrom(ChunkOf(sole[id[1]], id).date) \in Int
    PROVE  Due(s, id)'
<1> DEFINE c == ChunkOf(sole[id[1]], id)
           chroma == ChromaFrom(sole[id[1]], c.date)
           granted == GrantFrom(c.date)
<1>1. chroma <= now /\ (GrantStore => granted <= now)
  BY DEF Due, Effective
<1> HIDE DEF chroma, granted
<1>2. chroma <= now' /\ (GrantStore => granted <= now')
  BY <1>1 DEF chroma, granted
<1>3. Effective(sole[id[1]], c)'
  BY <1>2 DEF Effective, chroma, granted
<1> QED BY <1>3 DEF Due, Imported

\* A step that leaves a search alone leaves it complete.
LEMMA SearchUntouched ==
    ASSUME NEW s \in Searches, CompleteInv(s),
           phase'[s] = phase[s] \/ (phase[s] # "idle" /\ phase'[s] = "failed"),
           expected'[s] \subseteq expected[s], allowed'[s] = allowed[s],
           listed'[s] = listed[s], dense'[s] = dense[s], answers'[s] = answers[s],
           \A id \in expected'[s] :
               (phase[s] # "idle" => Due(s, id)') /\ sole'[id[1]] = sole[id[1]]
    PROVE  CompleteInv(s)'
BY DEF CompleteInv, Hits

\* Imports leave searches alone; one that begins takes its documents out of them.
LEMMA ImportsKeepComplete ==
    ASSUME StandInv, AllComplete, NEW i \in Imports, ImportStep(i)
    PROVE  AllComplete'
<1>0. /\ UNCHANGED <<now, searchVars>> /\ ImportTypes
      /\ expected' = expected \/ StartImport(i)
  BY DEF ImportStep, StartImport, SyncGrants, GetExisting, UpdateExisting, UpsertChunks,
         IndexChunks, StopImport, StandInv
<1>1. CASE StartImport(i)
  <2>1. /\ step[i] = "idle" /\ step' = [step EXCEPT ![i] = "grants"]
        /\ sole' = [d \in Docs |->
              IF d \notin DocsOf(i) THEN sole[d]
              ELSE IF \E j \in Imports : Importing(j) /\ d \in DocsOf(j)
              THEN NoImport ELSE i]
        /\ expected' = [s \in Searches |-> {id \in expected[s] : id[1] \notin DocsOf(i)}]
    BY <1>1 DEF StartImport
  <2>2. ASSUME NEW s \in Searches PROVE CompleteInv(s)'
    <3>1. \A id \in expected'[s] : id \in expected[s] /\ id[1] \notin DocsOf(i)
      BY <2>1
    <3>2. CASE phase[s] # "idle"
      <4>1. ASSUME NEW id \in expected'[s]
            PROVE  Due(s, id)' /\ sole'[id[1]] = sole[id[1]]
        <5>1. Due(s, id) /\ id[1] \in Docs
          BY <3>1, <3>2 DEF AllComplete, CompleteInv, Due
        <5>2. sole'[id[1]] = sole[id[1]]
          BY <2>1, <3>1, <5>1
        <5>3. step[sole[id[1]]] = "done" => step'[sole[id[1]]] = "done"
          BY <1>0, <2>1 DEF ImportTypes
        <5> QED BY <1>0, <5>1, <5>2, <5>3, DueStays DEF searchVars
      <4> QED BY <1>0, <3>1, <4>1, SearchUntouched DEF AllComplete, searchVars
    <3>3. CASE phase[s] = "idle"
      BY <1>0, <3>3 DEF AllComplete, CompleteInv, Hits, searchVars
    <3> QED BY <3>2, <3>3
  <2> QED BY <1>0, <2>1, <2>2 DEF AllComplete
<1>2. CASE expected' = expected /\ ~StartImport(i)
  <2>1. sole' = sole /\ \A j \in Imports : step[j] = "done" => step'[j] = "done"
    BY <1>0, <1>2
    DEF ImportStep, SyncGrants, GetExisting, UpdateExisting, UpsertChunks, IndexChunks,
        StopImport, Importing, ImportTypes
  <2>2. ASSUME NEW s \in Searches PROVE CompleteInv(s)'
    <3>1. ASSUME NEW id \in expected[s], Due(s, id) PROVE Due(s, id)'
      <4>1. sole[id[1]] \in Imports
        BY <3>1 DEF StandInv, DocInv, SoleInv, Due, Imported
      <4> QED BY <1>0, <2>1, <3>1, <4>1, DueStays DEF searchVars
    <3>2. \A id \in expected'[s] :
              (phase[s] # "idle" => Due(s, id)') /\ sole'[id[1]] = sole[id[1]]
      BY <1>2, <2>1, <3>1 DEF AllComplete, CompleteInv
    <3> QED BY <1>0, <1>2, <3>2, SearchUntouched DEF AllComplete, searchVars
  <2> QED BY <1>0, <1>2, <2>2 DEF AllComplete
<1> QED BY <1>0, <1>1, <1>2

\* The clock only makes more documents effective, a restart fails the searches under way.
LEMMA OthersKeepComplete ==
    ASSUME KnowledgeAssumption, StandInv, AllComplete, DOMAIN phase = Searches,
           Tick \/ Restart \/ UNCHANGED vars
    PROVE  AllComplete'
<1>0. /\ UNCHANGED <<expected, asker, listed, allowed, dense, answers, sole>> /\ now \in Nat
      /\ now' = now \/ now' = now + 1
      /\ \A s \in Searches :
             phase'[s] = phase[s] \/ (phase[s] # "idle" /\ phase'[s] = "failed")
      /\ \A j \in Imports : step[j] = "done" => step'[j] = "done"
  BY DEF Tick, Restart, vars, importVars, searchVars, Importing, AllComplete
<1>1. ASSUME NEW s \in Searches PROVE CompleteInv(s)'
  <2>1. ASSUME NEW id \in expected[s], Due(s, id) PROVE Due(s, id)'
    <3>1. /\ sole[id[1]] \in Imports /\ id \in IdsOf(sole[id[1]], id[1])
      BY <2>1 DEF StandInv, DocInv, SoleInv, Due, Imported
    <3> DEFINE c == ChunkOf(sole[id[1]], id)
    <3>2. c \in Chunk
      BY <3>1, ChunkOfRow
    <3>3. ChromaFrom(sole[id[1]], c.date) \in Int /\ GrantFrom(c.date) \in Int
      BY <3>1, <3>2, KnowledgeAssumption
      DEF KnowledgeAssumption, ChromaFrom, GrantFrom, Chunk, Date
    <3> QED BY <1>0, <2>1, <3>1, <3>3, DueStays
  <2>2. \A id \in expected'[s] :
            (phase[s] # "idle" => Due(s, id)') /\ sole'[id[1]] = sole[id[1]]
    BY <1>0, <2>1 DEF AllComplete, CompleteInv
  <2> QED BY <1>0, <2>2, SearchUntouched DEF AllComplete
<1>2. now' \in Nat /\ DOMAIN expected' = Searches
  BY <1>0 DEF AllComplete
<1> QED BY <1>1, <1>2 DEF AllComplete

\* Each step of a search.
LEMMA SearchesKeepComplete ==
    ASSUME KnowledgeAssumption, StandInv, GrantInv, Domains, AllComplete,
           NEW s \in Searches, SearchStep(s)
    PROVE  AllComplete'
<1>0. UNCHANGED <<now, grants, store, importVars, asker, sole>> /\ CompleteInv(s)
  BY DEF SearchStep, StartSearch, ReadDocuments, ReadGrants, SearchDense, SearchSparse,
         FailSearch, AllComplete
<1>1. \A id : Due(s, id)' <=> Due(s, id)
  BY <1>0 DEF Due, Imported, Effective, importVars
<1>2. DOMAIN expected' = Searches
  BY DEF SearchStep, StartSearch, ReadDocuments, ReadGrants, SearchDense, SearchSparse,
         FailSearch, AllComplete
<1>3. ASSUME NEW q \in Searches \ {s} PROVE CompleteInv(q)'
  <2>1. /\ phase'[q] = phase[q] /\ expected'[q] = expected[q] /\ listed'[q] = listed[q]
        /\ allowed'[q] = allowed[q] /\ dense'[q] = dense[q] /\ answers'[q] = answers[q]
    BY DEF SearchStep, StartSearch, ReadDocuments, ReadGrants, SearchDense, SearchSparse,
           FailSearch, Domains, AllComplete
  <2>2. \A id : Due(q, id)' <=> Due(q, id)
    BY <1>0 DEF Due, Imported, Effective, importVars
  <2>3. \A id \in expected'[q] :
            (phase[q] # "idle" => Due(q, id)') /\ sole'[id[1]] = sole[id[1]]
    BY <1>0, <2>1, <2>2 DEF AllComplete, CompleteInv
  <2> QED BY <2>1, <2>3, SearchUntouched DEF AllComplete
<1>4. CompleteInv(s)'
  <2>1. CASE StartSearch(s)
    <3>1. /\ expected'[s] = Findable(asker[s]) /\ dense'[s] = dense[s] /\ dense[s] = Pending
          /\ phase'[s] = IF GrantStore THEN "documents" ELSE "channels"
      BY <1>0, <2>1 DEF StartSearch, CompleteInv, AllComplete, Domains
    <3>2. ASSUME NEW id \in Findable(asker[s]) PROVE Due(s, id)
      <4>1. PICK d \in {x \in Docs : Imported(x)} : id \in IdsOf(sole[d], d)
        BY DEF Findable
      <4>2. id[1] = d
        <5>1. sole[d] \in Imports
          BY <4>1 DEF StandInv, DocInv, SoleInv, Imported
        <5> QED BY <4>1, <5>1, ImportedIds
      <4>3. Effective(sole[d], ChunkOf(sole[d], id)) /\ asker[s] \in ChunkOf(sole[d], id).acl
        BY <4>2 DEF Findable
      <4> QED BY <4>1, <4>2, <4>3 DEF Due
    <3> QED BY <1>1, <3>1, <3>2 DEF CompleteInv
  <2>2. CASE ReadDocuments(s)
    <3>1. /\ phase[s] = "documents" /\ phase'[s] = "grants" /\ dense' = dense
          /\ expected' = expected /\ allowed' = allowed
          /\ listed'[s] = [d \in {x \in Docs : grants[x].known} |-> grants[d].from]
      BY <2>2 DEF ReadDocuments, Domains
    <3>2. GrantStore /\ \A id \in expected[s] : Due(s, id)
      BY <1>0, <3>1 DEF CompleteInv
    <3>3. ASSUME NEW id \in expected[s]
          PROVE  /\ id[1] \in DOMAIN listed'[s]
                 /\ listed'[s][id[1]] = GrantFrom(ChunkOf(sole[id[1]], id).date)
      <4>1. id[1] \in Docs
        BY <3>2 DEF Due
      <4> QED BY <3>1, <3>2, <4>1, GrantsOfRow
    <3> QED BY <1>0, <1>1, <3>1, <3>2, <3>3 DEF CompleteInv
  <2>3. CASE ReadGrants(s)
    <3> DEFINE visible == {d \in DOMAIN listed[s] :
                              listed[s][d] <= now /\ asker[s] \in grants[d].acl}
    <3>1. /\ phase[s] = "grants" /\ expected' = expected /\ listed' = listed
          /\ allowed'[s] = visible
          /\ phase'[s] = IF visible = {} THEN "done" ELSE "channels"
          /\ dense' = dense
      BY <2>3 DEF ReadGrants, Domains
    <3>2. GrantStore /\ dense[s] = Pending /\ \A id \in expected[s] : Due(s, id)
      BY <1>0, <3>1 DEF CompleteInv
    <3>3. ASSUME NEW id \in expected[s] PROVE id[1] \in visible
      <4>1. /\ id[1] \in DOMAIN listed[s]
            /\ listed[s][id[1]] = GrantFrom(ChunkOf(sole[id[1]], id).date)
        BY <1>0, <3>1 DEF CompleteInv
      <4>2. Due(s, id) /\ grants[id[1]].acl = ChunkOf(sole[id[1]], id).acl
        BY <3>2, GrantsOfRow
      <4> QED BY <3>2, <4>1, <4>2 DEF Due, Effective
    <3> HIDE DEF visible
    <3>4. \A id \in expected'[s] : Due(s, id)'
      BY <1>1, <3>1, <3>2
    <3>5. CASE visible = {}
      BY <3>1, <3>3, <3>4, <3>5 DEF CompleteInv
    <3>6. CASE visible # {}
      BY <3>1, <3>2, <3>3, <3>4, <3>6 DEF CompleteInv
    <3> QED BY <3>5, <3>6
  <2>4. CASE SearchDense(s)
    <3>1. /\ phase[s] = "channels" /\ UNCHANGED <<phase, expected, listed, allowed>>
          /\ dense'[s] = DenseHits(asker[s], allowed[s])
      BY <2>4 DEF SearchDense, Domains
    <3>2. \A id \in expected[s] : Due(s, id) /\ (GrantStore => id[1] \in allowed[s])
      BY <1>0, <3>1 DEF CompleteInv
    <3>3. expected[s] \subseteq dense'[s]
      BY <3>1, <3>2, DenseFinds
    <3> QED BY <1>0, <1>1, <3>1, <3>2, <3>3 DEF CompleteInv
  <2>5. CASE SearchSparse(s)
    <3> DEFINE new == [dense |-> dense[s], sparse |-> SparseHits(asker[s], allowed[s])]
    <3>1. /\ phase[s] = "channels" /\ dense[s] # Pending /\ phase'[s] \in {"channels", "done"}
          /\ dense'[s] = Pending /\ answers'[s] = answers[s] \cup {new}
          /\ UNCHANGED <<expected, listed, allowed>>
      BY <2>5 DEF SearchSparse, Asking, Domains
    <3>2. expected[s] \subseteq new.dense
      BY <1>0, <3>1 DEF CompleteInv
    <3> HIDE DEF new
    <3>3. expected'[s] \subseteq Hits(s)'
      BY <3>1, <3>2 DEF Hits
    <3> QED BY <1>0, <1>1, <3>1, <3>3 DEF CompleteInv
  <2>6. CASE FailSearch(s)
    <3>1. /\ phase[s] # "idle" /\ phase'[s] = "failed"
          /\ UNCHANGED <<expected, listed, allowed, dense, answers>>
      BY <2>6 DEF FailSearch, Domains
    <3> QED BY <1>0, <1>1, <3>1 DEF CompleteInv
  <2> QED BY <2>1, <2>2, <2>3, <2>4, <2>5, <2>6 DEF SearchStep
<1> QED BY <1>0, <1>2, <1>3, <1>4 DEF AllComplete

\* retrieval.py, HybridRetriever.search: a search finds every chunk of a completed import
\* that its principal may see and that is effective by what both stores make of its date,
\* unless the document is imported again meanwhile: the filters of the two stores together
\* are not stricter than the ACL of the catalogue and these two dates.
THEOREM AlwaysSearchComplete == Spec => []SearchComplete
<1>1. Init => AllComplete
  BY DEF Init, AllComplete, CompleteInv
<1>2. StandInv /\ GrantInv /\ EntitledInv /\ AllComplete /\ [Next]_vars => AllComplete'
  <2>1. EntitledInv => Domains
    BY DEF EntitledInv
  <2> QED
    BY <2>1, ImportsKeepComplete, OthersKeepComplete, SearchesKeepComplete,
       KnowledgeAssumption
    DEF Next, Finished, Domains
<1>3. AllComplete => SearchComplete
  BY DEF AllComplete, CompleteInv, SearchComplete
<1> QED
  BY <1>1, <1>2, <1>3, AlwaysStandInv, AlwaysGrantInv, AlwaysEntitledInv, PTL DEF Spec

-----------------------------------------------------------------------------
(***************************************************************************)
(* Imports in the process that searches.  The index follows them, and from *)
(* its first read of the store to its end an import has the process to     *)
(* itself, so at no moment are two versions of a document active.          *)
(***************************************************************************)
IndexInv ==
    /\ restarts \in Nat
    /\ restarts = 0 => \A d \in Docs : Imported(d) => IdsOf(sole[d], d) \subseteq DOMAIN index

\* retrieval.py, BM25LexicalRetriever: where every import runs in the searching process, its
\* index holds all chunks of a completed import until that process restarts.
THEOREM AlwaysLexicalFollowsImport ==
    ASSUME InServer = Imports
    PROVE  Spec => []LexicalFollowsImport
<1>1. Init => IndexInv
  BY DEF Init, IndexInv, Imported
<1>2. StandInv /\ IndexInv /\ [Next]_vars => IndexInv'
  <2> SUFFICES ASSUME StandInv, IndexInv, [Next]_vars PROVE IndexInv'
    OBVIOUS
  <2>0. ImportTypes
    BY DEF StandInv
  <2>1. ASSUME NEW i \in Imports, IndexChunks(i) PROVE IndexInv'
    <3>1. /\ step[i] = "index" /\ step' = [step EXCEPT ![i] = "done"] /\ index' = Indexed(i)
          /\ UNCHANGED <<restarts, sole>> /\ Importing(i)
      BY <2>1 DEF IndexChunks, Importing
    <3>2. ASSUME restarts = 0, NEW d \in Docs, Imported(d)'
          PROVE  IdsOf(sole[d], d) \subseteq DOMAIN index'
      <4>1. sole[d] # NoImport /\ sole[d] \in Imports
        BY <3>1, <3>2 DEF Imported, StandInv, DocInv, SoleInv
      <4>2. CASE sole[d] = i
        BY <3>1, <4>1, <4>2, ImportedIds, KnowledgeAssumption DEF Indexed
      <4>3. CASE sole[d] # i
        <5>1. d \notin DocsOf(i)
          BY <3>1, <4>1, <4>3 DEF StandInv, DocInv, SoleInv
        <5>2. Imported(d)
          BY <2>0, <3>1, <3>2, <4>1, <4>3 DEF Imported, ImportTypes
        <5>3. \A id \in IdsOf(sole[d], d) : id \in DOMAIN index /\ id[1] = d
          BY <3>2, <4>1, <5>2, ImportedIds, KnowledgeAssumption DEF IndexInv
        <5> QED BY <3>1, <5>1, <5>3 DEF Indexed
      <4> QED BY <4>2, <4>3
    <3> QED BY <3>1, <3>2 DEF IndexInv
  <2>2. ASSUME NEW i \in Imports, StartImport(i) PROVE IndexInv'
    <3>1. /\ step[i] = "idle" /\ step' = [step EXCEPT ![i] = "grants"]
          /\ UNCHANGED <<restarts, index>>
          /\ sole' = [d \in Docs |->
                IF d \notin DocsOf(i) THEN sole[d]
                ELSE IF \E j \in Imports : Importing(j) /\ d \in DocsOf(j)
                THEN NoImport ELSE i]
      BY <2>2 DEF StartImport
    <3>2. ASSUME NEW d \in Docs, Imported(d)'  PROVE Imported(d) /\ sole'[d] = sole[d]
      <4>1. step'[i] = "grants" /\ sole'[d] # i
        BY <2>0, <3>1, <3>2 DEF Imported, ImportTypes
      <4>2. sole'[d] = sole[d] /\ sole[d] \in Imports
        BY <3>1, <3>2, <4>1 DEF Imported, StandInv, DocInv, SoleInv
      <4> QED BY <2>0, <3>1, <3>2, <4>1, <4>2 DEF Imported, ImportTypes
    <3> QED BY <3>1, <3>2 DEF IndexInv
  <2>3. ASSUME UNCHANGED <<restarts, index, sole>>,
               \A j \in Imports : step'[j] = "done" => step[j] = "done"
        PROVE  IndexInv'
    <3>1. ASSUME NEW d \in Docs, Imported(d)'  PROVE Imported(d) /\ sole'[d] = sole[d]
      BY <2>3, <3>1 DEF Imported, StandInv, DocInv, SoleInv
    <3> QED BY <2>3, <3>1 DEF IndexInv
  <2>4. ASSUME NEW i \in Imports, \/ SyncGrants(i) \/ GetExisting(i) \/ UpdateExisting(i)
                                  \/ UpsertChunks(i) \/ StopImport(i)
        PROVE  IndexInv'
    <3>1. /\ UNCHANGED <<restarts, index, sole>>
          /\ \A j \in Imports : step'[j] = "done" => step[j] = "done"
      BY <2>0, <2>4
      DEF SyncGrants, GetExisting, UpdateExisting, UpsertChunks, StopImport, ImportTypes
    <3> QED BY <2>3, <3>1
  <2>5. CASE (\E s \in Searches : SearchStep(s)) \/ Tick \/ Finished \/ UNCHANGED vars
    <3>1. UNCHANGED <<restarts, index, sole, step>>
      BY <2>5
      DEF SearchStep, StartSearch, ReadDocuments, ReadGrants, SearchDense, SearchSparse,
          FailSearch, Tick, Finished, vars, importVars
    <3> QED BY <2>3, <3>1
  <2>6. CASE Restart
    <3>1. restarts' \in Nat /\ restarts' # 0
      BY <2>6 DEF Restart, IndexInv
    <3> QED BY <3>1 DEF IndexInv
  <2> QED BY <2>1, <2>2, <2>4, <2>5, <2>6 DEF Next, ImportStep
<1>3. StandInv /\ IndexInv => LexicalFollowsImport
  BY DEF IndexInv, LexicalFollowsImport
<1> QED BY <1>1, <1>2, <1>3, AlwaysStandInv, PTL DEF Spec
-----------------------------------------------------------------------------
\* No two versions of a document are active; the index has one, the active one unless
\* import i is about to replace it there.
OneActive == \A x, y \in DOMAIN store :
    x[1] = y[1] /\ store[x].active /\ store[y].active => x[2] = y[2]

IndexAgrees == \A x \in DOMAIN index :
    /\ \A y \in DOMAIN index : x[1] = y[1] => x[2] = y[2]
    /\ (\A i \in Imports : step[i] = "index" => x[1] \notin DocsOf(i)) =>
          \A y \in DOMAIN store : x[1] = y[1] /\ store[y].active => x[2] = y[2]

\* The version of hit x is the one of its document in both channels.
Current(x) ==
    /\ \A y \in DOMAIN index : y[1] = x[1] => y[2] = x[2]
    /\ \A y \in DOMAIN store : y[1] = x[1] /\ store[y].active => y[2] = x[2]

\* The searches between two queries have it that import i has written its documents.
Recorded(i) == \A s \in Searches :
    phase[s] = "channels" /\ answers[s] # {} => DocsOf(i) \subseteq revised[s]

\* What import i has done to the rows it replaces since it has had the process to itself.
HoldInv(i) ==
    /\ HoldsLoop(i) => /\ \A j \in Imports \ {i} : ~HoldsLoop(j)
                       /\ \A s \in Searches : ~Asking(s)
    /\ \A d \in DocsOf(i) : Handled(i, d) => \A id \in RowsOf(d) : ~store[id].active
    /\ step[i] = "update" => RowsOf(DocAt(i)) \subseteq DOMAIN seen[i]
    /\ step[i] = "index" => \A id \in DOMAIN store :
          id[1] \in DocsOf(i) /\ store[id].active => id \in {IdOf(c) : c \in ChunksOf(i)}
    /\ step[i] = "index" => Recorded(i)

\* What a search has from the first channel is still active when it asks the second, each
\* query has brought one version of a document, and what it has brought is current until
\* the document is written anew.
AskInv(s) ==
    /\ phase[s] \in {"idle", "documents", "grants"} => dense[s] = Pending /\ answers[s] = {}
    /\ Asking(s) => \A id \in dense[s] : id \in DOMAIN store /\ store[id].active
    /\ \A a \in answers[s] : \A x, y \in a.dense \cup a.sparse : x[1] = y[1] => x[2] = y[2]
    /\ phase[s] = "channels" => \A x \in Hits(s) : x[1] \in revised[s] \/ Current(x)
    /\ \A x, y \in Hits(s) : x[1] = y[1] /\ x[2] # y[2] => x[1] \in revised[s]

VersionInv ==
    /\ OneActive /\ IndexAgrees /\ DOMAIN revised = Searches
    /\ \A i \in Imports : HoldInv(i)
    /\ \A s \in Searches : AskInv(s)

\* The chunks an import has loaded for a document are of one version.
LEMMA OneVersionLoaded ==
    ASSUME KnowledgeAssumption, CatalogAssumption, NEW i \in Imports,
           NEW x \in {IdOf(c) : c \in ChunksOf(i)}, NEW y \in {IdOf(c) : c \in ChunksOf(i)},
           x[1] = y[1]
    PROVE  x[2] = y[2]
<1>1. PICK k \in DOMAIN Catalog[i], n \in DOMAIN Catalog[i] :
          x = IdOf(Catalog[i][k]) /\ y = IdOf(Catalog[i][n])
  BY DEF ChunksOf
<1>2. /\ x[1] = Catalog[i][k].doc /\ x[2] = Catalog[i][k].version
      /\ y[1] = Catalog[i][n].doc /\ y[2] = Catalog[i][n].version
  BY <1>1 DEF IdOf
<1>3. /\ Catalog[i][k].doc = Catalog[i][n].doc
      /\ Catalog[i][k].doc = Catalog[i][n].doc => Catalog[i][k].version = Catalog[i][n].version
  BY <1>2 DEF CatalogAssumption
<1> QED BY <1>2, <1>3

\* In the searching process nobody else is in the middle of something while an import steps.
LEMMA ImportsAlone ==
    ASSUME InServer = Imports, VersionInv, NEW i \in Imports, ImportStep(i)
    PROVE  /\ \A j \in Imports \ {i} : ~HoldsLoop(j)
           /\ \A s \in Searches : ~Asking(s)
<1>1. HoldsLoop(i) \/ ImportMayRun(i)
  BY DEF ImportStep, StartImport, SyncGrants, GetExisting, UpdateExisting, UpsertChunks,
         IndexChunks, StopImport, HoldsLoop
<1> QED BY <1>1 DEF ImportMayRun, VersionInv, HoldInv

\* A step of an import leaves the searches as they are, and the other imports hold nothing.
LEMMA ImportKeepsVersion ==
    ASSUME InServer = Imports, ImportTypes, ImportTypes', VersionInv,
           NEW i \in Imports, ImportStep(i), OneActive', IndexAgrees',
           \A d \in DocsOf(i) : Handled(i, d)' => \A id \in RowsOf(d)' : ~store'[id].active,
           step'[i] = "update" => RowsOf(DocAt(i))' \subseteq DOMAIN seen'[i],
           step'[i] = "index" => \A id \in DOMAIN store' :
              id[1] \in DocsOf(i) /\ store'[id].active => id \in {IdOf(c) : c \in ChunksOf(i)},
           step'[i] = "index" => Recorded(i)',
           DOMAIN revised' = Searches,
           \A s \in Searches : revised[s] \subseteq revised'[s],
           \A s \in Searches : phase[s] = "channels" => \A x \in Hits(s) :
              Current(x) => x[1] \in revised'[s] \/ Current(x)'
    PROVE  VersionInv'
<1>0. /\ UNCHANGED searchVars
      /\ \A j \in Imports \ {i} : step'[j] = step[j] /\ at'[j] = at[j]
  BY DEF ImportStep, StartImport, SyncGrants, GetExisting, UpdateExisting, UpsertChunks,
         IndexChunks, StopImport, ImportTypes, searchVars
<1>1. \A j \in Imports \ {i} : ~HoldsLoop(j)'
  BY <1>0, ImportsAlone DEF HoldsLoop
<1>2. \A s \in Searches : ~Asking(s) /\ ~Asking(s)'
  BY <1>0, ImportsAlone DEF Asking, searchVars
<1>3. ASSUME NEW j \in Imports \ {i} PROVE HoldInv(j)'
  <2>1. /\ step'[j] \notin {"update", "upsert", "index"}
        /\ step'[j] = "get" => ~(at'[j] > 1)
    BY <1>1, <1>3 DEF HoldsLoop
  <2>2. at'[j] \in Nat \ {0}
    BY DEF ImportTypes
  <2>3. step'[j] = "get" => 1..at'[j] - 1 = {}
    BY <2>1, <2>2
  <2> QED BY <1>1, <2>1, <2>3 DEF HoldInv, Handled
<1>4. HoldInv(i)'
  BY <1>1, <1>2 DEF HoldInv
<1>5. ASSUME NEW s \in Searches PROVE AskInv(s)'
  <2>1. AskInv(s) /\ ~Asking(s)' /\ Hits(s)' = Hits(s) /\ revised[s] \subseteq revised'[s]
        /\ UNCHANGED <<phase, dense, answers>>
    BY <1>0, <1>2 DEF VersionInv, Hits, searchVars
  <2>2. phase[s] = "channels" => \A x \in Hits(s) : x[1] \in revised'[s] \/ Current(x)'
    BY <2>1 DEF AskInv
  <2> QED BY <2>1, <2>2 DEF AskInv
<1> QED BY <1>3, <1>4, <1>5 DEF VersionInv


\* Steps that write neither store.
LEMMA UnwrittenVersions ==
    ASSUME OneActive, IndexAgrees, store' = store, index' = index \/ index' = Empty,
           \A j \in Imports : step[j] = "index" => step'[j] = "index" \/ index' = Empty
    PROVE  OneActive' /\ IndexAgrees'
<1>1. OneActive'
  BY DEF OneActive
<1>2. CASE index' = Empty
  <2>1. DOMAIN index' = {}
    BY <1>2 DEF Empty
  <2> QED BY <1>1, <2>1 DEF IndexAgrees
<1>3. CASE index' = index /\ index' # Empty
  <2>1. \A j \in Imports : step[j] = "index" => step'[j] = "index"
    BY <1>3
  <2> QED BY <1>1, <1>3, <2>1 DEF IndexAgrees
<1> QED BY <1>1, <1>2, <1>3

LEMMA ReadingKeepsVersion ==
    ASSUME KnowledgeAssumption, InServer = Imports, StandInv, StandInv', VersionInv,
           NEW i \in Imports,
           StartImport(i) \/ SyncGrants(i) \/ GetExisting(i) \/ StopImport(i)
    PROVE  VersionInv'
<1>0. /\ ImportTypes /\ ImportTypes' /\ HoldInv(i) /\ OneActive /\ IndexAgrees
      /\ UNCHANGED <<store, index>> /\ ImportStep(i)
      /\ \A j \in Imports \ {i} : step'[j] = step[j]
  BY DEF StandInv, VersionInv, ImportStep, StartImport, SyncGrants, GetExisting, StopImport,
         ImportTypes
<1>1. step[i] # "index" /\ step'[i] # "index"
  BY <1>0 DEF StartImport, SyncGrants, GetExisting, StopImport, ImportTypes
<1>2. OneActive' /\ IndexAgrees'
  BY <1>0, <1>1, UnwrittenVersions
<1>5. /\ DOMAIN revised' = Searches
      /\ \A s \in Searches : revised[s] \subseteq revised'[s]
      /\ \A s \in Searches : phase[s] = "channels" => \A x \in Hits(s) :
            Current(x) => x[1] \in revised'[s] \/ Current(x)'
  <2>1. revised' = revised
    BY DEF StartImport, SyncGrants, GetExisting, StopImport
  <2> QED BY <1>0, <2>1 DEF Current, VersionInv
<1>3. CASE GetExisting(i)
  <2>1. /\ step[i] = "get" /\ step'[i] = "update" /\ at'[i] = at[i]
        /\ seen'[i] = [id \in {x \in DOMAIN store : x[1] = DocAt(i)} |-> store[id]]
    BY <1>0, <1>3 DEF GetExisting, ImportTypes, DocAt
  <2>2. \A d \in DocsOf(i) : Handled(i, d)' => \A id \in RowsOf(d)' : ~store'[id].active
    BY <1>0, <2>1 DEF Handled, HoldInv, RowsOf
  <2>3. RowsOf(DocAt(i))' \subseteq DOMAIN seen'[i]
    BY <1>0, <2>1 DEF RowsOf, DocAt
  <2> QED BY <1>0, <1>1, <1>2, <1>5, <2>2, <2>3, ImportKeepsVersion
<1>4. CASE ~GetExisting(i)
  <2>1. \/ step'[i] \in {"grants", "stopped"}
        \/ step'[i] = "get" /\ at'[i] = 1
    BY <1>0, <1>4 DEF StartImport, SyncGrants, StopImport, ImportTypes
  <2>2. \A d \in DocsOf(i) : ~Handled(i, d)'
    BY <2>1 DEF Handled
  <2>3. step'[i] # "update"
    BY <2>1
  <2> QED BY <1>0, <1>1, <1>2, <1>5, <2>2, <2>3, ImportKeepsVersion
<1> QED BY <1>3, <1>4

LEMMA MarkingKeepsVersion ==
    ASSUME KnowledgeAssumption, InServer = Imports, StandInv, StandInv', VersionInv,
           NEW i \in Imports, UpdateExisting(i)
    PROVE  VersionInv'
<1>0. /\ ImportTypes /\ ImportTypes' /\ PlaceInv(i) /\ HoldInv(i) /\ OneActive /\ IndexAgrees
      /\ ImportStep(i) /\ step[i] = "update" /\ store' = Marked(seen[i]) /\ index' = index
      /\ \A j \in Imports \ {i} : step'[j] = step[j]
      /\ Len(Catalog[i]) \in Nat /\ at[i] \in 1..Len(Catalog[i])
      /\ \/ step'[i] = "upsert" /\ at'[i] = 1 /\ at[i] = Len(Catalog[i])
         \/ step'[i] = "get" /\ at'[i] = at[i] + 1 /\ at[i] < Len(Catalog[i])
  BY CatalogTypes
  DEF UpdateExisting, StandInv, VersionInv, ImportTypes, PlaceInv, ImportStep
<1>1. /\ DOMAIN store' = DOMAIN store
      /\ \A id \in DOMAIN store :
            /\ id \in DOMAIN seen[i] => store'[id] = [seen[i][id] EXCEPT !.active = FALSE]
            /\ id \notin DOMAIN seen[i] => store'[id] = store[id]
  BY <1>0 DEF Marked
<1>2. \A id \in DOMAIN store : id \in DOMAIN seen[i] => ~store'[id].active
  <2>1. \A id \in DOMAIN seen[i] : seen[i][id] \in Metadata
    BY <1>0 DEF PlaceInv, IsStored
  <2> QED BY <1>1, <2>1 DEF Metadata
<1>3. \A id \in DOMAIN store : store'[id].active => store[id].active
  BY <1>1, <1>2
<1>4. OneActive'
  BY <1>0, <1>1, <1>3 DEF OneActive
<1>5. IndexAgrees'
  <2>1. ASSUME NEW x, \A j \in Imports : step'[j] = "index" => x[1] \notin DocsOf(j)
        PROVE  \A j \in Imports : step[j] = "index" => x[1] \notin DocsOf(j)
    BY <1>0, <2>1
  <2>2. IndexAgrees /\ index' = index /\ DOMAIN store' = DOMAIN store
    BY <1>0, <1>1
  <2>3. \A x \in DOMAIN index : \A y \in DOMAIN index : x[1] = y[1] => x[2] = y[2]
    BY <2>2 DEF IndexAgrees
  <2>4. ASSUME NEW x \in DOMAIN index,
               \A j \in Imports : step'[j] = "index" => x[1] \notin DocsOf(j),
               NEW y \in DOMAIN store, x[1] = y[1], store'[y].active
        PROVE  x[2] = y[2]
    BY <1>3, <2>1, <2>2, <2>4 DEF IndexAgrees
  <2> HIDE DEF IndexAgrees
  <2> QED BY <2>2, <2>3, <2>4 DEF IndexAgrees
<1>6. ASSUME NEW d \in DocsOf(i), Handled(i, d)', NEW id \in RowsOf(d)'
      PROVE  ~store'[id].active
  <2>1. id \in DOMAIN store /\ id \in RowsOf(d)
    BY <1>1, <1>6 DEF RowsOf
  <2>2. CASE DocAt(i) = d
    BY <1>0, <1>2, <2>1, <2>2 DEF HoldInv
  <2>3. CASE DocAt(i) # d
    <3>2. \E n \in 1..at[i] - 1 : Catalog[i][n].doc = d
      <4>1. CASE step'[i] = "upsert"
        <5>1. PICK n \in 1..Len(Catalog[i]) : Catalog[i][n].doc = d
          BY <1>6, CatalogTypes
        <5>2. n # at[i]
          BY <2>3, <5>1 DEF DocAt
        <5>3. n \in 1..at[i] - 1
          BY <1>0, <4>1, <5>2
        <5> QED BY <5>1, <5>3
      <4>2. CASE step'[i] = "get"
        <5>1. PICK n \in 1..at'[i] - 1 : Catalog[i][n].doc = d
          BY <1>6, <4>2 DEF Handled
        <5>2. n # at[i]
          BY <2>3, <5>1 DEF DocAt
        <5>3. n \in 1..at[i] - 1
          BY <1>0, <4>2, <5>1, <5>2
        <5> QED BY <5>1, <5>3
      <4> QED BY <1>0, <4>1, <4>2
    <3>3. Handled(i, d) /\ ~store[id].active
      BY <1>0, <1>6, <2>1, <3>2 DEF Handled, HoldInv
    <3> QED BY <1>3, <2>1, <3>3
  <2> QED BY <2>2, <2>3
<1>7. /\ DOMAIN revised' = Searches
      /\ \A s \in Searches : revised[s] \subseteq revised'[s]
      /\ \A s \in Searches : phase[s] = "channels" => \A x \in Hits(s) :
            Current(x) => x[1] \in revised'[s] \/ Current(x)'
  <2>1. revised' = revised
    BY DEF UpdateExisting
  <2>2. \A x : Current(x) => Current(x)'
    BY <1>0, <1>1, <1>3 DEF Current
  <2> QED BY <2>1, <2>2 DEF VersionInv
<1> QED BY <1>0, <1>4, <1>5, <1>6, <1>7, ImportKeepsVersion

LEMMA UpsertingKeepsVersion ==
    ASSUME KnowledgeAssumption, CatalogAssumption, InServer = Imports, StandInv, StandInv',
           VersionInv, NEW i \in Imports, UpsertChunks(i)
    PROVE  VersionInv'
<1> DEFINE new == {IdOf(c) : c \in ChunksOf(i)}
<1>0. /\ ImportTypes /\ ImportTypes' /\ HoldInv(i) /\ OneActive /\ IndexAgrees /\ ImportStep(i)
      /\ step[i] = "upsert" /\ step'[i] = "index" /\ index' = index
      /\ \A j \in Imports \ {i} : step'[j] = step[j]
  BY DEF UpsertChunks, StandInv, VersionInv, ImportTypes, ImportStep
<1>1. /\ DOMAIN store' = DOMAIN store \cup new
      /\ \A id \in DOMAIN store : id \notin new => store'[id] = store[id]
  BY DEF UpsertChunks
<1>2. \A id \in new : id[1] \in DocsOf(i)
  BY ImportedIds
<1>3. \A x, y \in new : x[1] = y[1] => x[2] = y[2]
  BY OneVersionLoaded
<1> HIDE DEF new
<1>4. ASSUME NEW id \in DOMAIN store', store'[id].active, id \notin new
      PROVE  id \in DOMAIN store /\ store[id].active /\ id[1] \notin DocsOf(i)
  <2>1. id \in DOMAIN store /\ store[id].active
    BY <1>1, <1>4
  <2>2. ASSUME id[1] \in DocsOf(i) PROVE FALSE
    BY <1>0, <2>1, <2>2 DEF HoldInv, Handled, RowsOf
  <2> QED BY <2>1, <2>2
<1>5. OneActive'
  <2> SUFFICES ASSUME NEW x \in DOMAIN store', NEW y \in DOMAIN store', x[1] = y[1],
                      store'[x].active, store'[y].active
               PROVE  x[2] = y[2]
    BY DEF OneActive
  <2>1. CASE x \in new
    BY <1>2, <1>3, <1>4, <2>1
  <2>2. CASE x \notin new
    BY <1>0, <1>2, <1>4, <2>2 DEF OneActive
  <2> QED BY <2>1, <2>2
<1>6. IndexAgrees'
  <2> SUFFICES ASSUME NEW x \in DOMAIN index,
                      \A j \in Imports : step'[j] = "index" => x[1] \notin DocsOf(j),
                      NEW y \in DOMAIN store', x[1] = y[1], store'[y].active
               PROVE  x[2] = y[2]
    BY <1>0 DEF IndexAgrees
  <2>1. x[1] \notin DocsOf(i) /\ \A j \in Imports : step[j] = "index" => x[1] \notin DocsOf(j)
    BY <1>0
  <2>2. y \in DOMAIN store /\ store[y].active
    BY <1>2, <1>4, <2>1
  <2> QED BY <1>0, <2>1, <2>2 DEF IndexAgrees
<1>7. \A id \in DOMAIN store' : id[1] \in DocsOf(i) /\ store'[id].active => id \in new
  BY <1>4
<1>8. \A d \in DocsOf(i) : ~Handled(i, d)'
  BY <1>0 DEF Handled
<1>9. /\ UNCHANGED <<phase, answers>>
      /\ revised' = [s \in Searches |-> IF phase[s] = "channels" /\ answers[s] # {}
                                        THEN revised[s] \cup DocsOf(i) ELSE revised[s]]
  BY DEF UpsertChunks, searchVars
<1>10. DOMAIN revised' = Searches /\ \A s \in Searches : revised[s] \subseteq revised'[s]
  BY <1>9
<1>11. Recorded(i)'
  BY <1>9 DEF Recorded
<1>12. ASSUME NEW s \in Searches, phase[s] = "channels", NEW x \in Hits(s), Current(x)
       PROVE  x[1] \in revised'[s] \/ Current(x)'
  <2>1. answers[s] # {}
    BY <1>12 DEF Hits
  <2>2. x[1] \in DocsOf(i) => x[1] \in revised'[s]
    BY <1>9, <1>12, <2>1
  <2>3. ASSUME x[1] \notin DocsOf(i) PROVE Current(x)'
    <3>1. \A y \in DOMAIN store' : y[1] = x[1] /\ store'[y].active =>
              y \in DOMAIN store /\ store[y].active
      BY <1>2, <1>4, <2>3
    <3> QED BY <1>0, <1>12, <3>1 DEF Current
  <2> QED BY <2>2, <2>3
<1> HIDE DEF Recorded
<1> QED
  BY <1>0, <1>5, <1>6, <1>7, <1>8, <1>10, <1>11, <1>12, ImportKeepsVersion DEF new

LEMMA IndexingKeepsVersion ==
    ASSUME KnowledgeAssumption, CatalogAssumption, InServer = Imports, StandInv, StandInv',
           VersionInv, NEW i \in Imports, IndexChunks(i)
    PROVE  VersionInv'
<1> DEFINE new == {IdOf(c) : c \in ChunksOf(i)}
<1>0. /\ ImportTypes /\ ImportTypes' /\ HoldInv(i) /\ OneActive /\ IndexAgrees /\ ImportStep(i)
      /\ step[i] = "index" /\ step'[i] = "done" /\ store' = store /\ index' = Indexed(i)
      /\ \A j \in Imports \ {i} : step'[j] = step[j]
  BY DEF IndexChunks, StandInv, VersionInv, ImportTypes, ImportStep
<1>1. /\ \A id \in DOMAIN index' : id \in new \/ (id \in DOMAIN index /\ id[1] \notin DocsOf(i))
      /\ \A id \in new : id[1] \in DocsOf(i)
      /\ \A x, y \in new : x[1] = y[1] => x[2] = y[2]
  BY <1>0, ImportedIds, OneVersionLoaded DEF Indexed
<1>2. \A j \in Imports \ {i} : step[j] # "index"
  BY <1>0, ImportsAlone DEF HoldsLoop
<1>3. \A id \in DOMAIN store : id[1] \in DocsOf(i) /\ store[id].active => id \in new
  BY <1>0 DEF HoldInv
<1> HIDE DEF new
<1>4. OneActive'
  BY <1>0 DEF OneActive
<1>5. ASSUME NEW x \in DOMAIN index', NEW y \in DOMAIN index', x[1] = y[1]
      PROVE  x[2] = y[2]
  BY <1>0, <1>1, <1>5 DEF IndexAgrees
<1>6. ASSUME NEW x \in DOMAIN index', NEW y \in DOMAIN store, x[1] = y[1], store[y].active
      PROVE  x[2] = y[2]
  <2>1. CASE x \in new
    BY <1>1, <1>3, <1>6, <2>1
  <2>2. CASE x \notin new
    <3>1. x \in DOMAIN index /\ \A j \in Imports : step[j] = "index" => x[1] \notin DocsOf(j)
      BY <1>1, <1>2, <2>2
    <3> QED BY <1>0, <1>6, <3>1 DEF IndexAgrees
  <2> QED BY <2>1, <2>2
<1>7. IndexAgrees'
  BY <1>0, <1>5, <1>6 DEF IndexAgrees
<1>8. \A d \in DocsOf(i) : ~Handled(i, d)'
  BY <1>0 DEF Handled
<1>9. revised' = revised /\ DOMAIN revised = Searches /\ Recorded(i)
  BY <1>0 DEF IndexChunks, VersionInv, HoldInv
<1>10. ASSUME NEW s \in Searches, phase[s] = "channels", NEW x \in Hits(s), Current(x)
       PROVE  x[1] \in revised'[s] \/ Current(x)'
  <2>1. answers[s] # {}
    BY <1>10 DEF Hits
  <2>2. x[1] \in DocsOf(i) => x[1] \in revised'[s]
    BY <1>9, <1>10, <2>1 DEF Recorded
  <2>3. ASSUME x[1] \notin DocsOf(i) PROVE Current(x)'
    <3>1. \A y \in DOMAIN index' : y[1] = x[1] => y \in DOMAIN index
      BY <1>1, <2>3
    <3> QED BY <1>0, <1>10, <3>1 DEF Current
  <2> QED BY <2>2, <2>3
<1> QED BY <1>0, <1>4, <1>7, <1>8, <1>9, <1>10, ImportKeepsVersion

\* A search holds nothing; what it has from Chroma is active, and nobody writes until it
\* has asked the index too.
LEMMA SearchKeepsVersion ==
    ASSUME InServer = Imports, ImportTypes, Domains, VersionInv,
           NEW s \in Searches, SearchStep(s)
    PROVE  VersionInv'
<1>0. /\ UNCHANGED <<store, index, importVars>> /\ AskInv(s) /\ OneActive /\ IndexAgrees
      /\ \A i \in Imports : ~HoldsLoop(i)
      /\ \A t \in Searches \ {s} : ~Asking(t)
  BY DEF SearchStep, StartSearch, ReadDocuments, ReadGrants, SearchDense, SearchSparse,
         FailSearch, SearchMayRun, VersionInv
<1>1. OneActive' /\ IndexAgrees'
  BY <1>0 DEF OneActive, IndexAgrees, importVars
<1>2. ASSUME NEW i \in Imports PROVE HoldInv(i)'
  <2>1. /\ step'[i] \notin {"update", "upsert", "index"} /\ ~HoldsLoop(i)'
        /\ step'[i] = "get" => ~(at'[i] > 1)
    BY <1>0 DEF HoldsLoop, importVars
  <2>2. at'[i] \in Nat \ {0}
    BY <1>0 DEF ImportTypes, importVars
  <2>3. step'[i] = "get" => 1..at'[i] - 1 = {}
    BY <2>1, <2>2
  <2> QED BY <2>1, <2>3 DEF HoldInv, Handled
<1>5. UNCHANGED revised /\ \A x : Current(x)' <=> Current(x)
  BY <1>0 DEF Current, SearchStep, StartSearch, ReadDocuments, ReadGrants, SearchDense,
         SearchSparse, FailSearch
<1>3. ASSUME NEW t \in Searches \ {s} PROVE AskInv(t)'
  <2>1. phase'[t] = phase[t] /\ dense'[t] = dense[t] /\ answers'[t] = answers[t]
    BY <1>3
    DEF SearchStep, StartSearch, ReadDocuments, ReadGrants, SearchDense, SearchSparse,
        FailSearch, Domains
  <2>2. AskInv(t) /\ Hits(t)' = Hits(t) /\ (Asking(t)' <=> Asking(t))
    BY <2>1 DEF Hits, Asking, VersionInv
  <2> QED BY <1>0, <1>5, <2>1, <2>2 DEF AskInv
<1>4. AskInv(s)'
  <2>1. ASSUME phase'[s] \in {"documents", "grants", "channels", "failed"},
               phase'[s] = "channels" =>
                  phase[s] \in {"idle", "documents", "grants", "channels"},
               phase'[s] \in {"documents", "grants"} =>
                  phase[s] \in {"idle", "documents", "grants"},
               answers'[s] = answers[s], dense'[s] = dense[s], ~Asking(s)'
        PROVE  AskInv(s)'
    <3>1. Hits(s)' = Hits(s) /\ (answers[s] = {} => Hits(s) = {})
      BY <2>1 DEF Hits
    <3>2. phase'[s] = "channels" => \A x \in Hits(s) : x[1] \in revised[s] \/ Current(x)
      BY <1>0, <2>1, <3>1 DEF AskInv
    <3> QED BY <1>0, <1>5, <2>1, <3>1, <3>2 DEF AskInv
  <2>2. CASE SearchDense(s)
    <3>1. /\ phase'[s] = "channels" /\ phase[s] = "channels"
          /\ dense'[s] = DenseHits(asker[s], allowed[s]) /\ answers' = answers
      BY <2>2 DEF SearchDense, Domains
    <3>2. \A id \in dense'[s] : id \in DOMAIN store /\ store[id].active
      BY <3>1 DEF DenseHits
    <3>3. Hits(s)' = Hits(s)
      BY <3>1 DEF Hits
    <3> QED BY <1>0, <1>5, <3>1, <3>2, <3>3 DEF AskInv
  <2>3. CASE SearchSparse(s)
    <3> DEFINE sparse == SparseHits(asker[s], allowed[s])
               new == [dense |-> dense[s], sparse |-> sparse]
               found == dense[s] \cup sparse
    <3>1. /\ phase[s] = "channels" /\ phase'[s] \in {"channels", "done"}
          /\ dense'[s] = Pending /\ answers'[s] = answers[s] \cup {new}
      BY <2>3 DEF SearchSparse, Domains
    <3>2. \A x \in dense[s] : x \in DOMAIN store /\ store[x].active
      BY <1>0, <2>3 DEF AskInv, SearchSparse
    <3>3. \A x \in sparse : x \in DOMAIN index
      BY DEF SparseHits
    <3>4. \A i \in Imports : step[i] # "index"
      BY <1>0 DEF HoldsLoop
    <3> HIDE DEF sparse
    <3>5. \A x \in dense[s] : Current(x)
      BY <1>0, <3>2, <3>4 DEF OneActive, IndexAgrees, Current
    <3>6. \A x \in sparse : Current(x)
      BY <1>0, <3>3, <3>4 DEF IndexAgrees, Current
    <3>7. ASSUME NEW x, Current(x), NEW y \in found, x[1] = y[1] PROVE x[2] = y[2]
      BY <3>2, <3>3, <3>7 DEF Current
    <3>8. new.dense \cup new.sparse = found
      OBVIOUS
    <3> HIDE DEF new
    <3>9. Hits(s)' = Hits(s) \cup found
      BY <3>1, <3>8 DEF Hits
    <3>10. \A x \in found : Current(x)
      BY <3>5, <3>6
    <3> HIDE DEF found
    <3>11. \A a \in answers'[s] : \A x, y \in a.dense \cup a.sparse : x[1] = y[1] => x[2] = y[2]
      <4>1. \A x, y \in found : x[1] = y[1] => x[2] = y[2]
        BY <3>7, <3>10
      <4> QED BY <1>0, <3>1, <3>8, <4>1 DEF AskInv
    <3>12. \A x \in Hits(s)' : x[1] \in revised[s] \/ Current(x)
      BY <1>0, <3>1, <3>9, <3>10 DEF AskInv
    <3>13. \A x, y \in Hits(s)' : x[1] = y[1] /\ x[2] # y[2] => x[1] \in revised[s]
      <4> SUFFICES ASSUME NEW x \in Hits(s)', NEW y \in Hits(s)', x[1] = y[1], x[2] # y[2],
                          x[1] \notin revised[s]
                   PROVE  FALSE
        OBVIOUS
      <4>1. Current(x) /\ Current(y)
        BY <3>12
      <4>2. x \in Hits(s) /\ y \in Hits(s)
        BY <3>7, <3>9, <4>1
      <4> QED BY <1>0, <4>2 DEF AskInv
    <3>14. ~Asking(s)'
      BY <3>1 DEF Asking
    <3> QED BY <1>5, <3>1, <3>11, <3>12, <3>13, <3>14 DEF AskInv
  <2>4. CASE ReadGrants(s)
    <3>1. /\ phase[s] = "grants" /\ phase'[s] \in {"done", "channels"}
          /\ UNCHANGED <<dense, answers>>
      BY <2>4 DEF ReadGrants, Domains
    <3>2. dense[s] = Pending /\ answers[s] = {}
      BY <1>0, <3>1 DEF AskInv
    <3>3. Hits(s)' = {} /\ ~Asking(s)'
      BY <3>1, <3>2 DEF Hits, Asking
    <3> QED BY <3>1, <3>2, <3>3 DEF AskInv
  <2>5. CASE StartSearch(s) \/ ReadDocuments(s)
    <3>1. /\ phase[s] \in {"idle", "documents"} /\ UNCHANGED <<dense, answers>>
          /\ phase'[s] \in {"documents", "grants", "channels"}
      BY <2>5 DEF StartSearch, ReadDocuments, Domains
    <3>2. dense[s] = Pending
      BY <1>0, <3>1 DEF AskInv
    <3> QED BY <2>1, <3>1, <3>2 DEF Asking
  <2>6. CASE FailSearch(s)
    <3>1. phase'[s] = "failed" /\ UNCHANGED <<dense, answers>>
      BY <2>6 DEF FailSearch, Domains
    <3> QED BY <2>1, <3>1 DEF Asking
  <2> QED BY <2>2, <2>3, <2>4, <2>5, <2>6 DEF SearchStep
<1>6. DOMAIN revised' = Searches
  BY <1>5 DEF VersionInv
<1> QED BY <1>1, <1>2, <1>3, <1>4, <1>6 DEF VersionInv

\* A restart empties the index and ends what the process was doing.
LEMMA RestartKeepsVersion ==
    ASSUME InServer = Imports, ImportTypes, Domains, VersionInv, Restart
    PROVE  VersionInv'
<1>0. /\ UNCHANGED <<store, at, seen, dense, answers, revised>> /\ index' = Empty
      /\ OneActive /\ IndexAgrees /\ \A s \in Searches : AskInv(s)
  BY DEF Restart, VersionInv
<1>1. \A i \in Imports : step'[i] \notin {"get", "update", "upsert", "index"}
  BY DEF Restart, Importing
<1>2. \A s \in Searches :
          \/ phase'[s] = phase[s] /\ phase[s] \notin {"documents", "grants", "channels"}
          \/ phase'[s] = "failed"
  BY DEF Restart, Domains
<1>3. OneActive' /\ IndexAgrees'
  BY <1>0, UnwrittenVersions
<1>4. \A i \in Imports : HoldInv(i)'
  BY <1>1 DEF HoldInv, HoldsLoop, Handled
<1>5. ASSUME NEW s \in Searches PROVE AskInv(s)'
  <2>1. AskInv(s) /\ Hits(s)' = Hits(s) /\ ~Asking(s)' /\ phase'[s] # "channels"
    BY <1>0, <1>2 DEF Hits, Asking
  <2> QED BY <1>0, <1>2, <2>1 DEF AskInv
<1>6. DOMAIN revised' = Searches
  BY <1>0 DEF VersionInv
<1> QED BY <1>3, <1>4, <1>5, <1>6 DEF VersionInv

LEMMA AlwaysVersionInv ==
    ASSUME InServer = Imports
    PROVE  Spec => []VersionInv
<1>1. Init => VersionInv
  <2> SUFFICES ASSUME Init PROVE VersionInv
    OBVIOUS
  <2>1. DOMAIN store = {} /\ DOMAIN index = {}
    BY DEF Init, Empty
  <2>2. \A i \in Imports : HoldInv(i)
    BY DEF Init, HoldInv, HoldsLoop, Handled
  <2>3. \A s \in Searches : AskInv(s)
    BY DEF Init, AskInv, Asking, Hits
  <2>4. DOMAIN revised = Searches
    BY DEF Init
  <2> QED BY <2>1, <2>2, <2>3, <2>4 DEF VersionInv, OneActive, IndexAgrees
<1>2. StandInv /\ StandInv' /\ EntitledInv /\ VersionInv /\ [Next]_vars => VersionInv'
  <2> SUFFICES ASSUME StandInv, StandInv', EntitledInv, VersionInv, [Next]_vars
               PROVE  VersionInv'
    OBVIOUS
  <2>0. ImportTypes /\ Domains
    BY DEF StandInv, EntitledInv
  <2>1. ASSUME NEW i \in Imports, ImportStep(i) PROVE VersionInv'
    BY <2>1, ReadingKeepsVersion, MarkingKeepsVersion, UpsertingKeepsVersion,
       IndexingKeepsVersion, KnowledgeAssumption, CatalogAssumption
    DEF ImportStep
  <2>2. ASSUME NEW s \in Searches, SearchStep(s) PROVE VersionInv'
    BY <2>0, <2>2, SearchKeepsVersion
  <2>3. CASE Restart
    BY <2>0, <2>3, RestartKeepsVersion
  <2>4. CASE Tick \/ Finished \/ UNCHANGED vars
    BY <2>4
    DEF Tick, Finished, vars, importVars, searchVars, VersionInv, OneActive, IndexAgrees,
        HoldInv, HoldsLoop, Handled, RowsOf, DocAt, Recorded, AskInv, Asking, Hits, Current
  <2> QED BY <2>1, <2>2, <2>3, <2>4 DEF Next
<1> QED BY <1>1, <1>2, AlwaysStandInv, AlwaysEntitledInv, PTL DEF Spec

\* vector_store.py, upsert: whatever imports overlap, stop or are cut off by a restart in the
\* searching process, no two versions of a document are ever active.
THEOREM AlwaysOneActiveVersion ==
    ASSUME InServer = Imports
    PROVE  Spec => []OneActiveVersion
<1>1. VersionInv => OneActiveVersion
  BY DEF VersionInv, OneActive, OneActiveVersion
<1> QED BY <1>1, AlwaysVersionInv, PTL

\* retrieval.py, HybridRetriever._search_fused: where every import runs in the searching
\* process, the hits of one query, of both channels together, are of one version of each
\* document, and those of a search of several queries too, but for documents written to
\* Chroma between two of its queries.
THEOREM AlwaysAnswersOneVersion ==
    ASSUME InServer = Imports
    PROVE  Spec => []AnswersOneVersion
<1>1. VersionInv => AnswersOneVersion
  BY DEF VersionInv, AskInv, AnswersOneVersion
<1> QED BY <1>1, AlwaysVersionInv, PTL
-----------------------------------------------------------------------------
(***************************************************************************)
(* The text of a document.  Each window begins before or where the last    *)
(* one ends, and later than it began, so the windows reach every position; *)
(* a window that holds a letter is a chunk, and the chunks of a completed  *)
(* import are active.                                                      *)
(***************************************************************************)

\* A window is not empty, up to the end of the text.
LEMMA WindowEnds ==
    ASSUME NEW text \in Seq(Characters), NEW size \in Nat \ {0}, NEW start \in 0..Len(text)
    PROVE  /\ EndOf(text, size, start) \in 0..Len(text)
           /\ start < Len(text) => start < EndOf(text, size, start)
           /\ start = Len(text) => EndOf(text, size, start) = Len(text)
<1> DEFINE end == IF start + size < Len(text) THEN start + size ELSE Len(text)
           breaks == Breaks(text, size, start, end)
<1>1. Len(text) \in Nat /\ end \in 0..Len(text) /\ start <= end
  BY LenProperties
<1>2. start < Len(text) => start < end
  BY <1>1
<1>3. \A p \in breaks : p \in Nat /\ start < p /\ p <= end
  BY <1>1 DEF Breaks
<1>4. breaks # {} => Max(breaks) \in breaks
  <2> SUFFICES ASSUME breaks # {} PROVE Max(breaks) \in breaks
    OBVIOUS
  <2>1. breaks \in SUBSET Nat
    BY <1>3
  <2>2. \E m \in breaks : \A n \in breaks : n <= m
    <3>1. end \in Nat /\ \A n \in breaks : n <= end
      BY <1>1, <1>3
    <3> HIDE DEF breaks, end
    <3> QED BY <2>1, <3>1, GreatestNatural
  <2>3. \E m \in breaks : \A n \in breaks : m >= n
    <3> HIDE DEF breaks
    <3> QED BY <2>1, <2>2
  <2> HIDE DEF breaks
  <2> QED BY <2>3 DEF Max
<1>5. EndOf(text, size, start) = IF end < Len(text) /\ breaks # {} THEN Max(breaks) ELSE end
  BY DEF EndOf
<1> HIDE DEF breaks, end
<1>6. CASE end < Len(text) /\ breaks # {}
  BY <1>1, <1>3, <1>4, <1>5, <1>6
<1>7. CASE ~(end < Len(text) /\ breaks # {})
  <2>1. start = Len(text) => end = Len(text)
    BY <1>1
  <2> QED BY <1>1, <1>2, <1>5, <1>7, <2>1
<1> QED BY <1>6, <1>7

\* Where windows begin: the next one begins later, but not after the end of the last.
LEMMA StartsUnfold ==
    ASSUME NEW text \in Seq(Characters), NEW size \in Nat \ {0}, NEW overlap \in Nat
    PROVE  LET starts == Starts(text, size, overlap)
               n == Len(text)
           IN  /\ starts \in [0..n -> 0..n]
               /\ starts[0] = 0
               /\ \A k \in 1..n :
                     LET start == starts[k - 1]
                         end == EndOf(text, size, start)
                     IN  starts[k] = IF end >= n THEN n ELSE NextStart(end, overlap, start)
<1> DEFINE n == Len(text)
           End(start) == EndOf(text, size, start)
           After(start) == IF End(start) >= n THEN n ELSE NextStart(End(start), overlap, start)
           turn == [k \in Nat |-> [start \in 0..n |-> After(start)]]
           Def(f) == [k \in 0..n |-> IF k = 0 THEN 0 ELSE After(f[k - 1])]
           starts == CHOOSE f : f = Def(f)
<1>1. n \in Nat /\ 0 \in 0..n
  BY LenProperties
<1>2. \A start \in 0..n : After(start) \in 0..n
  <2> TAKE start \in 0..n
  <2>1. End(start) \in 0..n /\ (start < n => start < End(start)) /\ (start = n => End(start) = n)
    BY WindowEnds
  <2> HIDE DEF n, End
  <2>2. CASE End(start) >= n
    BY <1>1, <2>2
  <2>3. CASE ~(End(start) >= n)
    <3>1. start < n /\ start < End(start) /\ End(start) < n
      BY <1>1, <2>1, <2>3
    <3>2. NextStart(End(start), overlap, start) \in 0..n
      BY <1>1, <2>1, <3>1 DEF NextStart
    <3> QED BY <2>3, <3>2
  <2> QED BY <2>2, <2>3
<1>3. StepsIn(0..n, turn)
  <2> HIDE DEF After, n
  <2> QED BY <1>2 DEF StepsIn
<1>4. PICK g : Recurs(n, 0..n, 0, turn, g)
  <2> HIDE DEF turn, n
  <2> QED BY <1>1, <1>3, Recursion
<1>5. g = Def(g)
  <2>1. g \in [0..n -> 0..n]
    BY <1>4 DEF Recurs
  <2>2. \A k \in 0..n : g[k] = IF k = 0 THEN 0 ELSE turn[k - 1][g[k - 1]]
    <3> HIDE DEF turn, n
    <3> QED BY <1>4, Zenon DEF Recurs
  <2>3. ASSUME NEW k \in 0..n PROVE g[k] = IF k = 0 THEN 0 ELSE After(g[k - 1])
    <3>1. CASE k = 0
      BY <2>2, <3>1
    <3>2. CASE k # 0
      <4>1. k - 1 \in 0..n /\ k - 1 \in Nat
        BY <1>1, <3>2
      <4>2. g[k - 1] \in 0..n
        BY <2>1, <4>1
      <4>3. turn[k - 1][g[k - 1]] = After(g[k - 1])
        <5> HIDE DEF After, n
        <5> QED BY <4>1, <4>2
      <4>4. g[k] = turn[k - 1][g[k - 1]]
        <5> HIDE DEF turn, n
        <5> QED BY <2>2, <3>2
      <4> QED BY <3>2, <4>3, <4>4
    <3> QED BY <3>1, <3>2
  <2> HIDE DEF After, n
  <2> QED BY <2>1, <2>3
<1>6. starts = Def(starts)
  <2> HIDE DEF Def
  <2> QED BY <1>5
<1>7. Starts(text, size, overlap) = starts
  BY DEF Starts
<1> HIDE DEF starts
<1>8. \A k \in 0..n : starts[k] = IF k = 0 THEN 0 ELSE After(starts[k - 1])
  <2> HIDE DEF After, n
  <2> QED BY <1>6, Zenon
<1>9. \A k \in 0..n : starts[k] \in 0..n
  <2> DEFINE Out == {k \in 0..n : starts[k] \notin 0..n}
  <2> SUFFICES ASSUME Out # {} PROVE FALSE
    OBVIOUS
  <2>1. PICK k \in Out : \A j \in Out : k <= j
    <3>1. Out \in SUBSET Nat
      BY <1>1
    <3> HIDE DEF Out
    <3> QED BY <3>1, LeastNatural
  <2>2. k \in 0..n /\ starts[k] \notin 0..n
    BY <2>1
  <2> HIDE DEF After, n
  <2>3. k # 0
    BY <1>1, <1>8, <2>2
  <2>4. k - 1 \in 0..n /\ ~(k <= k - 1)
    BY <1>1, <2>2, <2>3
  <2>5. starts[k - 1] \in 0..n
    BY <2>1, <2>4
  <2> QED BY <1>2, <1>8, <2>2, <2>3, <2>5
<1>10. starts = [k \in 0..n |-> starts[k]]
  <2> HIDE DEF After, n
  <2>1. starts = [k \in 0..n |-> IF k = 0 THEN 0 ELSE After(starts[k - 1])]
    BY <1>6, Zenon
  <2> QED BY <2>1
<1>11. starts \in [0..n -> 0..n] /\ starts[0] = 0
  <2> HIDE DEF n
  <2> QED BY <1>1, <1>8, <1>9, <1>10
<1>12. \A k \in 1..n : starts[k] = After(starts[k - 1])
  <2> HIDE DEF After, n
  <2>1. \A k \in 1..n : k \in 0..n /\ k # 0
    BY <1>1
  <2> QED BY <1>8, <2>1
<1> QED BY <1>7, <1>11, <1>12

\* Windows leave no gap.
LEMMA WindowsReach ==
    ASSUME NEW text \in Seq(Characters), NEW size \in Nat \ {0}, NEW overlap \in Nat,
           NEW p \in 1..Len(text)
    PROVE  LET starts == Starts(text, size, overlap)
           IN  \E k \in 0..Len(text) : /\ starts[k] \in 0..Len(text)
                                       /\ starts[k] < p
                                       /\ p <= EndOf(text, size, starts[k])
<1> DEFINE n == Len(text)
           starts == Starts(text, size, overlap)
           End(start) == EndOf(text, size, start)
<1>1. n \in Nat
  BY LenProperties
<1>2. /\ starts \in [0..n -> 0..n] /\ starts[0] = 0
      /\ \A k \in 1..n :
            starts[k] = IF End(starts[k - 1]) >= n THEN n
                        ELSE NextStart(End(starts[k - 1]), overlap, starts[k - 1])
  BY StartsUnfold
<1>3. \A start \in 0..n : /\ End(start) \in 0..n
                          /\ start < n => start < End(start)
                          /\ start = n => End(start) = n
  BY WindowEnds
<1> HIDE DEF n, starts, End
<1>4. ASSUME NEW k \in 1..n, starts[k - 1] < n
      PROVE  starts[k] > starts[k - 1] /\ starts[k] <= End(starts[k - 1])
  <2>1. starts[k - 1] \in 0..n
    BY <1>1, <1>2
  <2>2. End(starts[k - 1]) \in 0..n /\ starts[k - 1] < End(starts[k - 1])
    BY <1>3, <1>4, <2>1
  <2>3. starts[k] = IF End(starts[k - 1]) >= n THEN n
                    ELSE NextStart(End(starts[k - 1]), overlap, starts[k - 1])
    BY <1>2
  <2> QED BY <1>1, <1>4, <2>1, <2>2, <2>3 DEF NextStart
<1> DEFINE Before == {k \in 0..n : starts[k] < p}
<1>5. PICK k \in Before : \A j \in Before : j <= k
  <2>1. Before \in SUBSET Nat /\ \A j \in Before : j <= n
    BY <1>1
  <2>2. 0 \in Before
    BY <1>1, <1>2 DEF n
  <2> HIDE DEF Before
  <2> QED BY <1>1, <2>1, <2>2, GreatestNatural
<1>6. k \in 0..n /\ starts[k] \in 0..n /\ starts[k] < p /\ p \in 1..n
  BY <1>2, <1>5 DEF n
<1>7. ASSUME ~(p <= End(starts[k])) PROVE FALSE
  <2>1. starts[k] < n
    BY <1>1, <1>6
  <2>2. CASE k + 1 \in 1..n
    <3>1. (k + 1) - 1 = k
      BY <1>6
    <3>2. starts[k + 1] <= End(starts[k]) /\ starts[k + 1] \in 0..n
      BY <1>2, <1>4, <2>1, <2>2, <3>1
    <3>3. End(starts[k]) \in 0..n
      BY <1>3, <1>6
    <3>4. starts[k + 1] < p
      BY <1>1, <1>6, <1>7, <3>2, <3>3
    <3>5. k + 1 \in Before
      BY <2>2, <3>4
    <3> QED BY <1>5, <1>6, <3>5
  <2>3. CASE k + 1 \notin 1..n
    <3>1. k = n
      BY <1>1, <1>6, <2>3
    <3> DEFINE Slow == {j \in 0..n : starts[j] < j}
    <3>2. Slow = {}
      <4> SUFFICES ASSUME Slow # {} PROVE FALSE
        OBVIOUS
      <4>1. PICK j \in Slow : \A i \in Slow : j <= i
        <5>1. Slow \in SUBSET Nat
          BY <1>1
        <5> HIDE DEF Slow
        <5> QED BY <5>1, LeastNatural
      <4>2. j \in 0..n /\ starts[j] < j /\ j # 0
        BY <1>2, <4>1
      <4>3. j \in 1..n /\ j - 1 \in 0..n /\ ~(j <= j - 1)
        BY <1>1, <4>2
      <4>4. ~(starts[j - 1] < j - 1)
        BY <4>1, <4>3
      <4>5. starts[j - 1] \in 0..n /\ starts[j] \in 0..n
        BY <1>2, <4>3, <4>2
      <4>6. CASE starts[j - 1] < n
        <5>1. starts[j] > starts[j - 1]
          BY <1>4, <4>3, <4>6
        <5> QED BY <1>1, <4>2, <4>4, <4>5, <5>1
      <4>7. CASE ~(starts[j - 1] < n)
        <5>0. starts[j - 1] = n
          BY <1>1, <4>5, <4>7
        <5>1. End(starts[j - 1]) = n
          BY <1>3, <4>5, <5>0
        <5>2. starts[j] = n
          BY <1>1, <1>2, <4>3, <5>1
        <5> QED BY <1>1, <4>2, <5>2
      <4> QED BY <4>6, <4>7
    <3>3. ~(starts[n] < n)
      BY <1>1, <3>2
    <3> QED BY <2>1, <3>1, <3>3
  <2> QED BY <2>2, <2>3
<1> QED BY <1>6, <1>7 DEF n, starts, End

\* Every letter lies in a chunk: the window it is in is not left out.
LEMMA ChunksHoldLetters ==
    ASSUME NEW text \in Seq(Characters), NEW size \in Nat \ {0}, NEW overlap \in Nat
    PROVE  \A p \in Letters(text) : \E j \in DOMAIN ChunkText(text, size, overlap) :
               p \in ChunkText(text, size, overlap)[j]
<1> DEFINE n == Len(text)
           starts == Starts(text, size, overlap)
           window(k) == Stripped(text, starts[k] + 1..EndOf(text, size, starts[k]))
           kept(k) == IF k \in 0..n THEN window(k) ELSE {}
           Lists == Seq(SUBSET Nat)
           Turn(k, c) == IF kept(k) = {} THEN c ELSE Append(c, kept(k))
           turn == [k \in Nat |-> [c \in Lists |-> Turn(k, c)]]
           Def(f) == [k \in 0..n + 1 |->
                        IF k = 0 THEN <<>>
                        ELSE IF window(k - 1) = {} THEN f[k - 1]
                        ELSE Append(f[k - 1], window(k - 1))]
           Has(c, w) == \E i \in DOMAIN c : c[i] = w
           chunks == CHOOSE f : f = Def(f)
<1>1. n \in Nat /\ starts \in [0..n -> 0..n]
  BY LenProperties, StartsUnfold
<1>2. \A k \in 0..n : window(k) \in SUBSET Nat
  <2> TAKE k \in 0..n
  <2>1. starts[k] \in 0..n
    BY <1>1
  <2>2. EndOf(text, size, starts[k]) \in 0..n
    BY <2>1, WindowEnds
  <2>3. starts[k] + 1..EndOf(text, size, starts[k]) \in SUBSET Nat
    BY <1>1, <2>1, <2>2
  <2> QED BY <2>3 DEF Stripped
<1>3. \A k \in Nat : kept(k) \in SUBSET Nat
  <2> HIDE DEF window, n
  <2> QED BY <1>2
<1> HIDE DEF kept
<1>4. \A k \in Nat, c \in Lists : /\ Turn(k, c) \in Lists
                                  /\ kept(k) # {} => Has(Turn(k, c), kept(k))
                                  /\ \A w : Has(c, w) => Has(Turn(k, c), w)
  <2> TAKE k \in Nat, c \in Lists
  <2>1. CASE kept(k) = {}
    BY <2>1
  <2>2. CASE kept(k) # {}
    <3>1. /\ Append(c, kept(k)) \in Lists
          /\ Len(Append(c, kept(k))) = Len(c) + 1
          /\ \A i \in 1..Len(c) : Append(c, kept(k))[i] = c[i]
          /\ Append(c, kept(k))[Len(c) + 1] = kept(k)
      BY <1>3, AppendProperties
    <3>2. /\ DOMAIN Append(c, kept(k)) = 1..Len(c) + 1 /\ DOMAIN c = 1..Len(c)
          /\ Len(c) \in Nat
      BY <3>1, LenProperties
    <3> HIDE DEF Lists
    <3> QED BY <2>2, <3>1, <3>2
  <2> QED BY <2>1, <2>2
<1>5. StepsIn(Lists, turn)
  <2> HIDE DEF Lists, Turn
  <2> QED BY <1>4 DEF StepsIn
<1>6. << >> \in Lists
  BY EmptySeq
<1>7. PICK g : Recurs(n + 1, Lists, <<>>, turn, g)
  <2> HIDE DEF turn, n, Lists
  <2>1. n + 1 \in Nat
    BY <1>1
  <2> QED BY <1>5, <1>6, <2>1, Recursion
<1>8. \A k \in 0..n + 1 : k # 0 => /\ k - 1 \in 0..n /\ k - 1 \in Nat /\ k - 1 \in 0..n + 1
                                   /\ ~(k <= k - 1)
  BY <1>1
<1>9. \A k \in 0..n : kept(k) = window(k)
  BY DEF kept
<1>10. \A f, k : k \in 0..n + 1 =>
           (IF k = 0 THEN <<>> ELSE Turn(k - 1, f[k - 1])) =
           (IF k = 0 THEN <<>>
            ELSE IF window(k - 1) = {} THEN f[k - 1]
            ELSE Append(f[k - 1], window(k - 1)))
  <2> HIDE DEF window, n
  <2> QED BY <1>8, <1>9
<1>11. g = Def(g)
  <2>1. g \in [0..n + 1 -> Lists]
    BY <1>7 DEF Recurs
  <2>2. \A k \in 0..n + 1 : g[k] = IF k = 0 THEN <<>> ELSE turn[k - 1][g[k - 1]]
    <3> HIDE DEF turn, n, Lists
    <3> QED BY <1>7, Zenon DEF Recurs
  <2>3. ASSUME NEW k \in 0..n + 1 PROVE g[k] = IF k = 0 THEN <<>> ELSE Turn(k - 1, g[k - 1])
    <3>1. CASE k = 0
      BY <2>2, <3>1
    <3>2. CASE k # 0
      <4>1. g[k - 1] \in Lists /\ k - 1 \in Nat
        <5> HIDE DEF Lists, n
        <5> QED BY <1>8, <2>1, <3>2
      <4>2. turn[k - 1][g[k - 1]] = Turn(k - 1, g[k - 1])
        <5> HIDE DEF Turn, Lists
        <5> QED BY <4>1
      <4> HIDE DEF Turn, turn, n
      <4> QED BY <2>2, <3>2, <4>2
    <3> QED BY <3>1, <3>2
  <2>4. \A k \in 0..n + 1 : g[k] = IF k = 0 THEN <<>>
                                   ELSE IF window(k - 1) = {} THEN g[k - 1]
                                   ELSE Append(g[k - 1], window(k - 1))
    <3> HIDE DEF Turn, window, n
    <3> QED BY <1>10, <2>3
  <2> HIDE DEF window, n, Lists
  <2> QED BY <2>1, <2>4
<1>12. chunks = Def(chunks)
  <2> HIDE DEF Def
  <2> QED BY <1>11
<1>13. ChunkText(text, size, overlap) = chunks[n + 1]
  BY DEF ChunkText
<1> HIDE DEF chunks
<1>14. \A k \in 0..n + 1 : chunks[k] = IF k = 0 THEN <<>> ELSE Turn(k - 1, chunks[k - 1])
  <2>1. \A k \in 0..n + 1 : chunks[k] = IF k = 0 THEN <<>>
                                        ELSE IF window(k - 1) = {} THEN chunks[k - 1]
                                        ELSE Append(chunks[k - 1], window(k - 1))
    <3> HIDE DEF window, n
    <3> QED BY <1>12, Zenon
  <2> HIDE DEF Turn, window, n
  <2> QED BY <1>10, <2>1
<1> HIDE DEF Turn, Has, Lists
<1> DEFINE Short == {k \in 0..n + 1 :
                        \/ chunks[k] \notin Lists
                        \/ \E j \in 0..n : /\ j < k /\ kept(j) # {}
                                           /\ ~Has(chunks[k], kept(j))}
<1>15. Short = {}
  <2> SUFFICES ASSUME Short # {} PROVE FALSE
    OBVIOUS
  <2>1. PICK k \in Short : \A j \in Short : k <= j
    <3>1. Short \in SUBSET Nat
      BY <1>1
    <3> HIDE DEF Short
    <3> QED BY <3>1, LeastNatural
  <2>2. k \in 0..n + 1
    BY <2>1
  <2> HIDE DEF n
  <2>3. k # 0
    BY <1>1, <1>6, <1>14, <2>1
  <2>4. k - 1 \notin Short /\ k - 1 \in 0..n + 1 /\ k - 1 \in 0..n /\ k - 1 \in Nat
    <3> HIDE DEF Short
    <3> QED BY <1>8, <2>1, <2>2, <2>3
  <2>5. /\ chunks[k - 1] \in Lists
        /\ \A j \in 0..n : j < k - 1 /\ kept(j) # {} => Has(chunks[k - 1], kept(j))
    BY <2>4
  <2>6. chunks[k] = Turn(k - 1, chunks[k - 1])
    BY <1>14, <2>2, <2>3
  <2>7. chunks[k] \in Lists
    BY <1>4, <2>4, <2>5, <2>6
  <2>8. ASSUME NEW j \in 0..n, j < k, kept(j) # {} PROVE Has(chunks[k], kept(j))
    <3>1. CASE j = k - 1
      BY <1>4, <2>4, <2>5, <2>6, <2>8, <3>1
    <3>2. CASE j # k - 1
      <4>1. j < k - 1
        BY <1>1, <2>2, <2>8, <3>2
      <4> QED BY <1>4, <2>4, <2>5, <2>6, <2>8, <4>1
    <3> QED BY <3>1, <3>2
  <2> QED BY <2>1, <2>7, <2>8
<1> SUFFICES ASSUME NEW p \in Letters(text)
             PROVE  \E j \in DOMAIN chunks[n + 1] : p \in chunks[n + 1][j]
  BY <1>13
<1>16. p \in 1..n
  BY LenProperties DEF Letters
<1>17. PICK k \in 0..n : /\ starts[k] \in 0..n
                         /\ starts[k] < p /\ p <= EndOf(text, size, starts[k])
  BY <1>16, WindowsReach
<1>18. p \in window(k)
  <2>1. EndOf(text, size, starts[k]) \in 0..n
    BY <1>17, WindowEnds
  <2>2. p \in starts[k] + 1..EndOf(text, size, starts[k])
    BY <1>1, <1>16, <1>17, <2>1
  <2>3. p <= p
    BY <1>16
  <2> HIDE DEF starts, n
  <2> QED BY <2>2, <2>3 DEF Stripped
<1> HIDE DEF window, starts
<1>19. Has(chunks[n + 1], kept(k)) /\ kept(k) = window(k)
  <2>1. n + 1 \in 0..n + 1 /\ k < n + 1 /\ n + 1 \notin Short
    BY <1>1, <1>15
  <2>2. kept(k) = window(k) /\ kept(k) # {}
    BY <1>9, <1>18
  <2> QED BY <2>1, <2>2
<1> QED BY <1>18, <1>19 DEF Has

\* document_loader.py, _chunk_text, and vector_store.py, upsert: whatever the texts, the
\* size of a window and the overlap, once a document is imported every letter of its text
\* lies in an active chunk.
THEOREM AlwaysWholeTextStored == Spec => []WholeTextStored
<1>1. ASSUME StandInv PROVE WholeTextStored
  <2> SUFFICES ASSUME NEW d \in Docs, Imported(d), NEW id \in ActiveParts(d),
                      NEW p \in Letters(TextOf[<<d, id[2]>>])
               PROVE  \E x \in ActiveParts(d) :
                         x[2] = id[2] /\ p \in ChunksOfText(d, id[2])[x[3]]
    BY DEF WholeTextStored
  <2> DEFINE i == sole[d]
             cut == ChunksOfText(d, id[2])
  <2>1. Stands(i, d) /\ i \in Imports
    BY <1>1 DEF StandInv, DocInv, ReplacedBy, SoleInv, Imported
  <2>2. id \in IdsOf(i, d)
    BY <2>1 DEF Stands, ActiveParts, RowsOf
  <2>3. PICK c \in ChunksOf(i) : c.doc = d /\ id = IdOf(c)
    BY <2>2 DEF IdsOf
  <2>4. id[2] = c.version
    BY <2>3 DEF IdOf
  <2>5. /\ TextOf[<<d, id[2]>>] \in Seq(Characters)
        /\ {x.part : x \in {y \in ChunksOf(i) : y.doc = d}} = DOMAIN cut
    BY <2>1, <2>3, <2>4, LoaderAssumption
  <2>6. ChunkSize \in Nat \ {0} /\ ChunkOverlap \in Nat
    BY LoaderAssumption
  <2>7. PICK k \in DOMAIN cut : p \in cut[k]
    BY <2>5, <2>6, ChunksHoldLetters DEF ChunksOfText
  <2>8. PICK x \in ChunksOf(i) : x.doc = d /\ x.part = k
    <3> HIDE DEF cut
    <3> QED BY <2>5, <2>7
  <2>9. x.version = c.version
    BY <2>1, <2>3, <2>8, CatalogAssumption DEF ChunksOf
  <2>10. IdOf(x) \in IdsOf(i, d) /\ IdOf(x) = <<d, id[2], k>>
    BY <2>4, <2>8, <2>9 DEF IdsOf, IdOf
  <2>11. IdOf(x) \in ActiveParts(d)
    BY <2>1, <2>10 DEF Stands, ActiveParts
  <2> HIDE DEF cut
  <2> QED BY <2>7, <2>10, <2>11 DEF cut
<1> QED BY <1>1, AlwaysStandInv, PTL
=============================================================================
