------------------------- MODULE KnowledgePathProofs ------------------------
(***************************************************************************)
(* Proofs about the knowledge path.  It uses its two models as LazyModel   *)
(* describes: each of its steps is one of LazyModel's for either model, or *)
(* leaves it alone, so what LazyModelProofs proves of any calls holds of   *)
(* the calls of requests, their parallel searches and probes.  Then the    *)
(* calls of the language model, the fusion of hit lists, the evidence, and *)
(* the invariant that leads from the searches to the answer.               *)
(***************************************************************************)
EXTENDS KnowledgePath, Induction, SequenceTheorems

EmbedderProofs == INSTANCE LazyModelProofs WITH slot <- embedder
RerankerProofs == INSTANCE LazyModelProofs WITH slot <- reranker

LEMMA RerankCallIsCall ==
  ASSUME NEW r \in Requests
  PROVE  RerankCall(r) \in Calls
<1>1. 0 \in 0..MaxRewrites[r]
  BY SettingsAssumption
<1> QED
  BY <1>1 DEF RerankCall, Calls

\* Steps of requests that do not touch the models.
LEMMA ChatKeepsModels ==
  ASSUME NEW r \in Requests,
         Ask(r) \/ ChatStep(r) \/ ReadGrants(r) \/ GrantsFail(r) \/ SearchFails(r)
         \/ Merge(r) \/ Reranked(r) \/ RerankFails(r)
  PROVE  UNCHANGED models
  BY DEF Ask, ChatStep, FallBack, RoutedByModel, Rewritten, ChatFails, Answer, ReadGrants,
         GrantsFail, SearchFails, Merge, Reranked, RerankFails

LEMMA StepUsesModels ==
  ASSUME [Next]_vars
  PROVE  [Embedder!LoaderNext]_embedder /\ [Reranker!LoaderNext]_reranker
<1>1. CASE \E r \in Requests : Ask(r) \/ RequestStep(r) \/ Leave(r)
  <2>1. PICK r \in Requests : Ask(r) \/ RequestStep(r) \/ Leave(r)
    BY <1>1
  <2>2. CASE UseReranker(r)
    BY <2>2, RerankCallIsCall DEF UseReranker, Reranker!LoaderNext
  <2>3. CASE Leave(r)
    <3>1. {c \in Calls : c[1] = r} \in SUBSET Calls
      OBVIOUS
    <3> QED
      BY <2>3, <3>1 DEF Leave, Embedder!LoaderNext, Reranker!LoaderNext
  <2>4. CASE UNCHANGED models
    BY <2>4 DEF models
  <2> QED
    BY <2>1, <2>2, <2>3, <2>4, ChatKeepsModels DEF RequestStep
<1>2. CASE \E c \in Calls : CallStep(c)
  BY <1>2 DEF CallStep, UseEmbedder, Encode, EncodeFails, SearchEnds, models, Embedder!LoaderNext
<1>3. CASE \E p \in Probes : Probe(p) \/ ProbeEnds(p)
  <2>1. \A p \in Probes : <<p, 0>> \in Calls
    BY DEF Calls
  <2> QED
    BY <1>3, <2>1 DEF Probe, ProbeEnds, models, Embedder!LoaderNext
<1>4. CASE ModelsStep
  BY <1>4 DEF ModelsStep, EmbedderEnds, RerankerEnds, Embedder!LoaderNext, Reranker!LoaderNext
<1>5. CASE Done \/ UNCHANGED vars
  BY <1>5 DEF Done, vars
<1> QED
  BY <1>1, <1>2, <1>3, <1>4, <1>5 DEF Next

\* Both models are loaded and used as LazyModel describes (embedders, rerankers and their
\* callers), whatever requests, searches, probes and cancellations there are.
THEOREM UsesLoaders == Spec => ImplementsLoader
<1>1. Init => Embedder!LoaderInit /\ Reranker!LoaderInit
  BY DEF Init
<1>2. [Next]_vars => [Embedder!LoaderNext]_embedder /\ [Reranker!LoaderNext]_reranker
  BY StepUsesModels
<1> QED
  BY <1>1, <1>2, PTL DEF Spec, ImplementsLoader, Embedder!LoaderSpec, Reranker!LoaderSpec

\* LazyModelProofs, instantiated, speaks of the same steps and properties as LazyModel.
LEMMA SameEmbedder ==
  /\ Embedder!LoaderInit <=> EmbedderProofs!LoaderInit
  /\ Embedder!LoaderNext <=> EmbedderProofs!LoaderNext
  /\ Embedder!OneLoad <=> EmbedderProofs!OneLoad
  /\ Embedder!Kept <=> EmbedderProofs!Kept
  BY DEF Embedder!LoaderInit, EmbedderProofs!LoaderInit, Embedder!Unloaded,
         EmbedderProofs!Unloaded, Embedder!LoaderNext, EmbedderProofs!LoaderNext,
         Embedder!Grant, EmbedderProofs!Grant, Embedder!Enter, EmbedderProofs!Enter,
         Embedder!Load, EmbedderProofs!Load, Embedder!LoadFails,
         EmbedderProofs!LoadFails, Embedder!LeftBehind, EmbedderProofs!LeftBehind,
         Embedder!Cancel, EmbedderProofs!Cancel, Embedder!Waiting,
         EmbedderProofs!Waiting, Embedder!Free, EmbedderProofs!Free, Embedder!Moved,
         EmbedderProofs!Moved, Embedder!Loading, EmbedderProofs!Loading,
         Embedder!Behind, EmbedderProofs!Behind, Embedder!Released,
         EmbedderProofs!Released, Embedder!Without, EmbedderProofs!Without,
         Embedder!OneLoad, EmbedderProofs!OneLoad, Embedder!Kept, EmbedderProofs!Kept

LEMMA SameReranker ==
  /\ Reranker!LoaderInit <=> RerankerProofs!LoaderInit
  /\ Reranker!LoaderNext <=> RerankerProofs!LoaderNext
  /\ Reranker!OneLoad <=> RerankerProofs!OneLoad
  /\ Reranker!Kept <=> RerankerProofs!Kept
  BY DEF Reranker!LoaderInit, RerankerProofs!LoaderInit, Reranker!Unloaded,
         RerankerProofs!Unloaded, Reranker!LoaderNext, RerankerProofs!LoaderNext,
         Reranker!Grant, RerankerProofs!Grant, Reranker!Enter, RerankerProofs!Enter,
         Reranker!Load, RerankerProofs!Load, Reranker!LoadFails,
         RerankerProofs!LoadFails, Reranker!LeftBehind, RerankerProofs!LeftBehind,
         Reranker!Cancel, RerankerProofs!Cancel, Reranker!Waiting,
         RerankerProofs!Waiting, Reranker!Free, RerankerProofs!Free, Reranker!Moved,
         RerankerProofs!Moved, Reranker!Loading, RerankerProofs!Loading,
         Reranker!Behind, RerankerProofs!Behind, Reranker!Released,
         RerankerProofs!Released, Reranker!Without, RerankerProofs!Without,
         Reranker!OneLoad, RerankerProofs!OneLoad, Reranker!Kept, RerankerProofs!Kept

ModelsInv == EmbedderProofs!LoaderInv /\ RerankerProofs!LoaderInv

LEMMA ModelsStart ==
  ASSUME Init
  PROVE  ModelsInv
<1>1. EmbedderProofs!LoaderInv
  BY SameEmbedder, EmbedderProofs!LoaderStart DEF Init
<1>2. RerankerProofs!LoaderInv
  BY SameReranker, RerankerProofs!LoaderStart DEF Init
<1> QED
  BY <1>1, <1>2 DEF ModelsInv

LEMMA ModelsKeep ==
  ASSUME ModelsInv, [Next]_vars
  PROVE  ModelsInv' /\ Embedder!Kept /\ Reranker!Kept
<1>1. EmbedderProofs!LoaderInv' /\ Embedder!Kept
  BY StepUsesModels, SameEmbedder, EmbedderProofs!LoaderStep, EmbedderProofs!LoadedStays
     DEF ModelsInv
<1>2. RerankerProofs!LoaderInv' /\ Reranker!Kept
  BY StepUsesModels, SameReranker, RerankerProofs!LoaderStep, RerankerProofs!LoadedStays
     DEF ModelsInv
<1> QED
  BY <1>1, <1>2 DEF ModelsInv

\* _ensure_model of both models: at most one load of each is wanted at a time, for any
\* number of requests, queries and probes.
THEOREM AlwaysOneLoadEach == Spec => []OneLoadEach
<1>1. ModelsInv => OneLoadEach
  BY SameEmbedder, SameReranker
     DEF ModelsInv, EmbedderProofs!LoaderInv, RerankerProofs!LoaderInv, OneLoadEach
<1> QED
  BY <1>1, ModelsStart, ModelsKeep, PTL DEF Spec

\* What is loaded stays and is not loaded again, whoever waited for the lock and whatever
\* inference fails.
THEOREM AlwaysLoadedOnceEach == Spec => LoadedOnceEach
<1>1. [Embedder!Kept /\ Reranker!Kept]_vars => [Embedder!Kept /\ Reranker!Kept]_models
  BY DEF vars, models
<1>2. ModelsInv /\ [Next]_vars => Embedder!Kept /\ Reranker!Kept
  BY ModelsKeep
<1> QED
  BY <1>2, ModelsStart, ModelsKeep, PTL DEF Spec, LoadedOnceEach
-----------------------------------------------------------------------------
(***************************************************************************)
(* The calls of the language model.  That a call sends at most two         *)
(* requests needs to know of every moment whether a call is under way: a   *)
(* new one begins with nothing sent, and only one that asks for JSON mode  *)
(* and has sent a single request may fall back.                            *)
(***************************************************************************)
Posted(r) ==
    IF pc[r] \in Chatting
    THEN /\ posts[r] = 1 \/ (posts[r] = 2 /\ JsonMode /\ ~json[r])
         /\ json[r] => posts[r] = 1 /\ JsonMode
         /\ pc[r] = "answering" => posts[r] = 1 /\ ~json[r]
    ELSE posts[r] = 0 /\ ~json[r]

ChatInv ==
    /\ pc = [x \in Requests \cup Probes |-> pc[x]]
    /\ posts \in [Requests -> Nat] /\ json \in [Requests -> BOOLEAN]
    /\ \A r \in Requests : Posted(r)

\* A call begins, with JSON mode unless it is the one for the answer.
LEMMA PostingKeeps ==
  ASSUME ChatInv, NEW r \in Requests, NEW purpose \in Chatting, Posting(r, purpose)
  PROVE  ChatInv'
<1>1. (JsonMode /\ purpose # "answering") \in BOOLEAN
  BY SettingsAssumption
<1> QED
  BY <1>1 DEF ChatInv, Posted, Posting, Chatting

\* A call ends.
LEMMA NotPostingKeeps ==
  ASSUME ChatInv, NEW r \in Requests, NotPosting(r),
         NEW place, place \notin Chatting, pc' = [pc EXCEPT ![r] = place]
  PROVE  ChatInv'
  BY DEF ChatInv, Posted, NotPosting

\* A request or a probe goes on without a call.
LEMMA QuietKeeps ==
  ASSUME ChatInv, NEW x \in Requests \cup Probes, pc[x] \notin Chatting, UNCHANGED chat,
         NEW place, place \notin Chatting, pc' = [pc EXCEPT ![x] = place]
  PROVE  ChatInv'
  BY DEF ChatInv, Posted, chat

LEMMA StillKeeps ==
  ASSUME ChatInv, UNCHANGED <<pc, chat>>
  PROVE  ChatInv'
  BY DEF ChatInv, Posted, chat

LEMMA FallBackKeeps ==
  ASSUME ChatInv, NEW r \in Requests, FallBack(r)
  PROVE  ChatInv'
  BY DEF ChatInv, Posted, FallBack, Chatting

\* Candidates become evidence for a call, or the question is declined.
LEMMA UseKeeps ==
  ASSUME ChatInv, NEW r \in Requests, pc[r] \notin Chatting, NEW list, Use(r, list)
  PROVE  ChatInv'
<1>1. CASE Posting(r, "answering")
  BY <1>1, PostingKeeps DEF Chatting
<1>2. CASE pc' = [pc EXCEPT ![r] = "declined"] /\ UNCHANGED chat
  BY <1>2, QuietKeeps DEF Chatting
<1> QED
  BY <1>1, <1>2 DEF Use

LEMMA RoutedKeeps ==
  ASSUME ChatInv, NEW r \in Requests, NEW decision, Routed(r, decision)
  PROVE  ChatInv'
<1>1. PICK place \in {"granting", "other"} : pc' = [pc EXCEPT ![r] = place]
  BY DEF Routed
<1>2. place \notin Chatting
  BY DEF Chatting
<1> QED
  BY <1>1, <1>2, NotPostingKeeps DEF Routed

LEMMA ChatStepKeeps ==
  ASSUME ChatInv, NEW r \in Requests, Ask(r) \/ ChatStep(r)
  PROVE  ChatInv'
<1>1. CASE Ask(r)
  BY <1>1, PostingKeeps, RoutedKeeps DEF Ask, Chatting
<1>2. CASE RoutedByModel(r)
  BY <1>2, RoutedKeeps DEF RoutedByModel
<1>3. CASE Rewritten(r) \/ ChatFails(r) \/ Answer(r)
  <2>1. PICK place \in {"searching", "failed", "answered"} : pc' = [pc EXCEPT ![r] = place]
    BY <1>3 DEF Rewritten, ChatFails, Answer, Search
  <2>2. place \notin Chatting /\ NotPosting(r)
    BY <1>3 DEF Chatting, Rewritten, ChatFails, Answer
  <2> QED
    BY <2>1, <2>2, NotPostingKeeps
<1> QED
  BY <1>1, <1>2, <1>3, FallBackKeeps DEF ChatStep

LEMMA RequestStepKeeps ==
  ASSUME ChatInv, NEW r \in Requests, RequestStep(r) \/ Leave(r)
  PROVE  ChatInv'
<1>1. CASE ReadGrants(r)
  <2>1. pc[r] \notin Chatting
    BY <1>1 DEF ReadGrants, Chatting
  <2>2. CASE Posting(r, "rewriting")
    BY <2>2, PostingKeeps DEF Chatting
  <2>3. CASE (pc' = [pc EXCEPT ![r] = "declined"] \/ Search(r, 0)) /\ UNCHANGED chat
    BY <2>1, <2>3, QuietKeeps DEF Search, Chatting
  <2> QED
    BY <1>1, <2>2, <2>3 DEF ReadGrants
<1>2. CASE GrantsFail(r) \/ SearchFails(r)
  BY <1>2, QuietKeeps DEF GrantsFail, SearchFails, Chatting
<1>3. CASE Merge(r)
  <2>1. pc[r] \notin Chatting
    BY <1>3 DEF Merge, Chatting
  <2>2. CASE pc' = [pc EXCEPT ![r] = "reranking"] /\ UNCHANGED chat
    BY <2>1, <2>2, QuietKeeps DEF Chatting
  <2>3. CASE \E list : Use(r, list)
    BY <2>1, <2>3, UseKeeps
  <2> QED
    BY <1>3, <2>2, <2>3 DEF Merge
<1>4. CASE Reranked(r) \/ RerankFails(r)
  <2>1. pc[r] \notin Chatting /\ \E list : Use(r, list)
    BY <1>4 DEF Reranked, RerankFails, Chatting
  <2> QED
    BY <2>1, UseKeeps
<1>5. CASE UseReranker(r)
  BY <1>5, StillKeeps DEF UseReranker
<1>6. CASE Leave(r)
  BY <1>6, NotPostingKeeps DEF Leave, Chatting
<1> QED
  BY <1>1, <1>2, <1>3, <1>4, <1>5, <1>6, ChatStepKeeps DEF RequestStep

LEMMA ChatInvStep ==
  ASSUME ChatInv, [Next]_vars
  PROVE  ChatInv'
<1>1. CASE \E p \in Probes : Probe(p) \/ ProbeEnds(p)
  BY <1>1, QuietKeeps DEF Probe, ProbeEnds, Chatting
<1>2. CASE \E c \in Calls : CallStep(c)
  BY <1>2, StillKeeps DEF CallStep, UseEmbedder, Encode, EncodeFails, SearchEnds
<1>3. CASE ModelsStep \/ Done \/ UNCHANGED vars
  BY <1>3, StillKeeps DEF ModelsStep, Done, vars, chat
<1> QED
  BY <1>1, <1>2, <1>3, ChatStepKeeps, RequestStepKeeps DEF Next

LEMMA ChatInvStart ==
  ASSUME Init
  PROVE  ChatInv
BY DEF Init, ChatInv, Posted, Chatting

\* _request: a call sends one request, and one more without JSON mode when the first one
\* asked for it; the call for the answer sends one.
THEOREM AlwaysOneFallBack == Spec => []OneFallBack
<1>1. Init => ChatInv
  BY ChatInvStart
<1>2. ChatInv => OneFallBack
  BY DEF ChatInv, Posted, OneFallBack, Chatting
<1> QED
  BY <1>1, <1>2, ChatInvStep, PTL DEF Spec
-----------------------------------------------------------------------------
(***************************************************************************)
(* Fusion.  The CHOOSE of RrfOrder finds an order because the sums are     *)
(* numbers and chunks with equal sums are told apart by where they are     *)
(* seen first.  A fused list then holds each chunk of its lists once.      *)
(***************************************************************************)
\* The sum of finitely many numbers is a number.
LEMMA SumIsNatural ==
  ASSUME NEW S, IsFiniteSet(S), NEW f \in [S -> Nat]
  PROVE  SumFunction(f) \in Nat
<1> DEFINE Pick(s) == CHOOSE x \in s : TRUE
           Fold(g, s) == IF s = {} THEN 0 ELSE f[Pick(s)] + g[s \ {Pick(s)}]
           Turn(g) == [s \in SUBSET S |-> Fold(g, s)]
           step == [x \in S |-> [n \in Nat |-> f[x] + n]]
           pick == [s \in SUBSET S |-> Pick(s)]
<1>1. \A s \in SUBSET S : s # {} => Pick(s) \in s /\ pick[s] = Pick(s)
  OBVIOUS
<1>2. step \in [S -> [Nat -> Nat]]
  OBVIOUS
<1>3. PICK g : IsFold(S, Nat, 0, step, pick, g)
  <2>1. FoldStep(S, Nat, step, pick)
    <3> HIDE DEF step, pick
    <3> QED BY <1>1, <1>2 DEF FoldStep
  <2> HIDE DEF step, pick
  <2> QED BY <2>1, Folded
<1>4. g = Turn(g)
  <2>1. /\ g \in [SUBSET S -> Nat]
        /\ \A s \in SUBSET S : g[s] = IF s = {} THEN 0 ELSE step[pick[s]][g[s \ {pick[s]}]]
    <3> HIDE DEF step, pick
    <3> QED BY <1>3, Zenon DEF IsFold
  <2>2. ASSUME NEW s \in SUBSET S PROVE g[s] = Fold(g, s)
    <3>1. CASE s = {}
      BY <2>1, <3>1
    <3>2. CASE s # {}
      <4>1. Pick(s) \in S /\ pick[s] = Pick(s) /\ s \ {Pick(s)} \in SUBSET S
        BY <1>1, <3>2
      <4>2. g[s \ {Pick(s)}] \in Nat
        <5> HIDE DEF Pick
        <5> QED BY <2>1, <4>1
      <4>3. g[s] = step[Pick(s)][g[s \ {Pick(s)}]]
        <5> HIDE DEF step, pick, Pick
        <5> QED BY <2>1, <3>2, <4>1
      <4>4. step[Pick(s)][g[s \ {Pick(s)}]] = f[Pick(s)] + g[s \ {Pick(s)}]
        <5> HIDE DEF Pick
        <5> QED BY <4>1, <4>2
      <4> HIDE DEF Pick, step
      <4> QED BY <3>2, <4>3, <4>4
    <3> QED BY <3>1, <3>2
  <2> HIDE DEF Fold
  <2> QED BY <2>1, <2>2
<1> DEFINE fold == CHOOSE h : h = Turn(h)
<1>5. fold = Turn(fold)
  <2> HIDE DEF Turn
  <2> QED BY <1>4
<1>6. SumFunction(f) = fold[S]
  <2>1. DOMAIN f = S
    OBVIOUS
  <2> QED BY <2>1 DEF SumFunction, SumFunctionOnSet, FoldFunction, FoldFunctionOnSet, MapThenFoldSet
<1>7. \A s \in SUBSET S : fold[s] = Fold(fold, s)
  <2> HIDE DEF fold, Fold
  <2> QED BY <1>5, Zenon
<1> HIDE DEF fold
<1> DEFINE F == {s \in SUBSET S : fold[s] \in Nat}
<1>8. {} \in F
  BY <1>7
<1>9. ASSUME NEW s \in SUBSET S, s # {}, s \ {Pick(s)} \in F PROVE s \in F
  <2>1. Pick(s) \in S /\ fold[s] = f[Pick(s)] + fold[s \ {Pick(s)}]
    BY <1>1, <1>7, <1>9
  <2> HIDE DEF Pick
  <2> QED BY <1>9, <2>1
<1>10. S \in F
  <2>1. \A s \in SUBSET S : s # {} => \E x \in s : s \ {x} \in F => s \in F
    <3> HIDE DEF F
    <3> QED BY <1>1, <1>9
  <2>2. SUBSET S \subseteq F
    <3> HIDE DEF F
    <3> QED BY <1>8, <2>1, AllSubsets
  <2> QED BY <2>2
<1> QED BY <1>6, <1>10

\* Their product, too.
LEMMA ProductIsNatural ==
  ASSUME NEW S, IsFiniteSet(S), NEW f \in [S -> Nat]
  PROVE  FoldFunction(LAMBDA a, b : a * b, 1, f) \in Nat
<1> DEFINE Pick(s) == CHOOSE x \in s : TRUE
           Fold(g, s) == IF s = {} THEN 1 ELSE f[Pick(s)] * g[s \ {Pick(s)}]
           Turn(g) == [s \in SUBSET S |-> Fold(g, s)]
           step == [x \in S |-> [n \in Nat |-> f[x] * n]]
           pick == [s \in SUBSET S |-> Pick(s)]
<1>1. \A s \in SUBSET S : s # {} => Pick(s) \in s /\ pick[s] = Pick(s)
  OBVIOUS
<1>2. step \in [S -> [Nat -> Nat]]
  OBVIOUS
<1>3. PICK g : IsFold(S, Nat, 1, step, pick, g)
  <2>1. FoldStep(S, Nat, step, pick)
    <3> HIDE DEF step, pick
    <3> QED BY <1>1, <1>2 DEF FoldStep
  <2> HIDE DEF step, pick
  <2> QED BY <2>1, Folded
<1>4. g = Turn(g)
  <2>1. /\ g \in [SUBSET S -> Nat]
        /\ \A s \in SUBSET S : g[s] = IF s = {} THEN 1 ELSE step[pick[s]][g[s \ {pick[s]}]]
    <3> HIDE DEF step, pick
    <3> QED BY <1>3, Zenon DEF IsFold
  <2>2. ASSUME NEW s \in SUBSET S PROVE g[s] = Fold(g, s)
    <3>1. CASE s = {}
      BY <2>1, <3>1
    <3>2. CASE s # {}
      <4>1. Pick(s) \in S /\ pick[s] = Pick(s) /\ s \ {Pick(s)} \in SUBSET S
        BY <1>1, <3>2
      <4>2. g[s \ {Pick(s)}] \in Nat
        <5> HIDE DEF Pick
        <5> QED BY <2>1, <4>1
      <4>3. g[s] = step[Pick(s)][g[s \ {Pick(s)}]]
        <5> HIDE DEF step, pick, Pick
        <5> QED BY <2>1, <3>2, <4>1
      <4>4. step[Pick(s)][g[s \ {Pick(s)}]] = f[Pick(s)] * g[s \ {Pick(s)}]
        <5> HIDE DEF Pick
        <5> QED BY <4>1, <4>2
      <4> HIDE DEF Pick, step
      <4> QED BY <3>2, <4>3, <4>4
    <3> QED BY <3>1, <3>2
  <2> HIDE DEF Fold
  <2> QED BY <2>1, <2>2
<1> DEFINE fold == CHOOSE h : h = Turn(h)
<1>5. fold = Turn(fold)
  <2> HIDE DEF Turn
  <2> QED BY <1>4
<1>6. FoldFunction(LAMBDA a, b : a * b, 1, f) = fold[S]
  <2>1. DOMAIN f = S
    OBVIOUS
  <2> QED BY <2>1 DEF FoldFunction, FoldFunctionOnSet, MapThenFoldSet
<1>7. \A s \in SUBSET S : fold[s] = Fold(fold, s)
  <2> HIDE DEF fold, Fold
  <2> QED BY <1>5, Zenon
<1> HIDE DEF fold
<1> DEFINE F == {s \in SUBSET S : fold[s] \in Nat}
<1>8. {} \in F
  BY <1>7
<1>9. ASSUME NEW s \in SUBSET S, s # {}, s \ {Pick(s)} \in F PROVE s \in F
  <2>1. Pick(s) \in S /\ fold[s] = f[Pick(s)] * fold[s \ {Pick(s)}]
    BY <1>1, <1>7, <1>9
  <2> HIDE DEF Pick
  <2> QED BY <1>9, <2>1
<1>10. S \in F
  <2>1. \A s \in SUBSET S : s # {} => \E x \in s : s \ {x} \in F => s \in F
    <3> HIDE DEF F
    <3> QED BY <1>1, <1>9
  <2>2. SUBSET S \subseteq F
    <3> HIDE DEF F
    <3> QED BY <1>8, <2>1, AllSubsets
  <2> QED BY <2>2
<1> QED BY <1>6, <1>10

\* What the lists that are fused are: at least one, and each without repetitions.
Lists(lists) == \E n \in Nat \ {0} : lists \in [1..n -> ListOf(Hit)]

LEMMA ListFacts ==
  ASSUME NEW list \in ListOf(Hit)
  PROVE  /\ Len(list) \in Nat /\ DOMAIN list = 1..Len(list)
         /\ \A i \in DOMAIN list : /\ list[i] \in Hit
                                   /\ list[i].chunk \in Nat /\ list[i].score \in 0..100
         /\ \A i, j \in DOMAIN list : list[i].chunk = list[j].chunk => i = j
         /\ IsFiniteSet(ChunksOf(list)) /\ ChunksOf(list) \subseteq Nat
<1>1. list \in Seq(Hit) /\ Len(list) \in Nat /\ DOMAIN list = 1..Len(list)
  BY LenProperties DEF ListOf
<1>2. \A i \in DOMAIN list : list[i] \in Hit
  BY <1>1, ElementOfSeq
<1>3. \A i \in DOMAIN list : list[i].chunk \in Nat /\ list[i].score \in 0..100
  BY <1>2 DEF Hit
<1>4. IsFiniteSet(ChunksOf(list)) /\ ChunksOf(list) \subseteq Nat
  <2> DEFINE chunks == [i \in DOMAIN list |-> list[i].chunk]
  <2>1. chunks \in [DOMAIN list -> Nat]
    BY <1>3
  <2>2. IsFiniteSet(DOMAIN list)
    BY <1>1, FS_Interval
  <2>3. IsFiniteSet({chunks[i] : i \in DOMAIN list})
    BY <2>1, <2>2, FiniteRange
  <2>4. ChunksOf(list) = {chunks[i] : i \in DOMAIN list}
    BY DEF ChunksOf
  <2> QED BY <1>3, <2>3, <2>4 DEF ChunksOf
<1> QED BY <1>1, <1>2, <1>3, <1>4 DEF ListOf

\* A chunk of a list has one rank in it and one score.
LEMMA RankOfChunk ==
  ASSUME NEW list \in ListOf(Hit), NEW i \in DOMAIN list
  PROVE  /\ RankIn(list, list[i].chunk) = {i}
         /\ ScoreIn(list, list[i].chunk) = list[i].score
<1>1. RankIn(list, list[i].chunk) = {i}
  BY ListFacts DEF RankIn
<1>2. (CHOOSE k \in {i} : TRUE) = i
  OBVIOUS
<1> QED BY <1>1, <1>2 DEF ScoreIn

LEMMA ScoreOfChunk ==
  ASSUME NEW list \in ListOf(Hit), NEW c \in ChunksOf(list)
  PROVE  /\ \E i \in DOMAIN list : list[i].chunk = c /\ RankIn(list, c) = {i}
         /\ ScoreIn(list, c) \in 0..100
<1>1. PICK i \in DOMAIN list : list[i].chunk = c
  BY DEF ChunksOf
<1>2. RankIn(list, c) = {i} /\ ScoreIn(list, c) = list[i].score
  BY <1>1, RankOfChunk
<1>3. list[i].score \in 0..100
  BY ListFacts
<1> QED BY <1>1, <1>2, <1>3

\* A least number is found.
LEMMA MinFound ==
  ASSUME NEW S \in SUBSET Nat, S # {}
  PROVE  Min(S) \in S /\ \A n \in S : Min(S) <= n
BY LeastNatural DEF Min

LEMMA MaxFound ==
  ASSUME NEW S \in SUBSET Nat, S # {}, IsFiniteSet(S)
  PROVE  Max(S) \in S /\ \A n \in S : n <= Max(S)
<1>1. \E m \in S : \A n \in S : m >= n
  <2>1. PICK m \in S : \A n \in S : n <= m
    BY GreatestOfFinite
  <2> QED BY <2>1
<1>2. Max(S) \in S /\ \A n \in S : Max(S) >= n
  BY <1>1 DEF Max
<1> QED BY <1>2

\* The lists have finitely many chunks, all of which are numbers here.
LEMMA SeenFinite ==
  ASSUME NEW lists, Lists(lists)
  PROVE  IsFiniteSet(Seen(lists)) /\ Seen(lists) \subseteq Nat
<1>1. PICK n \in Nat \ {0} : lists \in [1..n -> ListOf(Hit)]
  BY DEF Lists
<1> DEFINE chunks == [i \in 1..n |-> ChunksOf(lists[i])]
<1>2. \A i \in 1..n : IsFiniteSet(ChunksOf(lists[i])) /\ ChunksOf(lists[i]) \subseteq Nat
  BY <1>1, ListFacts
<1>3. chunks \in [1..n -> SUBSET Nat]
  BY <1>2
<1>4. IsFiniteSet({chunks[i] : i \in 1..n})
  <2>1. IsFiniteSet(1..n)
    BY FS_Interval
  <2> HIDE DEF chunks
  <2> QED BY <1>3, <2>1, FiniteRange
<1>5. \A T \in {chunks[i] : i \in 1..n} : IsFiniteSet(T)
  BY <1>2
<1>6. IsFiniteSet(UNION {chunks[i] : i \in 1..n})
  <2> HIDE DEF chunks
  <2> QED BY <1>4, <1>5, FS_UNION
<1>7. Seen(lists) = UNION {chunks[i] : i \in 1..n}
  BY <1>1 DEF Seen
<1>8. Seen(lists) \subseteq Nat
  BY <1>1, <1>2 DEF Seen
<1> QED BY <1>6, <1>7, <1>8

\* The sum of a chunk is a number.
LEMMA RrfIsNatural ==
  ASSUME NEW lists, Lists(lists), NEW c
  PROVE  Rrf(lists, c) \in Nat
<1>1. PICK m \in Nat \ {0} : lists \in [1..m -> ListOf(Hit)]
  BY DEF Lists
<1>2. RrfK \in Nat
  BY SettingsAssumption
<1> DEFINE lengths == [i \in 1..m |-> Len(lists[i])]
           n == Max({Len(lists[i]) : i \in DOMAIN lists})
<1>3. n \in Nat
  <2>1. lengths \in [1..m -> Nat]
    BY <1>1, ListFacts
  <2>2. IsFiniteSet(1..m) /\ 1 \in 1..m
    BY FS_Interval
  <2>3. IsFiniteSet({lengths[i] : i \in 1..m})
    <3> HIDE DEF lengths
    <3> QED BY <2>1, <2>2, FiniteRange
  <2>4. {lengths[i] : i \in 1..m} = {Len(lists[i]) : i \in DOMAIN lists}
    BY <1>1
  <2>5. {lengths[i] : i \in 1..m} \in SUBSET Nat /\ {lengths[i] : i \in 1..m} # {}
    BY <2>1, <2>2
  <2> HIDE DEF lengths
  <2> QED BY <2>3, <2>4, <2>5, MaxFound
<1> HIDE DEF n
<1>4. ASSUME NEW k PROVE Weight(n, k) \in Nat
  <2> DEFINE others == (1..n) \ {k}
             f == [i \in others |-> RrfK + i]
  <2>1. IsFiniteSet(others)
    <3>1. IsFiniteSet(1..n)
      BY <1>3, FS_Interval
    <3> QED BY <3>1, FS_Difference
  <2>2. f \in [others -> Nat]
    BY <1>2, <1>3
  <2>3. Weight(n, k) = FoldFunction(LAMBDA a, b : a * b, 1, f)
    BY DEF Weight
  <2> HIDE DEF f, others
  <2> QED BY <2>1, <2>2, <2>3, ProductIsNatural
<1> DEFINE of(i) == [k \in RankIn(lists[i], c) |-> Weight(n, k)]
           sums == [i \in 1..m |-> SumFunction(of(i))]
<1>5. ASSUME NEW i \in 1..m PROVE SumFunction(of(i)) \in Nat
  <2>1. IsFiniteSet(RankIn(lists[i], c))
    <3>1. DOMAIN lists[i] = 1..Len(lists[i]) /\ Len(lists[i]) \in Nat
      BY <1>1, ListFacts
    <3>2. RankIn(lists[i], c) \in SUBSET (1..Len(lists[i]))
      BY <3>1 DEF RankIn
    <3>3. IsFiniteSet(1..Len(lists[i]))
      BY <3>1, FS_Interval
    <3> QED BY <3>2, <3>3, FS_Subset
  <2>2. of(i) \in [RankIn(lists[i], c) -> Nat]
    BY <1>4
  <2> HIDE DEF of
  <2> QED BY <2>1, <2>2, SumIsNatural
<1>6. SumFunction(sums) \in Nat
  <2>1. sums \in [1..m -> Nat]
    BY <1>5
  <2>2. IsFiniteSet(1..m)
    BY FS_Interval
  <2> HIDE DEF sums
  <2> QED BY <2>1, <2>2, SumIsNatural
<1>7. Rrf(lists, c) = SumFunction(sums)
  BY <1>1 DEF Rrf, n
<1> QED BY <1>6, <1>7

\* Where a chunk is seen first, and at which rank.
LEMMA FirstSeen ==
  ASSUME NEW lists, Lists(lists), NEW c \in Seen(lists)
  PROVE  LET i == FirstList(lists, c)
         IN  /\ i \in DOMAIN lists /\ i \in Nat \ {0} /\ lists[i] \in ListOf(Hit)
             /\ c \in ChunksOf(lists[i])
             /\ \A j \in DOMAIN lists : c \in ChunksOf(lists[j]) => i <= j
             /\ Min(RankIn(lists[i], c)) \in DOMAIN lists[i]
             /\ lists[i][Min(RankIn(lists[i], c))].chunk = c
<1>1. PICK n \in Nat \ {0} : lists \in [1..n -> ListOf(Hit)]
  BY DEF Lists
<1> DEFINE S == {i \in DOMAIN lists : c \in ChunksOf(lists[i])}
           i == FirstList(lists, c)
<1>2. S \in SUBSET Nat /\ S # {}
  BY <1>1 DEF Seen
<1>3. i \in S /\ \A j \in S : i <= j
  <2>1. i = Min(S)
    BY DEF FirstList
  <2> HIDE DEF S
  <2> QED BY <1>2, <2>1, MinFound
<1>4. /\ i \in DOMAIN lists /\ i \in Nat \ {0} /\ lists[i] \in ListOf(Hit)
      /\ c \in ChunksOf(lists[i])
      /\ \A j \in DOMAIN lists : c \in ChunksOf(lists[j]) => i <= j
  BY <1>1, <1>3
<1> HIDE DEF i, S
<1>5. PICK k \in DOMAIN lists[i] : lists[i][k].chunk = c /\ RankIn(lists[i], c) = {k}
  BY <1>4, ScoreOfChunk
<1>6. Min({k}) = k
  <2>1. k \in Nat
    BY <1>4, ListFacts
  <2> QED BY <2>1, MinFound
<1> QED BY <1>4, <1>5, <1>6 DEF i

\* Before puts the chunks in a row.
LEMMA BeforeOrders ==
  ASSUME NEW lists, Lists(lists)
  PROVE  Orders({p \in Seen(lists) \X Seen(lists) : Before(lists, p[1], p[2])}, Seen(lists))
<1> DEFINE S == Seen(lists)
           sum == [c \in S |-> Rrf(lists, c)]
           in == [c \in S |-> FirstList(lists, c)]
           rank == [c \in S |-> Min(RankIn(lists[FirstList(lists, c)], c))]
           R == {p \in S \X S : Before(lists, p[1], p[2])}
<1>1. sum \in [S -> Nat] /\ in \in [S -> Nat] /\ rank \in [S -> Nat]
  <2>1. \A c \in S : sum[c] \in Nat
    BY RrfIsNatural
  <2>2. \A c \in S : in[c] \in Nat /\ rank[c] \in Nat
    BY FirstSeen, ListFacts
  <2> QED BY <2>1, <2>2
<1>2. \A a, b \in S : in[a] = in[b] /\ rank[a] = rank[b] => a = b
  <2>1. \A a \in S : lists[in[a]][rank[a]].chunk = a
    BY FirstSeen
  <2> HIDE DEF in, rank
  <2> QED BY <2>1
<1>3. \A a, b \in S : <<a, b>> \in R <=>
         \/ sum[a] > sum[b]
         \/ sum[a] = sum[b] /\ in[a] < in[b]
         \/ sum[a] = sum[b] /\ in[a] = in[b] /\ rank[a] < rank[b]
  <2> SUFFICES ASSUME NEW a \in S, NEW b \in S
               PROVE  Before(lists, a, b) <=>
                         \/ sum[a] > sum[b]
                         \/ sum[a] = sum[b] /\ in[a] < in[b]
                         \/ sum[a] = sum[b] /\ in[a] = in[b] /\ rank[a] < rank[b]
    OBVIOUS
  <2>1. /\ sum[a] = Rrf(lists, a) /\ sum[b] = Rrf(lists, b)
        /\ in[a] = FirstList(lists, a) /\ in[b] = FirstList(lists, b)
        /\ rank[a] = Min(RankIn(lists[FirstList(lists, a)], a))
        /\ rank[b] = Min(RankIn(lists[FirstList(lists, b)], b))
    OBVIOUS
  <2>2. Earlier(lists, a, b) <=> in[a] < in[b] \/ (in[a] = in[b] /\ rank[a] < rank[b])
    <3>1. Earlier(lists, a, b) <=>
             \/ FirstList(lists, a) < FirstList(lists, b)
             \/ /\ FirstList(lists, a) = FirstList(lists, b)
                /\ Min(RankIn(lists[FirstList(lists, a)], a))
                      < Min(RankIn(lists[FirstList(lists, b)], b))
      BY DEF Earlier
    <3> HIDE DEF sum, in, rank
    <3> QED BY <2>1, <3>1
  <2> HIDE DEF sum, in, rank
  <2> QED BY <2>1, <2>2 DEF Before
<1> HIDE DEF S, sum, in, rank, R
<1>4. \A x \in S : <<x, x>> \notin R
  BY <1>1, <1>3
<1>5. \A x, y \in S : x # y => <<x, y>> \in R \/ <<y, x>> \in R
  BY <1>1, <1>2, <1>3
<1>6. \A x, y, z \in S : <<x, y>> \in R /\ <<y, z>> \in R => <<x, z>> \in R
  BY <1>1, <1>3
<1> QED BY <1>4, <1>5, <1>6 DEF Orders, S, R

\* The chunks of the lists in order, each once.
LEMMA RrfOrderSorts ==
  ASSUME NEW lists, Lists(lists)
  PROVE  /\ Cardinality(Seen(lists)) \in Nat
         /\ RrfOrder(lists) \in [1..Cardinality(Seen(lists)) -> Seen(lists)]
         /\ \A i, j \in 1..Cardinality(Seen(lists)) :
               RrfOrder(lists)[i] = RrfOrder(lists)[j] => i = j
         /\ \A c \in Seen(lists) : \E i \in 1..Cardinality(Seen(lists)) : RrfOrder(lists)[i] = c
<1> DEFINE S == Seen(lists)
           R == {p \in S \X S : Before(lists, p[1], p[2])}
           n == Cardinality(S)
           order == RrfOrder(lists)
<1>1. IsFiniteSet(S) /\ n \in Nat
  BY SeenFinite, FS_CardinalityType
<1>2. Orders(R, S)
  BY BeforeOrders
<1>3. \E f \in [1..n -> S] : \A i, j \in DOMAIN f : i < j => Before(lists, f[i], f[j])
  <2>1. PICK f : InOrder(R, S, f)
    <3> HIDE DEF R, S
    <3> QED BY <1>1, <1>2, Sorted
  <2>2. f \in [1..n -> S] /\ \A i, j \in 1..n : i < j => <<f[i], f[j]>> \in R
    BY <2>1 DEF InOrder
  <2>3. \A i, j \in 1..n : i < j => Before(lists, f[i], f[j])
    BY <2>2
  <2> QED BY <2>2, <2>3
<1>4. order = CHOOSE f \in [1..n -> S] :
                 \A i, j \in DOMAIN f : i < j => Before(lists, f[i], f[j])
  BY DEF RrfOrder
<1>5. /\ order \in [1..n -> S]
      /\ \A i, j \in DOMAIN order : i < j => Before(lists, order[i], order[j])
  <2> HIDE DEF order, S, n
  <2> QED BY <1>3, <1>4
<1> HIDE DEF order, n
<1>6. ASSUME NEW i \in 1..n, NEW j \in 1..n, order[i] = order[j] PROVE i = j
  <2>1. \A k, l \in 1..n : k < l => order[k] # order[l]
    <3> SUFFICES ASSUME NEW k \in 1..n, NEW l \in 1..n, k < l, order[k] = order[l] PROVE FALSE
      OBVIOUS
    <3>1. order[k] \in S /\ Before(lists, order[k], order[k])
      BY <1>5
    <3>2. <<order[k], order[k]>> \in R
      BY <3>1
    <3> HIDE DEF R, S
    <3> QED BY <1>2, <3>1, <3>2 DEF Orders
  <2>2. i \in Nat /\ j \in Nat
    BY <1>1
  <2>3. ~ (i < j) /\ ~ (j < i)
    BY <1>6, <2>1
  <2> QED BY <2>2, <2>3
<1>7. order \in Surjection(1..n, S)
  <2>1. order \in Injection(1..n, S)
    BY <1>5, <1>6 DEF Injection, IsInjective
  <2>2. Cardinality(1..n) = n
    BY <1>1, FS_Interval
  <2> HIDE DEF S
  <2> QED BY <1>1, <2>1, <2>2, FS_Injection DEF n
<1> QED BY <1>1, <1>5, <1>6, <1>7 DEF Surjection, order, n

\* Fused lists with scores.
LEMMA ScoredList ==
  ASSUME NEW lists, Lists(lists), NEW score \in [Seen(lists) -> 0..100]
  PROVE  LET list == Scored(RrfOrder(lists), score)
         IN  /\ list \in ListOf(Hit)
             /\ Len(list) = Cardinality(Seen(lists))
             /\ \A c \in Seen(lists) : \E i \in DOMAIN list :
                   list[i].chunk = c /\ list[i].score = score[c]
<1> DEFINE S == Seen(lists)
           n == Cardinality(S)
           order == RrfOrder(lists)
           list == Scored(order, score)
<1>1. /\ n \in Nat /\ order \in [1..n -> S]
      /\ \A i, j \in 1..n : order[i] = order[j] => i = j
      /\ \A c \in S : \E i \in 1..n : order[i] = c
  BY RrfOrderSorts
<1>2. S \subseteq Nat
  BY SeenFinite
<1> HIDE DEF order, n, S
<1>3. list = [i \in 1..n |-> [chunk |-> order[i], score |-> score[order[i]]]]
  BY <1>1 DEF Scored
<1>4. \A i \in 1..n : order[i] \in S /\ order[i] \in Nat /\ score[order[i]] \in 0..100
  BY <1>1, <1>2 DEF S
<1>5. list \in [1..n -> Hit]
  <2>1. \A i \in 1..n : [chunk |-> order[i], score |-> score[order[i]]] \in Hit
    BY <1>4 DEF Hit
  <2> HIDE DEF list
  <2> QED BY <1>3, <2>1
<1>6. list \in Seq(Hit)
  BY <1>1, <1>5, SeqDef
<1>7. DOMAIN list = 1..n /\ Len(list) = n
  BY <1>1, <1>3, <1>6, LenProperties
<1>8. \A i \in 1..n : list[i].chunk = order[i] /\ list[i].score = score[order[i]]
  BY <1>3
<1> HIDE DEF list
<1>9. list \in ListOf(Hit)
  BY <1>1, <1>6, <1>7, <1>8 DEF ListOf
<1>10. \A c \in S : \E i \in DOMAIN list : list[i].chunk = c /\ list[i].score = score[c]
  BY <1>1, <1>7, <1>8
<1> QED BY <1>7, <1>9, <1>10 DEF list, n, S, order

LEMMA FusedList ==
  ASSUME NEW dense \in Dense, NEW sparse \in Sparse
  PROVE  Fused(dense, sparse) \in ListOf(Hit)
<1> DEFINE lists == <<dense, sparse>>
           In(c) == {k \in 1..2 : c \in ChunksOf(lists[k])}
           scores(c) == {ScoreIn(lists[i], c) : i \in In(c)}
           score == [c \in Seen(lists) |-> Max(scores(c))]
<1>1. dense \in ListOf(Hit) /\ sparse \in ListOf(Hit)
  BY SettingsAssumption
<1>2. lists \in [1..2 -> ListOf(Hit)] /\ DOMAIN lists = 1..2
  BY <1>1
<1>3. Lists(lists)
  BY <1>2 DEF Lists
<1> HIDE DEF lists
<1>4. ASSUME NEW c \in Seen(lists) PROVE Max(scores(c)) \in 0..100
  <2>1. \A i \in In(c) : ScoreIn(lists[i], c) \in 0..100
    BY <1>2, ScoreOfChunk
  <2>2. In(c) # {}
    BY <1>2 DEF Seen
  <2>3. scores(c) \subseteq 0..100 /\ scores(c) # {}
    BY <2>1, <2>2
  <2>4. IsFiniteSet(0..100)
    <3>1. 0 \in Int /\ 100 \in Int
      OBVIOUS
    <3> QED BY <3>1, FS_Interval
  <2>5. IsFiniteSet(scores(c)) /\ scores(c) \in SUBSET Nat
    <3> HIDE DEF scores
    <3> QED BY <2>3, <2>4, FS_Subset
  <2> HIDE DEF scores
  <2> QED BY <2>3, <2>5, MaxFound
<1>5. score \in [Seen(lists) -> 0..100]
  BY <1>4
<1>6. Fused(dense, sparse) = Scored(RrfOrder(lists), score)
  BY DEF Fused, lists
<1> HIDE DEF score
<1> QED BY <1>3, <1>5, <1>6, ScoredList

LEMMA GroupsAreLists == Groups \subseteq ListOf(Hit)
BY FusedList DEF Groups

LEMMA GroupListsAreLists ==
  ASSUME NEW lists \in GroupLists
  PROVE  Lists(lists) /\ 1 \in DOMAIN lists /\ lists[1] \in ListOf(Hit)
<1>1. PICK r \in Requests : \E n \in 1..1 + MaxRewrites[r] : lists \in [1..n -> Groups]
  BY DEF GroupLists
<1>2. PICK n \in 1..1 + MaxRewrites[r] : lists \in [1..n -> Groups]
  BY <1>1
<1>3. n \in Nat \ {0} /\ lists \in [1..n -> ListOf(Hit)]
  <2>1. MaxRewrites[r] \in Nat
    BY SettingsAssumption
  <2> QED BY <1>2, <2>1, GroupsAreLists
<1>4. 1 \in 1..n
  BY <1>3
<1> QED BY <1>3, <1>4 DEF Lists

\* _rrf_merge_many keeps all chunks, those of the first list with their scores.
LEMMA MergedKeepsFirst ==
  ASSUME NEW lists \in GroupLists
  PROVE  LET list == Merged[lists]
         IN  /\ list \in ListOf(Hit)
             /\ Len(list) = Cardinality(Seen(lists))
             /\ \A i \in DOMAIN lists[1] : \E j \in DOMAIN list :
                   /\ list[j].chunk = lists[1][i].chunk
                   /\ list[j].score = lists[1][i].score
<1> DEFINE score == [c \in Seen(lists) |-> ScoreIn(lists[FirstList(lists, c)], c)]
           list == Scored(RrfOrder(lists), score)
<1>1. Lists(lists) /\ 1 \in DOMAIN lists /\ lists[1] \in ListOf(Hit)
  BY GroupListsAreLists
<1>2. Merged[lists] = list
  BY DEF Merged, MergedMany
<1>3. score \in [Seen(lists) -> 0..100]
  <2>1. \A c \in Seen(lists) : ScoreIn(lists[FirstList(lists, c)], c) \in 0..100
    BY <1>1, FirstSeen, ScoreOfChunk
  <2> QED BY <2>1
<1>4. /\ list \in ListOf(Hit) /\ Len(list) = Cardinality(Seen(lists))
      /\ \A c \in Seen(lists) : \E j \in DOMAIN list :
            list[j].chunk = c /\ list[j].score = score[c]
  <2> HIDE DEF score
  <2> QED BY <1>1, <1>3, ScoredList
<1>5. ASSUME NEW i \in DOMAIN lists[1]
      PROVE  LET c == lists[1][i].chunk
             IN  c \in Seen(lists) /\ score[c] = lists[1][i].score
  <2> DEFINE c == lists[1][i].chunk
  <2>1. c \in ChunksOf(lists[1])
    BY DEF ChunksOf
  <2>2. c \in Seen(lists)
    BY <1>1, <2>1 DEF Seen
  <2>3. FirstList(lists, c) = 1
    <3>1. FirstList(lists, c) \in Nat \ {0} /\ FirstList(lists, c) <= 1
      BY <1>1, <2>1, <2>2, FirstSeen
    <3> QED BY <3>1
  <2>4. ScoreIn(lists[1], c) = lists[1][i].score
    BY <1>1, RankOfChunk
  <2> QED BY <2>2, <2>3, <2>4
<1> HIDE DEF list, score
<1> QED BY <1>2, <1>4, <1>5
-----------------------------------------------------------------------------
(***************************************************************************)
(* Evidence.                                                               *)
(***************************************************************************)
LEMMA FirstOfList ==
  ASSUME NEW list \in ListOf(Hit), NEW n \in Nat
  PROVE  /\ First(list, n) \in ListOf(Hit) /\ Len(First(list, n)) <= n
         /\ Len(list) <= n => First(list, n) = list
<1> DEFINE m == IF Len(list) < n THEN Len(list) ELSE n
<1>1. list \in Seq(Hit) /\ Len(list) \in Nat /\ DOMAIN list = 1..Len(list)
  BY LenProperties DEF ListOf
<1>2. m \in Nat /\ m <= Len(list) /\ m <= n
  <2>1. Len(list) \in Nat
    BY <1>1
  <2> QED BY <2>1
<1>8. Len(list) <= n => m = Len(list)
  <2>1. Len(list) \in Nat
    BY <1>1
  <2> QED BY <2>1
<1>3. First(list, n) = SubSeq(list, 1, m)
  BY DEF First
<1> HIDE DEF m
<1>4. SubSeq(list, 1, m) = [i \in 1..m |-> list[i]]
  BY <1>1, <1>2, SubSeqProperties
<1>5. SubSeq(list, 1, m) \in Seq(Hit) /\ Len(SubSeq(list, 1, m)) = m
  BY <1>1, <1>2, SubSeqProperties
<1>6. First(list, n) \in ListOf(Hit)
  <2>1. \A i, j \in 1..m : i \in DOMAIN list /\ j \in DOMAIN list
    BY <1>1, <1>2
  <2> QED BY <1>3, <1>4, <1>5, <2>1 DEF ListOf
<1>7. ASSUME Len(list) <= n PROVE First(list, n) = list
  <2>1. m = Len(list)
    BY <1>7, <1>8
  <2>2. list = [i \in 1..Len(list) |-> list[i]]
    BY <1>1
  <2> QED BY <1>3, <1>4, <2>1, <2>2
<1> QED BY <1>2, <1>3, <1>5, <1>6, <1>7

\* A list that the reranker has judged is one of the same chunks.
LEMMA RescoredList ==
  ASSUME NEW list \in ListOf(Hit), NEW s \in Rescored(list)
  PROVE  s \in ListOf(Hit)
<1> DEFINE n == Len(list)
           chunk == [i \in 1..n |-> s[i].chunk]
           old == [i \in 1..n |-> list[i].chunk]
<1>1. n \in Nat /\ DOMAIN list = 1..n
  BY ListFacts
<1>2. s \in [1..n -> [chunk : ChunksOf(list), score : RerankScores]]
  BY <1>1 DEF Rescored
<1>3. ChunksOf(s) = ChunksOf(list) /\ ChunksOf(list) \subseteq Nat
  BY ListFacts DEF Rescored
<1>4. s \in [1..n -> Hit]
  BY <1>2, <1>3, SettingsAssumption DEF Hit
<1>5. old \in Bijection(1..n, ChunksOf(list))
  <2>1. old \in [1..n -> ChunksOf(list)]
    BY <1>1 DEF ChunksOf
  <2>2. \A i, j \in 1..n : old[i] = old[j] => i = j
    BY <1>1, ListFacts
  <2>3. \A c \in ChunksOf(list) : \E i \in 1..n : old[i] = c
    BY <1>1 DEF ChunksOf
  <2> HIDE DEF old
  <2> QED BY <2>1, <2>2, <2>3 DEF Bijection, Injection, Surjection, IsInjective
<1>6. Cardinality(1..n) = Cardinality(ChunksOf(list)) /\ IsFiniteSet(1..n)
  <2>1. IsFiniteSet(1..n)
    BY <1>1, FS_Interval
  <2> HIDE DEF old
  <2> QED BY <1>5, <2>1, FS_Bijection DEF ExistsBijection
<1>7. chunk \in Surjection(1..n, ChunksOf(list))
  <2>1. chunk \in [1..n -> ChunksOf(list)]
    BY <1>2
  <2>2. \A c \in ChunksOf(list) : \E i \in 1..n : chunk[i] = c
    <3>1. DOMAIN s = 1..n
      BY <1>2
    <3> QED BY <1>3, <3>1 DEF ChunksOf
  <2> HIDE DEF chunk
  <2> QED BY <2>1, <2>2 DEF Surjection
<1>8. chunk \in Injection(1..n, ChunksOf(list))
  <2> HIDE DEF chunk
  <2> QED BY <1>6, <1>7, FS_SurjSameCardinalityImpliesInj
<1>9. \A i, j \in 1..n : s[i].chunk = s[j].chunk => i = j
  <2>1. \A i, j \in 1..n : chunk[i] = chunk[j] => i = j
    <3> HIDE DEF chunk
    <3> QED BY <1>8 DEF Injection, IsInjective
  <2> QED BY <2>1
<1>10. s \in Seq(Hit) /\ DOMAIN s = 1..n
  BY <1>1, <1>4, SeqDef
<1> QED BY <1>9, <1>10 DEF ListOf

\* What is above the threshold stays, in order and each hit once.
LEMMA RelevantKeeps ==
  ASSUME NEW list \in ListOf(Hit)
  PROVE  LET e == Relevant(list)
         IN  /\ e \in ListOf(Hit) /\ Len(e) <= Len(list)
             /\ \A i \in DOMAIN e : e[i].score >= MinScore
             /\ \A i \in DOMAIN list : list[i].score >= MinScore =>
                   list[i].chunk \in ChunksOf(e)
<1> DEFINE n == Len(list)
           good(k) == list[k].score >= MinScore
           Turn(k, f) == IF k = 0 THEN << >>
                         ELSE IF good(k) THEN Append(f[k - 1], list[k]) ELSE f[k - 1]
           Def(f) == [k \in 0..n |-> Turn(k, f)]
           kept == CHOOSE f : f = Def(f)
           turn == [k \in Nat |-> [e \in Seq(Hit) |->
                       IF k + 1 \in 1..n /\ good(k + 1) THEN Append(e, list[k + 1]) ELSE e]]
<1>1. n \in Nat /\ DOMAIN list = 1..n /\ \A k \in 1..n : list[k] \in Hit
  BY ListFacts
<1>2. StepsIn(Seq(Hit), turn)
  <2>1. \A k \in Nat : \A e \in Seq(Hit) : k + 1 \in 1..n => Append(e, list[k + 1]) \in Seq(Hit)
    BY <1>1, AppendProperties
  <2> HIDE DEF n, good
  <2> QED BY <2>1 DEF StepsIn
<1>3. PICK g : Recurs(n, Seq(Hit), << >>, turn, g)
  <2>1. << >> \in Seq(Hit)
    BY EmptySeq
  <2> HIDE DEF turn, n
  <2> QED BY <1>1, <1>2, <2>1, Recursion
<1>4. g = Def(g)
  <2>1. g \in [0..n -> Seq(Hit)]
    BY <1>3 DEF Recurs
  <2>2. \A k \in 0..n : g[k] = IF k = 0 THEN << >> ELSE turn[k - 1][g[k - 1]]
    <3> HIDE DEF turn, n
    <3> QED BY <1>3, Zenon DEF Recurs
  <2>3. ASSUME NEW k \in 0..n PROVE g[k] = Turn(k, g)
    <3>1. CASE k = 0
      BY <2>2, <3>1
    <3>2. CASE k # 0
      <4>1. k - 1 \in Nat /\ k - 1 \in 0..n /\ (k - 1) + 1 = k /\ k \in 1..n
        BY <1>1, <3>2
      <4>2. g[k - 1] \in Seq(Hit)
        <5> HIDE DEF n
        <5> QED BY <2>1, <4>1
      <4>3. turn[k - 1][g[k - 1]] = IF good(k) THEN Append(g[k - 1], list[k]) ELSE g[k - 1]
        <5> HIDE DEF n, good
        <5> QED BY <4>1, <4>2
      <4> HIDE DEF turn, good, n
      <4> QED BY <2>2, <3>2, <4>3
    <3> QED BY <3>1, <3>2
  <2> HIDE DEF Turn, n
  <2> QED BY <2>1, <2>3
<1>5. kept = Def(kept)
  <2> HIDE DEF Def
  <2> QED BY <1>4
<1>6. \A k \in 0..n : kept[k] = Turn(k, kept)
  <2> HIDE DEF kept, Turn, n
  <2> QED BY <1>5, Zenon
<1>7. Relevant(list) = kept[n]
  BY DEF Relevant
<1> HIDE DEF kept
<1> DEFINE From(e, k) ==
              /\ e \in Seq(Hit) /\ Len(e) <= k
              /\ \A i \in DOMAIN e : \E j \in 1..k : j \in 1..n /\ e[i] = list[j] /\ good(j)
              /\ \A i, j \in DOMAIN e : e[i].chunk = e[j].chunk => i = j
              /\ \A j \in 1..k : good(j) => \E i \in DOMAIN e : e[i] = list[j]
           T == {k \in 0..n : From(kept[k], k)}
<1>8. 0 \in T
  <2>1. kept[0] = << >> /\ 0 \in 0..n
    BY <1>1, <1>6
  <2>2. From(<< >>, 0)
    BY EmptySeq
  <2> HIDE DEF From
  <2> QED BY <2>1, <2>2
<1>9. ASSUME NEW k \in 0..n, k # n, k \in T PROVE k + 1 \in T
  <2> DEFINE e == kept[k]
             h == list[k + 1]
  <2>1. k \in Nat /\ k + 1 \in 1..n /\ k + 1 \in 0..n /\ (k + 1) - 1 = k /\ k + 1 # 0
    BY <1>1, <1>9
  <2>2. From(e, k)
    BY <1>9
  <2>3. kept[k + 1] = IF good(k + 1) THEN Append(e, h) ELSE e
    <3> HIDE DEF good, n
    <3> QED BY <1>6, <2>1
  <2>4. \A j \in 1..k + 1 : j \in 1..k \/ j = k + 1
    BY <2>1
  <2>5. \A j \in 1..k : j \in 1..k + 1
    BY <2>1
  <2> HIDE DEF e, n
  <2>6. CASE ~ good(k + 1)
    <3>1. kept[k + 1] = e
      BY <2>3, <2>6
    <3>2. Len(e) \in Nat
      BY <2>2, LenProperties
    <3>3. From(e, k + 1)
      <4>1. Len(e) <= k + 1
        BY <2>1, <2>2, <3>2
      <4> QED BY <2>2, <2>4, <2>5, <2>6, <4>1
    <3> HIDE DEF From
    <3> QED BY <2>1, <3>1, <3>3
  <2>7. CASE good(k + 1)
    <3> DEFINE m == Len(e)
               f == Append(e, h)
    <3>1. kept[k + 1] = f
      BY <2>3, <2>7
    <3>2. h \in Hit /\ e \in Seq(Hit) /\ m \in Nat /\ DOMAIN e = 1..m
      BY <1>1, <2>1, <2>2, LenProperties
    <3>3. /\ f \in Seq(Hit) /\ Len(f) = m + 1 /\ DOMAIN f = 1..m + 1
          /\ \A i \in 1..m : f[i] = e[i]
          /\ f[m + 1] = h
      <4>1. f \in Seq(Hit) /\ Len(f) = m + 1
        BY <3>2, AppendProperties
      <4>2. (\A i \in 1..m : f[i] = e[i]) /\ f[m + 1] = h
        BY <3>2, AppendProperties
      <4>3. DOMAIN f = 1..m + 1
        <5> HIDE DEF f, m
        <5> QED BY <4>1, LenProperties
      <4> QED BY <4>1, <4>2, <4>3
    <3>4. \A i \in 1..m + 1 : i \in 1..m \/ i = m + 1
      BY <3>2
    <3>5. \A i \in 1..m : i \in 1..m + 1
      BY <3>2
    <3>6. m <= k /\ m + 1 \in 1..m + 1
      BY <2>2, <3>2
    <3> HIDE DEF f, m, h
    <3>7. Len(f) <= k + 1
      BY <2>1, <3>2, <3>3, <3>6
    <3>8. \A i \in DOMAIN f : \E j \in 1..k + 1 : j \in 1..n /\ f[i] = list[j] /\ good(j)
      <4> SUFFICES ASSUME NEW i \in 1..m + 1
                   PROVE  \E j \in 1..k + 1 : j \in 1..n /\ f[i] = list[j] /\ good(j)
        BY <3>3
      <4>1. CASE i = m + 1
        <5>1. k + 1 \in 1..k + 1
          BY <2>1
        <5> QED BY <2>1, <2>7, <3>3, <4>1, <5>1 DEF h
      <4>2. CASE i \in 1..m
        <5>1. PICK j \in 1..k : j \in 1..n /\ e[i] = list[j] /\ good(j)
          BY <2>2, <3>2, <4>2
        <5> QED BY <2>5, <3>3, <4>2, <5>1
      <4> QED BY <3>4, <4>1, <4>2
    <3>9. \A i \in 1..m : e[i].chunk # h.chunk
      <4> SUFFICES ASSUME NEW i \in 1..m, e[i].chunk = h.chunk PROVE FALSE
        OBVIOUS
      <4>1. PICK j \in 1..k : j \in 1..n /\ e[i] = list[j]
        BY <2>2, <3>2
      <4>2. j = k + 1
        BY <1>1, <2>1, <4>1, ListFacts DEF h
      <4> QED BY <2>1, <4>1, <4>2
    <3>10. \A i, j \in DOMAIN f : f[i].chunk = f[j].chunk => i = j
      <4> SUFFICES ASSUME NEW i \in 1..m + 1, NEW j \in 1..m + 1, f[i].chunk = f[j].chunk
                   PROVE  i = j
        BY <3>3
      <4>1. CASE i \in 1..m /\ j \in 1..m
        BY <2>2, <3>2, <3>3, <4>1
      <4>2. CASE i \in 1..m /\ j = m + 1
        BY <3>3, <3>9, <4>2
      <4>3. CASE i = m + 1 /\ j \in 1..m
        BY <3>3, <3>9, <4>3
      <4> QED BY <3>4, <4>1, <4>2, <4>3
    <3>11. \A j \in 1..k + 1 : good(j) => \E i \in DOMAIN f : f[i] = list[j]
      <4> SUFFICES ASSUME NEW j \in 1..k + 1, good(j) PROVE \E i \in 1..m + 1 : f[i] = list[j]
        BY <3>3
      <4>1. CASE j = k + 1
        BY <3>3, <3>6, <4>1 DEF h
      <4>2. CASE j \in 1..k
        <5>1. PICK i \in 1..m : e[i] = list[j]
          BY <2>2, <3>2, <4>2
        <5> QED BY <3>3, <3>5, <5>1
      <4> QED BY <2>4, <4>1, <4>2
    <3>12. From(f, k + 1)
      BY <3>3, <3>7, <3>8, <3>10, <3>11
    <3> HIDE DEF From
    <3> QED BY <2>1, <3>1, <3>12
  <2> QED BY <2>6, <2>7
<1>10. From(kept[n], n)
  <2>1. 0..n \subseteq T
    <3> HIDE DEF T, n
    <3> QED BY <1>1, <1>8, <1>9, UpTo
  <2>2. n \in 0..n
    BY <1>1
  <2> HIDE DEF From, n
  <2> QED BY <2>1, <2>2
<1> HIDE DEF n
<1>11. kept[n] \in ListOf(Hit)
  BY <1>10 DEF ListOf
<1>12. \A i \in DOMAIN kept[n] : kept[n][i].score >= MinScore
  BY <1>10
<1>13. \A i \in DOMAIN list : list[i].score >= MinScore => list[i].chunk \in ChunksOf(kept[n])
  BY <1>1, <1>10 DEF ChunksOf
<1> QED BY <1>7, <1>10, <1>11, <1>12, <1>13 DEF n

\* Evidence is 0 to TopK distinct chunks above the threshold.
LEMMA EvidenceFacts ==
  ASSUME NEW list \in ListOf(Hit)
  PROVE  LET e == Evidence(list)
         IN  /\ e \in ListOf(Hit) /\ Len(e) \in 0..TopK /\ DOMAIN e = 1..Len(e)
             /\ \A i \in DOMAIN e : e[i].score >= MinScore
             /\ e # << >> => Len(e) \in 1..TopK
             /\ Len(list) <= TopK => \A i \in DOMAIN list :
                   list[i].score >= MinScore => list[i].chunk \in ChunksOf(e)
<1> DEFINE top == Top(list)
           e == Relevant(top)
<1>1. TopK \in Nat
  BY SettingsAssumption
<1>2. /\ top \in ListOf(Hit) /\ Len(top) <= TopK
      /\ Len(list) <= TopK => top = list
  BY <1>1, FirstOfList DEF Top
<1> HIDE DEF top
<1>3. /\ e \in ListOf(Hit) /\ Len(e) <= Len(top)
      /\ \A i \in DOMAIN e : e[i].score >= MinScore
      /\ \A i \in DOMAIN top : top[i].score >= MinScore => top[i].chunk \in ChunksOf(e)
  BY <1>2, RelevantKeeps
<1>4. Len(top) \in Nat
  BY <1>2, ListFacts
<1> HIDE DEF e
<1>5. Len(e) \in Nat /\ DOMAIN e = 1..Len(e) /\ (Len(e) = 0 => e = << >>)
  <2>1. e \in Seq(Hit)
    BY <1>3 DEF ListOf
  <2> QED BY <2>1, LenProperties, EmptySeq
<1>6. Len(e) \in 0..TopK /\ (e # << >> => Len(e) \in 1..TopK)
  BY <1>1, <1>2, <1>3, <1>4, <1>5
<1>7. Evidence(list) = e
  BY DEF Evidence, e, top
<1> QED BY <1>2, <1>3, <1>5, <1>6, <1>7

-----------------------------------------------------------------------------
(***************************************************************************)
(* What a request knows at each place of its way.  Until its searches have *)
(* ended it has no candidates; then they are the merge of its groups, and  *)
(* only the reranker may have put others in their place.                   *)
(***************************************************************************)
MergedOrJudged(r) ==
    hits[r] = Merged[groups[r]] \/ (RerankerOn /\ reranker.at[RerankCall(r)] = "ready")

Early == {"idle", "routing", "granting", "rewriting", "searching"}

Path(r) ==
    /\ hits[r] \in ListOf(Hit)
    /\ pc[r] \in Early => groups[r] = <<>>
    /\ pc[r] = "reranking" =>
          RerankerOn /\ groups[r] \in GroupLists /\ hits[r] = Merged[groups[r]]
    /\ pc[r] \in {"answering", "declined"} /\ groups[r] # <<>> =>
          groups[r] \in GroupLists /\ MergedOrJudged(r)
    /\ pc[r] \in {"answering", "answered"} => Evidence(hits[r]) # <<>>
    /\ pc[r] = "answered" => cited[r] \cap DOMAIN Evidence(hits[r]) # {}

PathInv ==
    /\ groups = [r \in Requests |-> groups[r]]
    /\ hits = [r \in Requests |-> hits[r]]
    /\ cited = [r \in Requests |-> cited[r]]
    /\ \A r \in Requests : Path(r)

\* What a step of others leaves of the way of a request.
PathStays(r) ==
    /\ pc'[r] = pc[r] /\ groups'[r] = groups[r] /\ hits'[r] = hits[r] /\ cited'[r] = cited[r]
    /\ reranker.at[RerankCall(r)] = "ready" => reranker'.at[RerankCall(r)] = "ready"

LEMMA PathKeeps ==
  ASSUME NEW r \in Requests, Path(r), PathStays(r)
  PROVE  Path(r)'
<1>1. MergedOrJudged(r) => MergedOrJudged(r)'
  BY DEF PathStays, MergedOrJudged
<1> QED
  BY <1>1 DEF Path, PathStays

LEMMA JudgedStays ==
  ASSUME ModelsInv, [Next]_vars, NEW r \in Requests, reranker.at[RerankCall(r)] = "ready"
  PROVE  reranker'.at[RerankCall(r)] = "ready"
<1>1. RerankerProofs!LoaderInv /\ [RerankerProofs!LoaderNext]_reranker
  BY StepUsesModels, SameReranker DEF ModelsInv
<1> QED
  BY <1>1, RerankCallIsCall, RerankerProofs!ReadyStays

LEMMA EmptyList == <<>> \in ListOf(Hit)
  BY EmptySeq DEF ListOf

\* A request goes on, or ends without an answer, before there are candidates.
LEMMA EarlyKeeps ==
  ASSUME NEW r \in Requests, Path(r), pc[r] \in Early,
         UNCHANGED <<groups[r], hits[r]>>,
         pc'[r] \in Early \cup {"other", "declined", "failed"}
  PROVE  Path(r)'
<1>1. groups[r] = <<>> /\ hits[r] \in ListOf(Hit)
  BY DEF Path
<1> QED
  BY <1>1 DEF Path, Early

LEMMA ForgottenKeeps ==
  ASSUME NEW r \in Requests, groups'[r] = <<>>, hits'[r] = <<>>,
         pc'[r] \in {"searching", "failed", "gone"}
  PROVE  Path(r)'
  BY EmptyList DEF Path, Early

\* Candidates are merged or judged, and become evidence or none.
LEMMA UsePath ==
  ASSUME NEW r \in Requests, NEW list \in ListOf(Hit), Use(r, list),
         pc = [x \in Requests \cup Probes |-> pc[x]], hits = [x \in Requests |-> hits[x]],
         groups'[r] \in GroupLists,
         \/ list = Merged[groups'[r]]
         \/ RerankerOn /\ reranker'.at[RerankCall(r)] = "ready"
  PROVE  Path(r)'
<1>1. hits'[r] = list
  BY DEF Use
<1>2. \/ pc'[r] = "answering" /\ Evidence(list) # <<>>
      \/ pc'[r] = "declined"
  BY DEF Use, Posting
<1>3. MergedOrJudged(r)'
  BY <1>1 DEF MergedOrJudged, RerankCall
<1> QED
  BY <1>1, <1>2, <1>3 DEF Path, Early

\* The queries of a request whose searches have ended.
LEMMA QueriesAreSome ==
  ASSUME NEW r \in Requests, StagesOf(r) = {"found"}
  PROVE  [1..QueriesOf(r) -> Groups] \subseteq GroupLists
<1> DEFINE mine == {c \in Calls : c[1] = r /\ stage[c] # "none"}
           all == {r} \X (0..MaxRewrites[r])
<1>1. MaxRewrites[r] \in Nat /\ r \notin Probes
  BY SettingsAssumption
<1>2. mine \in SUBSET all
  BY <1>1 DEF Calls
<1>3. IsFiniteSet(all) /\ Cardinality(all) = 1 + MaxRewrites[r]
  <2>1. /\ IsFiniteSet(0..MaxRewrites[r])
        /\ Cardinality(0..MaxRewrites[r]) = 1 + MaxRewrites[r]
    BY <1>1, FS_Interval
  <2>2. IsFiniteSet({r}) /\ Cardinality({r}) = 1
    BY FS_Singleton
  <2>3. IsFiniteSet(all) /\ Cardinality(all) = 1 * (1 + MaxRewrites[r])
    BY <2>1, <2>2, FS_Product
  <2> QED BY <1>1, <2>3
<1>4. mine # {}
  <2>1. "found" \in {stage[c] : c \in {d \in Calls : d[1] = r}}
    BY DEF StagesOf
  <2> QED BY <2>1
<1> HIDE DEF mine, all
<1>5. IsFiniteSet(mine) /\ Cardinality(mine) <= 1 + MaxRewrites[r]
  BY <1>2, <1>3, FS_Subset
<1>6. Cardinality(mine) \in Nat /\ Cardinality(mine) # 0
  BY <1>4, <1>5, FS_EmptySet, FS_CardinalityType
<1>7. QueriesOf(r) = Cardinality(mine)
  BY DEF QueriesOf, mine
<1>8. QueriesOf(r) \in 1..1 + MaxRewrites[r]
  BY <1>1, <1>5, <1>6, <1>7
<1> QED
  BY <1>8 DEF GroupLists

\* The steps of a request, for the request itself.
LEMMA MergePath ==
  ASSUME NEW r \in Requests, ChatInv, PathInv, Merge(r)
  PROVE  Path(r)'
<1>1. PICK lists \in [1..QueriesOf(r) -> Groups] :
         /\ groups' = [groups EXCEPT ![r] = lists]
         /\ IF RerankerOn /\ Seen(lists) # {}
            THEN /\ pc' = [pc EXCEPT ![r] = "reranking"]
                 /\ hits' = [hits EXCEPT ![r] = Merged[lists]]
            ELSE Use(r, Merged[lists])
  BY DEF Merge
<1>2. lists \in GroupLists
  BY QueriesAreSome DEF Merge
<1>3. Merged[lists] \in ListOf(Hit)
  BY <1>2, MergedKeepsFirst
<1>4. groups'[r] = lists
  BY <1>1 DEF PathInv
<1>5. CASE /\ RerankerOn
           /\ pc' = [pc EXCEPT ![r] = "reranking"]
           /\ hits' = [hits EXCEPT ![r] = Merged[lists]]
  <2>1. pc'[r] = "reranking" /\ hits'[r] = Merged[lists]
    BY <1>5 DEF ChatInv, PathInv
  <2> QED BY <1>2, <1>3, <1>4, <1>5, <2>1 DEF Path, Early
<1>6. CASE Use(r, Merged[lists])
  BY <1>2, <1>3, <1>4, <1>6, UsePath DEF ChatInv, PathInv
<1> QED
  BY <1>1, <1>5, <1>6

LEMMA RerankPath ==
  ASSUME NEW r \in Requests, ChatInv, PathInv, Reranked(r) \/ RerankFails(r)
  PROVE  Path(r)'
<1>1. /\ hits[r] \in ListOf(Hit) /\ groups'[r] \in GroupLists
      /\ hits[r] = Merged[groups'[r]] /\ RerankerOn
  BY DEF Reranked, RerankFails, PathInv, Path
<1>2. CASE Reranked(r)
  <2>1. PICK s \in Rescored(hits[r]) : Use(r, First(s, RerankLimit))
    BY <1>2 DEF Reranked
  <2>2. RerankLimit \in Nat
    BY SettingsAssumption DEF RerankLimit
  <2>3. First(s, RerankLimit) \in ListOf(Hit)
    BY <1>1, <2>2, RescoredList, FirstOfList
  <2>4. reranker'.at[RerankCall(r)] = "ready"
    BY <1>2 DEF Reranked, models
  <2> QED BY <1>1, <2>1, <2>3, <2>4, UsePath DEF ChatInv, PathInv
<1>3. CASE RerankFails(r)
  BY <1>1, <1>3, UsePath DEF RerankFails, ChatInv, PathInv
<1> QED
  BY <1>2, <1>3

\* _ensure_citations leaves no answer without a citation that is there.
LEMMA AnswerPath ==
  ASSUME NEW r \in Requests, ChatInv, PathInv, Answer(r)
  PROVE  Path(r)'
<1> DEFINE ids == DOMAIN Evidence(hits[r])
<1>1. Evidence(hits[r]) # <<>> /\ hits[r] \in ListOf(Hit)
  BY DEF Answer, PathInv, Path
<1>2. ids # {}
  <2>1. Len(Evidence(hits[r])) \in 1..TopK /\ ids = 1..Len(Evidence(hits[r])) /\ TopK \in Nat
    BY <1>1, EvidenceFacts, SettingsAssumption
  <2> QED BY <2>1
<1>3. PICK text : cited' = [cited EXCEPT ![r] = Ensured(ids, text)]
  BY DEF Answer
<1>4. Ensured(ids, text) \cap ids # {}
  BY <1>2 DEF Ensured
<1>5. /\ pc'[r] = "answered" /\ groups'[r] = <<>> /\ hits'[r] = hits[r]
      /\ cited'[r] = Ensured(ids, text)
  BY <1>3 DEF Answer, ChatInv, PathInv
<1> HIDE DEF ids
<1>6. cited'[r] \cap DOMAIN Evidence(hits[r]) # {}
  BY <1>4, <1>5 DEF ids
<1> QED
  BY <1>1, <1>5, <1>6 DEF Path, Early

LEMMA RoutedPath ==
  ASSUME NEW r \in Requests, ChatInv, PathInv, pc[r] \in Early,
         NEW decision, Routed(r, decision), UNCHANGED found
  PROVE  Path(r)'
<1>1. pc'[r] \in Early \cup {"other"}
  BY DEF Routed, ChatInv, Early
<1> QED
  BY <1>1, EarlyKeeps DEF found, PathInv

LEMMA EarlyPath ==
  ASSUME NEW r \in Requests, ChatInv, PathInv,
         Ask(r) \/ RoutedByModel(r) \/ ReadGrants(r) \/ GrantsFail(r) \/ Rewritten(r)
         \/ SearchFails(r)
  PROVE  Path(r)'
<1>1. pc[r] \in Early /\ UNCHANGED found
  BY DEF Ask, RoutedByModel, ReadGrants, GrantsFail, Rewritten, SearchFails, Early
<1>2. CASE \E d : Routed(r, d)
  BY <1>1, <1>2, RoutedPath
<1>3. CASE pc'[r] \in Early \cup {"other", "declined", "failed"}
  BY <1>1, <1>3, EarlyKeeps DEF found, PathInv
<1>4. CASE Ask(r)
  <2>1. (\E d : Routed(r, d)) \/ Posting(r, "routing")
    BY <1>4 DEF Ask
  <2>2. Posting(r, "routing") => pc'[r] = "routing"
    BY DEF Posting, ChatInv
  <2> QED BY <1>2, <1>3, <2>1, <2>2 DEF Early
<1>5. CASE RoutedByModel(r)
  BY <1>2, <1>5 DEF RoutedByModel
<1>6. CASE ReadGrants(r) \/ GrantsFail(r) \/ Rewritten(r) \/ SearchFails(r)
  <2>1. pc'[r] \in {"declined", "rewriting", "searching", "failed"}
    BY <1>6 DEF ReadGrants, GrantsFail, Rewritten, SearchFails, Posting, Search, ChatInv
  <2> QED BY <1>3, <2>1 DEF Early
<1> QED
  BY <1>4, <1>5, <1>6

LEMMA LostPath ==
  ASSUME NEW r \in Requests, ChatInv, PathInv, ChatFails(r) \/ Leave(r)
  PROVE  Path(r)'
<1>1. groups'[r] = <<>> /\ hits'[r] = <<>>
  BY DEF ChatFails, Leave, Forgotten, PathInv
<1>2. pc'[r] \in {"searching", "failed", "gone"}
  BY DEF ChatFails, Leave, Search, ChatInv
<1> QED
  BY <1>1, <1>2, ForgottenKeeps

LEMMA StillPath ==
  ASSUME NEW r \in Requests, ModelsInv, [Next]_vars, PathInv,
         UNCHANGED <<pc[r], groups[r], hits[r], cited[r]>>
  PROVE  Path(r)'
<1>1. PathStays(r)
  BY JudgedStays DEF PathStays
<1> QED
  BY <1>1, PathKeeps DEF PathInv

\* A step of a request leaves the way of the others.
LEMMA OthersPath ==
  ASSUME NEW r \in Requests, NEW q \in Requests, q # r, ModelsInv, [Next]_vars,
         ChatInv, PathInv, Ask(r) \/ RequestStep(r) \/ Leave(r)
  PROVE  Path(q)'
<1>1. /\ groups'[q] = groups[q] /\ hits'[q] = hits[q] /\ cited'[q] = cited[q]
  BY DEF PathInv, Ask, RequestStep, Leave, ChatStep, FallBack, RoutedByModel, Rewritten,
         ChatFails, Answer, ReadGrants, GrantsFail, SearchFails, Merge, UseReranker,
         Reranked, RerankFails, Use, Forgotten, found
<1>2. pc'[q] = pc[q]
  BY DEF ChatInv, Ask, RequestStep, Leave, ChatStep, FallBack, RoutedByModel, Rewritten,
         ChatFails, Answer, ReadGrants, GrantsFail, SearchFails, Merge, UseReranker,
         Reranked, RerankFails, Use, Posting, Routed, Search
<1> QED
  BY <1>1, <1>2, StillPath

LEMMA RequestPath ==
  ASSUME NEW r \in Requests, ModelsInv, [Next]_vars, ChatInv, PathInv,
         Ask(r) \/ RequestStep(r) \/ Leave(r)
  PROVE  Path(r)'
<1>1. CASE FallBack(r) \/ UseReranker(r)
  <2>1. UNCHANGED <<pc, groups, hits, cited>>
    BY <1>1 DEF FallBack, UseReranker, found
  <2> QED BY <2>1, StillPath
<1> QED
  BY <1>1, MergePath, RerankPath, AnswerPath, EarlyPath, LostPath DEF RequestStep, ChatStep

LEMMA PathInvStep ==
  ASSUME ModelsInv, ChatInv, PathInv, [Next]_vars
  PROVE  PathInv'
<1>1. CASE \E r \in Requests : Ask(r) \/ RequestStep(r) \/ Leave(r)
  <2>1. PICK r \in Requests : Ask(r) \/ RequestStep(r) \/ Leave(r)
    BY <1>1
  <2>2. \A q \in Requests : Path(q)'
    BY <2>1, RequestPath, OthersPath
  <2>3. /\ groups' = [q \in Requests |-> groups'[q]]
        /\ hits' = [q \in Requests |-> hits'[q]]
        /\ cited' = [q \in Requests |-> cited'[q]]
    BY <2>1 DEF PathInv, Ask, RequestStep, Leave, ChatStep, FallBack, RoutedByModel,
         Rewritten, ChatFails, Answer, ReadGrants, GrantsFail, SearchFails, Merge,
         UseReranker, Reranked, RerankFails, Use, Forgotten, found
  <2> QED BY <2>2, <2>3 DEF PathInv
<1>2. CASE UNCHANGED found /\ \A q \in Requests : pc'[q] = pc[q]
  <2>1. \A q \in Requests : Path(q)'
    BY <1>2, StillPath DEF found
  <2> QED BY <1>2, <2>1 DEF PathInv, found
<1>3. CASE \E p \in Probes : Probe(p) \/ ProbeEnds(p)
  <2>1. UNCHANGED found /\ \E p \in Probes : \E place : pc' = [pc EXCEPT ![p] = place]
    BY <1>3 DEF Probe, ProbeEnds
  <2>2. \A q \in Requests : q \notin Probes
    BY SettingsAssumption
  <2> QED BY <1>2, <2>1, <2>2 DEF ChatInv
<1>4. CASE (\E c \in Calls : CallStep(c)) \/ ModelsStep \/ Done \/ UNCHANGED vars
  <2>1. UNCHANGED <<pc, found>>
    BY <1>4 DEF CallStep, UseEmbedder, Encode, EncodeFails, SearchEnds, ModelsStep, Done,
         vars, found
  <2> QED BY <1>2, <2>1
<1> QED
  BY <1>1, <1>3, <1>4 DEF Next

LEMMA PathInvStart ==
  ASSUME Init
  PROVE  PathInv
BY EmptyList DEF Init, PathInv, Path, Early

\* _ensure_citations, _rrf_merge, _rrf_merge_many, rerank and answer: an answer rests on 1
\* to TopK distinct chunks above the threshold and cites one of them, for any hit lists of
\* the channels, any number of queries and any judgement of the reranker.
THEOREM AlwaysAnswersRest == Spec => []AnswersRest
<1>1. PathInv => AnswersRest
  <2> SUFFICES ASSUME PathInv, NEW r \in Requests, pc[r] = "answered"
               PROVE  LET e == Evidence(hits[r])
                      IN  /\ Len(e) \in 1..TopK /\ e \in ListOf(Hit)
                          /\ \A i \in DOMAIN e : e[i].score >= MinScore
                          /\ cited[r] \cap DOMAIN e # {}
    BY DEF AnswersRest
  <2>1. /\ hits[r] \in ListOf(Hit) /\ Evidence(hits[r]) # <<>>
        /\ cited[r] \cap DOMAIN Evidence(hits[r]) # {}
    BY DEF PathInv, Path
  <2> QED BY <2>1, EvidenceFacts
<1>2. Init => ModelsInv /\ ChatInv /\ PathInv
  BY ModelsStart, ChatInvStart, PathInvStart
<1>3. ModelsInv /\ ChatInv /\ PathInv /\ [Next]_vars => (ModelsInv /\ ChatInv /\ PathInv)'
  BY ModelsKeep, ChatInvStep, PathInvStep
<1> QED
  BY <1>1, <1>2, <1>3, PTL DEF Spec

\* The chunks of the original query have their scores of it in the merge (first_hits of
\* _rrf_merge_many), and the merge holds nothing but what was found: with at most TopK
\* chunks, those above the threshold are evidence.
THEOREM AlwaysFoundIsUsed == Spec => []FoundIsUsed
<1>1. PathInv => FoundIsUsed
  <2> SUFFICES ASSUME PathInv, NEW r \in Requests,
                      pc[r] \in {"answering", "declined"}, groups[r] # <<>>,
                      ~(RerankerOn /\ reranker.at[RerankCall(r)] = "ready"),
                      Cardinality(Seen(groups[r])) =< TopK,
                      NEW i \in DOMAIN groups[r][1], groups[r][1][i].score >= MinScore
               PROVE  groups[r][1][i].chunk \in ChunksOf(Evidence(hits[r]))
    BY DEF FoundIsUsed
  <2> DEFINE list == Merged[groups[r]]
  <2>1. groups[r] \in GroupLists /\ hits[r] = list
    BY DEF PathInv, Path, MergedOrJudged
  <2>2. list \in ListOf(Hit) /\ Len(list) <= TopK
    BY <2>1, MergedKeepsFirst
  <2>3. PICK j \in DOMAIN list :
            list[j].chunk = groups[r][1][i].chunk /\ list[j].score = groups[r][1][i].score
    BY <2>1, MergedKeepsFirst
  <2> HIDE DEF list
  <2>4. list[j].chunk \in ChunksOf(Evidence(list))
    BY <2>2, <2>3, EvidenceFacts
  <2> QED BY <2>1, <2>3, <2>4
<1>2. Init => ModelsInv /\ ChatInv /\ PathInv
  BY ModelsStart, ChatInvStart, PathInvStart
<1>3. ModelsInv /\ ChatInv /\ PathInv /\ [Next]_vars => (ModelsInv /\ ChatInv /\ PathInv)'
  BY ModelsKeep, ChatInvStep, PathInvStep
<1> QED
  BY <1>1, <1>2, <1>3, PTL DEF Spec
=============================================================================
