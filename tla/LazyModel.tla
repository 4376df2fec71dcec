----------------------------- MODULE LazyModel ------------------------------
(***************************************************************************)
(* A model that is loaded on first use: _ensure_model of                   *)
(* BGEEmbeddingProvider (app/infra/embeddings.py) and of                   *)
(* CrossEncoderReranker (app/infra/retrieval.py), which are alike.         *)
(*                                                                         *)
(* Calls run on one event loop and interleave where they await: for the    *)
(* asyncio.Lock, which is granted in the order of waiting, and for the     *)
(* thread that loads.  A cancelled call gives its lock back, but its       *)
(* thread goes on, and nobody takes what it loads.                         *)
(***************************************************************************)
EXTENDS Naturals, Sequences, FiniteSets, FiniteSetsExt

CONSTANT Calls    \* the calls of _ensure_model, each made at most once

\* loaded: _model is set; inside: who holds the lock; queue: who asked for it in vain;
\* threads: calls whose loading thread runs; at: where each call is.
VARIABLE slot

Places == {"out", "waiting", "loading", "ready", "failed", "cancelled"}

Unloaded == [loaded |-> FALSE, inside |-> {}, queue |-> <<>>, threads |-> {},
             at |-> [c \in Calls |-> "out"]]

LoaderInit == slot = Unloaded

Moved(s, c, place) == [s EXCEPT !.at[c] = place]
Loading(s, c) == [Moved(s, c, "loading") EXCEPT !.inside = {c}, !.threads = @ \cup {c}]

\* Places in the queue of those who still wait: a cancelled call keeps its place in vain.
Waiting == {k \in DOMAIN slot.queue : slot.at[slot.queue[k]] = "waiting"}
Free == slot.inside = {}

\* Mutation: the lock is taken without looking whether it is free.
EnterAnyway(c) ==
    /\ slot.at[c] = "out"
    /\ slot' = IF slot.loaded THEN Moved(slot, c, "ready") ELSE Loading(slot, c)

\* A call that finds the model takes it; otherwise it takes the lock or waits.
Enter(c) ==
    /\ slot.at[c] = "out"
    /\ slot' = IF slot.loaded THEN Moved(slot, c, "ready")
               ELSE IF Free /\ Waiting = {} THEN Loading(slot, c)
               ELSE [Moved(slot, c, "waiting") EXCEPT !.queue = Append(@, c)]

\* The queue behind its k-th place.
Behind(k) == [slot EXCEPT !.queue = SubSeq(@, k + 1, Len(@))]

\* Mutation: whoever gets the lock loads the model.
GrantUnchecked ==
    /\ Free /\ Waiting # {}
    /\ slot' = Loading(Behind(Min(Waiting)), slot.queue[Min(Waiting)])

\* The lock goes to the first who waits, which looks again before it loads.
Grant ==
    /\ Free
    /\ \E k \in Waiting :
          /\ \A j \in Waiting : k =< j
          /\ LET c == slot.queue[k]
             IN  slot' = IF slot.loaded THEN Moved(Behind(k), c, "ready")
                         ELSE Loading(Behind(k), c)

Released(c, place) ==
    [Moved(slot, c, place) EXCEPT !.inside = {}, !.threads = @ \ {c}]

Load(c) ==
    /\ c \in slot.threads /\ slot.at[c] = "loading"
    /\ slot' = [Released(c, "ready") EXCEPT !.loaded = TRUE]

\* Mutation: the lock is not given back when the loading fails.
LoadFailsHolding(c) ==
    /\ c \in slot.threads /\ slot.at[c] = "loading"
    /\ slot' = [Moved(slot, c, "failed") EXCEPT !.threads = @ \ {c}]

\* The exception leaves the lock's context; the next call tries again.
LoadFails(c) ==
    /\ c \in slot.threads /\ slot.at[c] = "loading"
    /\ slot' = Released(c, "failed")

\* The thread of a cancelled call ends.
LeftBehind(c) ==
    /\ c \in slot.threads /\ slot.at[c] = "cancelled"
    /\ slot' = [slot EXCEPT !.threads = @ \ {c}]

\* What is left of the slot when calls are cancelled.
Without(cs) ==
    [slot EXCEPT
        !.inside = @ \ cs,
        !.at = [c \in Calls |-> IF c \in cs /\ @[c] \in {"waiting", "loading"}
                                THEN "cancelled" ELSE @[c]]]

Cancel(cs) == slot' = Without(cs)

LoaderNext ==
    \/ Grant
    \/ \E c \in Calls : Enter(c) \/ Load(c) \/ LoadFails(c) \/ LeftBehind(c)
    \/ \E cs \in SUBSET Calls : Cancel(cs)

LoaderSpec == LoaderInit /\ [][LoaderNext]_slot
-----------------------------------------------------------------------------
\* Properties.

SlotType ==
    slot \in [loaded : BOOLEAN, inside : SUBSET Calls, queue : Seq(Calls),
              threads : SUBSET Calls, at : [Calls -> Places]]

\* At most one load is wanted at any time, by the call that holds the lock: a second one
\* runs only beside the thread of a call that was cancelled while it loaded.
OneLoad ==
    \A c \in slot.threads :
        slot.at[c] = "cancelled" \/ (slot.at[c] = "loading" /\ slot.inside = {c})

\* Once a model is there it stays, and nobody starts to load it again.
Kept == slot.loaded => slot'.loaded /\ slot'.threads \subseteq slot.threads
LoadedOnce == [][Kept]_slot
=============================================================================
