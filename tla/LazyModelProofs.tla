-------------------------- MODULE LazyModelProofs ---------------------------
(***************************************************************************)
(* Loading on first use, for any number of calls and any cancellations.    *)
(*                                                                         *)
(* That one load is wanted at a time is inductive with the types: a load   *)
(* starts only when the lock is free, so every thread that still runs then *)
(* belongs to a cancelled call.                                            *)
(***************************************************************************)
EXTENDS LazyModel, TLAPS

LoaderInv == SlotType /\ OneLoad

\* The call that takes the lock and begins to load.
LEMMA LoadingKeeps ==
  ASSUME LoaderInv, NEW s, NEW c \in Calls, Free, slot' = Loading(s, c),
         s \in [loaded : BOOLEAN, inside : SUBSET Calls, queue : Seq(Calls),
                threads : SUBSET Calls, at : [Calls -> Places]],
         s.threads = slot.threads, s.at = slot.at, slot.at[c] \in {"out", "waiting"}
  PROVE  LoaderInv'
<1>1. /\ slot'.loaded = s.loaded /\ slot'.inside = {c} /\ slot'.queue = s.queue
      /\ slot'.threads = slot.threads \cup {c}
      /\ slot'.at = [slot.at EXCEPT ![c] = "loading"]
      /\ slot' = [loaded |-> s.loaded, inside |-> {c}, queue |-> s.queue,
                  threads |-> slot.threads \cup {c},
                  at |-> [slot.at EXCEPT ![c] = "loading"]]
  BY DEF Loading, Moved
<1>2. SlotType'
  BY <1>1 DEF LoaderInv, SlotType, Places
<1>3. \A d \in slot.threads : d # c /\ slot.at[d] = "cancelled"
  BY DEF LoaderInv, OneLoad, SlotType, Free
<1> QED
  BY <1>1, <1>2, <1>3 DEF LoaderInv, SlotType, OneLoad, Places

LEMMA LoaderStep ==
  ASSUME LoaderInv, [LoaderNext]_slot
  PROVE  LoaderInv'
<1>0. slot \in [loaded : BOOLEAN, inside : SUBSET Calls, queue : Seq(Calls),
                threads : SUBSET Calls, at : [Calls -> Places]]
  BY DEF LoaderInv, SlotType
<1>1. ASSUME NEW c \in Calls, Enter(c)  PROVE LoaderInv'
  <2>1. CASE slot.loaded \/ ~(Free /\ Waiting = {})
    <3>1. /\ slot'.inside = slot.inside /\ slot'.threads = slot.threads
          /\ \E p \in {"ready", "waiting"} : slot'.at = [slot.at EXCEPT ![c] = p]
          /\ slot.at[c] = "out"
      BY <1>0, <1>1, <2>1 DEF Enter, Moved
    <3>2. slot'.queue \in Seq(Calls) /\ slot'.loaded = slot.loaded
      BY <1>0, <1>1, <2>1 DEF Enter, Moved
    <3>3. slot' = [loaded |-> slot'.loaded, inside |-> slot'.inside, queue |-> slot'.queue,
                   threads |-> slot'.threads, at |-> slot'.at]
      BY <1>0, <1>1, <2>1 DEF Enter, Moved
    <3>4. slot'.at \in [Calls -> Places]
      BY <1>0, <3>1 DEF Places
    <3>5. SlotType'
      BY <1>0, <3>1, <3>2, <3>3, <3>4 DEF SlotType
    <3> QED
      BY <1>0, <3>1, <3>5 DEF LoaderInv, OneLoad, SlotType
  <2>2. CASE ~slot.loaded /\ Free /\ Waiting = {}
    BY <1>0, <1>1, <2>2, LoadingKeeps DEF Enter
  <2> QED
    BY <2>1, <2>2
<1>2. CASE Grant
  <2>1. PICK k \in Waiting : slot' = IF slot.loaded THEN Moved(Behind(k), slot.queue[k], "ready")
                                     ELSE Loading(Behind(k), slot.queue[k])
    BY <1>2 DEF Grant
  <2> DEFINE c == slot.queue[k]
             s == Behind(k)
  <2>2. k \in 1..Len(slot.queue) /\ c \in Calls /\ slot.at[c] = "waiting" /\ Free
    BY <1>0, <1>2 DEF Waiting, Grant
  <2>3. SubSeq(slot.queue, k + 1, Len(slot.queue)) \in Seq(Calls)
    BY <1>0, <2>2
  <2>4. /\ s \in [loaded : BOOLEAN, inside : SUBSET Calls, queue : Seq(Calls),
                  threads : SUBSET Calls, at : [Calls -> Places]]
        /\ s.threads = slot.threads /\ s.at = slot.at /\ s.inside = slot.inside
    BY <1>0, <2>3 DEF Behind
  <2>5. CASE slot.loaded
    <3> HIDE DEF s
    <3>1. slot' = Moved(s, c, "ready")
      BY <2>1, <2>5 DEF s
    <3>2. /\ slot'.inside = slot.inside /\ slot'.threads = slot.threads
          /\ slot'.at = [slot.at EXCEPT ![c] = "ready"]
      BY <2>4, <3>1 DEF Moved
    <3>3. SlotType'
      BY <2>2, <2>4, <3>1 DEF Moved, SlotType, Places
    <3> QED
      BY <1>0, <2>2, <3>2, <3>3 DEF LoaderInv, OneLoad, SlotType
  <2>6. CASE ~slot.loaded
    <3> HIDE DEF s
    <3>1. slot' = Loading(s, c)
      BY <2>1, <2>6 DEF s
    <3> QED
      BY <2>2, <2>4, <3>1, LoadingKeeps
  <2> QED
    BY <2>5, <2>6
<1>3. ASSUME NEW c \in Calls, Load(c) \/ LoadFails(c)  PROVE LoaderInv'
  <2>1. /\ slot'.inside = {} /\ slot'.threads = slot.threads \ {c}
        /\ \E p \in {"ready", "failed"} : slot'.at = [slot.at EXCEPT ![c] = p]
        /\ c \in slot.threads /\ slot.at[c] = "loading"
    BY <1>0, <1>3 DEF Load, LoadFails, Released, Moved
  <2>2. /\ slot'.queue = slot.queue /\ slot'.loaded \in BOOLEAN
        /\ slot' = [loaded |-> slot'.loaded, inside |-> slot'.inside, queue |-> slot'.queue,
                    threads |-> slot'.threads, at |-> slot'.at]
    BY <1>0, <1>3 DEF Load, LoadFails, Released, Moved
  <2>3. slot'.at \in [Calls -> Places]
    BY <1>0, <2>1 DEF Places
  <2>4. SlotType'
    BY <1>0, <2>1, <2>2, <2>3 DEF SlotType
  <2>5. slot.inside = {c}
    BY <2>1 DEF LoaderInv, OneLoad
  <2>6. \A d \in slot'.threads : slot'.at[d] = slot.at[d] /\ slot.at[d] = "cancelled"
    BY <1>0, <2>1, <2>5 DEF LoaderInv, OneLoad
  <2> QED
    BY <2>4, <2>6 DEF LoaderInv, OneLoad
<1>4. ASSUME NEW c \in Calls, LeftBehind(c)  PROVE LoaderInv'
  BY <1>0, <1>4 DEF LeftBehind, LoaderInv, OneLoad, SlotType
<1>5. ASSUME NEW cs \in SUBSET Calls, Cancel(cs)  PROVE LoaderInv'
  <2>1. /\ slot'.threads = slot.threads
        /\ slot'.inside = slot.inside \ cs
        /\ slot'.at = [c \in Calls |-> IF c \in cs /\ slot.at[c] \in {"waiting", "loading"}
                                       THEN "cancelled" ELSE slot.at[c]]
    BY <1>0, <1>5 DEF Cancel, Without
  <2>2. SlotType'
    BY <1>0, <1>5 DEF Cancel, Without, SlotType, Places
  <2> QED
    BY <1>0, <2>1, <2>2 DEF LoaderInv, OneLoad, SlotType
<1>6. CASE UNCHANGED slot
  BY <1>6 DEF LoaderInv, OneLoad, SlotType
<1> QED
  BY <1>1, <1>2, <1>3, <1>4, <1>5, <1>6 DEF LoaderNext

LEMMA LoaderStart ==
  ASSUME LoaderInit
  PROVE  LoaderInv
BY DEF LoaderInit, Unloaded, LoaderInv, SlotType, OneLoad, Places

\* Nothing takes a loaded model away or starts a load beside it.
LEMMA LoadedStays ==
  ASSUME LoaderInv, [LoaderNext]_slot
  PROVE  Kept
<1> USE DEF LoaderInv, SlotType, Kept
<1>1. CASE Grant
  BY <1>1 DEF Grant, Moved, Behind
<1>2. ASSUME NEW c \in Calls, Enter(c) \/ Load(c) \/ LoadFails(c) \/ LeftBehind(c)
      PROVE  Kept
  BY <1>2 DEF Enter, Load, LoadFails, LeftBehind, Released, Moved
<1>3. ASSUME NEW cs \in SUBSET Calls, Cancel(cs)
      PROVE  Kept
  BY <1>3 DEF Cancel, Without
<1> QED
  BY <1>1, <1>2, <1>3 DEF LoaderNext

\* A call that got the model keeps it.
LEMMA ReadyStays ==
  ASSUME LoaderInv, [LoaderNext]_slot, NEW c \in Calls, slot.at[c] = "ready"
  PROVE  slot'.at[c] = "ready"
<1> USE DEF LoaderInv, SlotType
<1>1. CASE Grant
  <2>1. PICK k \in Waiting :
            LET d == slot.queue[k]
            IN  slot' = IF slot.loaded THEN Moved(Behind(k), d, "ready")
                        ELSE Loading(Behind(k), d)
    BY <1>1 DEF Grant
  <2> DEFINE d == slot.queue[k]
  <2>2. slot.at[d] = "waiting"
    BY DEF Waiting
  <2>3. slot'.at = [slot.at EXCEPT ![d] = slot'.at[d]]
    BY <2>1 DEF Moved, Loading, Behind
  <2>4. d # c
    BY <2>2
  <2> HIDE DEF d
  <2> QED BY <2>3, <2>4
<1>2. ASSUME NEW d \in Calls, Enter(d) \/ Load(d) \/ LoadFails(d)
      PROVE  slot'.at[c] = "ready"
  <2>1. d # c
    BY <1>2 DEF Enter, Load, LoadFails
  <2>2. \E p \in Places : slot'.at = [slot.at EXCEPT ![d] = p]
    <3>1. CASE Enter(d)
      BY <3>1 DEF Enter, Loading, Moved, Places
    <3>2. CASE Load(d)
      BY <3>2 DEF Load, Released, Moved, Places
    <3>3. CASE LoadFails(d)
      BY <3>3 DEF LoadFails, Released, Moved, Places
    <3> QED BY <1>2, <3>1, <3>2, <3>3
  <2> QED BY <2>1, <2>2
<1>4. ASSUME NEW d \in Calls, LeftBehind(d)
      PROVE  slot'.at[c] = "ready"
  BY <1>4 DEF LeftBehind
<1>3. ASSUME NEW cs \in SUBSET Calls, Cancel(cs)
      PROVE  slot'.at[c] = "ready"
  <2>1. slot'.at = [d \in Calls |-> IF d \in cs /\ slot.at[d] \in {"waiting", "loading"}
                                   THEN "cancelled" ELSE slot.at[d]]
    BY <1>3 DEF Cancel, Without
  <2> QED BY <2>1
<1> QED
  BY <1>1, <1>2, <1>3, <1>4 DEF LoaderNext

\* _ensure_model: at most one load is wanted at a time, and it is that of the call with
\* the lock, whatever calls wait, fail or are cancelled.
THEOREM AlwaysOneLoad == LoaderSpec => []OneLoad
<1>1. LoaderInv => OneLoad
  BY DEF LoaderInv
<1> QED
  BY <1>1, LoaderStart, LoaderStep, PTL DEF LoaderSpec

\* _ensure_model looks at the model before it waits and again when it has the lock: a
\* loaded model stays, and no call starts a load from then on.
THEOREM AlwaysLoadedOnce == LoaderSpec => LoadedOnce
  BY LoaderStart, LoaderStep, LoadedStays, PTL DEF LoaderSpec, LoadedOnce
=============================================================================
