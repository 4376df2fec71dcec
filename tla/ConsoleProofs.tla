--------------------------- MODULE ConsoleProofs ----------------------------
(***************************************************************************)
(* The page is never stuck in running and reads one stream at a time as    *)
(* long as no run got an error event, for any number of queries, histories *)
(* and threads, and whatever the user does meanwhile.                      *)
(*                                                                         *)
(* That one stream is read is not inductive by itself: the next query is   *)
(* held back by the status alone, so the status has to say running for as  *)
(* long as a stream is open (StatusHolds), which only an error event ends. *)
(***************************************************************************)
EXTENDS Console, TLAPS

Domains ==
    /\ phase \in [Runs -> Phases]
    /\ DOMAIN shown = Fields
    /\ erred \subseteq Runs

\* Until an error event frees it, the status says running while a stream is open.
StatusHolds == erred = {} /\ Open # {} => status = "running"

PageInv == Domains /\ RunningIsRead /\ StatusHolds /\ OneStreamUnlessError

\* How a step that moves one run between phases changes the open streams.
LEMMA OpenAfter ==
  ASSUME phase \in [Runs -> Phases], NEW r \in Runs, NEW p \in Phases,
         phase' = [phase EXCEPT ![r] = p]
  PROVE  /\ phase' \in [Runs -> Phases]
         /\ Open' = IF p \in {"requesting", "started", "closing"}
                    THEN Open \cup {r} ELSE Open \ {r}
  BY DEF Open

LEMMA InitPage ==
  ASSUME Init
  PROVE  PageInv
  BY DEF Init, PageInv, Domains, Phases, Fields, Blank, Open, RunningIsRead, StatusHolds,
         OneStreamUnlessError

LEMMA PageStep ==
  ASSUME PageInv, [Next]_vars
  PROVE  PageInv'
<1> USE DEF PageInv
<1>0. /\ phase \in [Runs -> Phases] /\ DOMAIN shown = Fields /\ erred \subseteq Runs
      /\ {"requesting", "started", "closing", "closed", "broken", "dropped"} \subseteq Phases
  BY DEF Domains, Phases
<1>1. ASSUME NEW r \in Runs, Send(r)  PROVE PageInv'
  <2>1. /\ phase' \in [Runs -> Phases] /\ Open' = Open \cup {r}
    BY <1>0, <1>1, OpenAfter DEF Send
  <2>2. status' = "running" /\ status # "running" /\ erred' = erred /\ shown' = Blank
    BY <1>1 DEF Send, Cleaned
  <2>3. erred = {} => Open = {}
    BY <2>2 DEF StatusHolds
  <2> QED
    BY <1>0, <2>1, <2>2, <2>3
    DEF Domains, RunningIsRead, StatusHolds, OneStreamUnlessError, Blank
<1>2. ASSUME NEW r \in Runs, Close(r) \/ Break(r)  PROVE PageInv'
  <2>1. /\ phase' \in [Runs -> Phases] /\ Open' = Open \ {r} /\ r \in Open
    BY <1>0, <1>2, OpenAfter DEF Close, Break, Open
  <2>2. status' \in {"idle", "error"} /\ erred' = erred /\ DOMAIN shown' = Fields
    BY <1>0, <1>2 DEF Close, Break
  <2>3. erred = {} => Open' = {}
    BY <2>1 DEF OneStreamUnlessError
  <2> QED
    BY <1>0, <2>1, <2>2, <2>3 DEF Domains, RunningIsRead, StatusHolds, OneStreamUnlessError
<1>3. ASSUME NEW r \in Runs, RunStarted(r) \/ Progress(r) \/ Completed(r)  PROVE PageInv'
  <2>1. phase' \in [Runs -> Phases] /\ Open' = Open
    BY <1>0, <1>3, OpenAfter DEF RunStarted, Progress, Completed, Open
  <2>2. status' = status /\ erred' = erred /\ DOMAIN shown' = Fields
    BY <1>0, <1>3 DEF RunStarted, Progress, Completed
  <2> QED
    BY <1>0, <2>1, <2>2 DEF Domains, RunningIsRead, StatusHolds, OneStreamUnlessError
<1>4. ASSUME NEW r \in Runs, Failed(r)  PROVE PageInv'
  <2>1. phase' \in [Runs -> Phases]
    BY <1>0, <1>4 DEF Failed
  <2>2. status' = "error" /\ erred' = erred \cup {r} /\ DOMAIN shown' = Fields
    BY <1>0, <1>4 DEF Failed
  <2> QED
    BY <1>0, <2>1, <2>2 DEF Domains, RunningIsRead, StatusHolds, OneStreamUnlessError
<1>5. CASE Reload
  <2>1. phase' \in [Runs -> Phases] /\ Open' = {}
    BY <1>0, <1>5 DEF Reload, Open
  <2>2. status' = "idle" /\ erred' = erred /\ shown' = Blank
    BY <1>5 DEF Reload
  <2> QED
    BY <1>0, <2>1, <2>2
    DEF Domains, RunningIsRead, StatusHolds, OneStreamUnlessError, Blank
<1>6. ASSUME phase' = phase, status' = status, erred' = erred, DOMAIN shown' = Fields
      PROVE  PageInv'
  BY <1>0, <1>6 DEF Domains, RunningIsRead, StatusHolds, OneStreamUnlessError, Open
<1>7. ASSUME NewThread \/ EditThread \/ SubmitFeedback \/ UNCHANGED vars
             \/ \E l \in Loads : LoadHistory(l) \/ Loaded(l)
      PROVE  PageInv'
  BY <1>0, <1>6, <1>7
  DEF NewThread, Emptied, Blank, Resting, EditThread, SubmitFeedback, LoadHistory, Loaded,
      vars, page
<1> QED
  BY <1>1, <1>2, <1>3, <1>4, <1>5, <1>7 DEF Next, Ends

\* Each fact at every moment of every behaviour.
LEMMA PageHolds == Spec => []PageInv
<1>1. Init => PageInv
  BY InitPage
<1>2. PageInv /\ [Next]_vars => PageInv'
  BY PageStep
<1> QED
  BY <1>1, <1>2, PTL DEF Spec

\* sendQuery, handleEvent: while the page says running, a stream is being read, whether
\* streams end, break or fail, threads are changed or the page is loaded again.
THEOREM AlwaysRunningIsRead == Spec => []RunningIsRead
<1>1. PageInv => RunningIsRead
  BY DEF PageInv
<1> QED
  BY <1>1, PageHolds, PTL

\* sendQuery: no two streams are read at once before a run has got an error event.
THEOREM AlwaysOneStreamUnlessError == Spec => []OneStreamUnlessError
<1>1. PageInv => OneStreamUnlessError
  BY DEF PageInv
<1> QED
  BY <1>1, PageHolds, PTL
-----------------------------------------------------------------------------
(***************************************************************************)
(* What is shown comes from the run sent last.                             *)
(***************************************************************************)
ShownInv ==
    /\ erred \subseteq {r \in Runs : phase[r] # "unsent"}
    /\ shown \in [Fields -> SUBSET Runs]
    /\ erred \subseteq {latest} => Open \subseteq {latest}
    /\ OneRunShown

LEMMA ShownStep ==
  ASSUME PageInv, ShownInv, [Next]_vars
  PROVE  ShownInv'
<1> USE DEF ShownInv, OneRunShown
<1>0. phase \in [Runs -> Phases] /\ Blank \in [Fields -> SUBSET Runs]
  BY DEF PageInv, Domains, Blank
<1>1. ASSUME NEW r \in Runs, Send(r)  PROVE ShownInv'
  <2>1. /\ phase' = [phase EXCEPT ![r] = "requesting"] /\ phase[r] = "unsent"
        /\ Open' = Open \cup {r} /\ shown' = Blank /\ latest' = r /\ erred' = erred
    BY <1>0, <1>1, OpenAfter DEF Send, Cleaned, Phases
  <2>2. erred' \subseteq {latest'} => Open = {}
    BY <1>1, <2>1 DEF Send, PageInv, StatusHolds
  <2> QED
    BY <1>0, <2>1, <2>2 DEF Blank
<1>2. ASSUME NEW r \in Open, latest' = latest, erred' = erred \/ erred' = erred \cup {r},
             \A q \in Runs : phase[q] # "unsent" => phase'[q] # "unsent",
             Open' \subseteq Open, shown' \in [Fields -> SUBSET Runs],
             \A f \in Fields : shown'[f] \subseteq shown[f] \cup {r}
      PROVE  ShownInv'
  BY <1>2 DEF Open
<1>3. ASSUME NEW r \in Runs, Progress(r) \/ Ends(r)  PROVE ShownInv'
  <2>1. r \in Open
    BY <1>3 DEF Open, Progress, Ends, RunStarted, Completed, Failed, Close, Break
  <2>2. /\ latest' = latest
        /\ erred' = erred \/ erred' = erred \cup {r}
        /\ shown' \in [Fields -> SUBSET Runs]
        /\ \A f \in Fields : shown'[f] \subseteq shown[f] \cup {r}
    BY <1>3 DEF Fields, Progress, Ends, RunStarted, Completed, Failed, Close, Break
  <2>3. \A q \in Runs : phase[q] # "unsent" => phase'[q] # "unsent"
    BY <1>0, <1>3 DEF Progress, Ends, RunStarted, Completed, Failed, Close, Break
  <2>4. Open' \subseteq Open
    BY <1>0, <1>3, <2>1 DEF Open, Progress, Ends, RunStarted, Completed, Failed, Close, Break
  <2> QED
    BY <1>2, <2>1, <2>2, <2>3, <2>4
<1>4. CASE Reload
  BY <1>0, <1>4 DEF Reload, Open, Blank
<1>5. CASE NewThread
  BY <1>0, <1>5 DEF NewThread, Emptied, Open, Blank
<1>6. ASSUME EditThread \/ SubmitFeedback \/ UNCHANGED vars
             \/ \E l \in Loads : LoadHistory(l) \/ Loaded(l)
      PROVE  ShownInv'
  BY <1>6 DEF EditThread, SubmitFeedback, LoadHistory, Loaded, vars, page, Open
<1> QED
  BY <1>1, <1>3, <1>4, <1>5, <1>6 DEF Next

LEMMA ShownHolds == Spec => []ShownInv
<1>1. Init => ShownInv
  BY DEF Init, ShownInv, OneRunShown, Blank, Open
<1>2. PageInv /\ ShownInv /\ [Next]_vars => ShownInv'
  BY ShownStep
<1> QED
  BY <1>1, <1>2, PageHolds, PTL DEF Spec

\* handleEvent, sendQuery, newThread: while no earlier run has got an error event, the
\* fields of the page never mix runs, whatever events arrive in whatever order.
THEOREM AlwaysOneRunShown == Spec => []OneRunShown
<1>1. ShownInv => OneRunShown
  BY DEF ShownInv
<1> QED
  BY <1>1, ShownHolds, PTL
-----------------------------------------------------------------------------
(***************************************************************************)
(* The message of a failure.  Only the stream that failed could overwrite  *)
(* it, and its error event is the last one (ErredLate); any other open     *)
(* stream would be an earlier run's, which ShownInv rules out.             *)
(***************************************************************************)
ErredLate == \A r \in erred : phase[r] \in {"closing", "closed", "broken", "dropped"}

Told ==
    /\ latest \in Runs
    /\ latest \in erred \/ phase[latest] = "broken"
    /\ erred \subseteq {latest}
    /\ shown["answer"] # {}
    => shown["answer"] = {latest} /\ failure

ToldInv == ErredLate /\ Told

LEMMA ToldStep ==
  ASSUME PageInv, ShownInv, ToldInv, [Next]_vars
  PROVE  ToldInv'
<1> USE DEF ToldInv, ErredLate, Told
<1>0. /\ phase \in [Runs -> Phases] /\ shown \in [Fields -> SUBSET Runs] /\ erred \subseteq Runs
      /\ "answer" \in Fields
      /\ erred \subseteq {latest} => Open \subseteq {latest}
  BY DEF PageInv, Domains, ShownInv, Fields
<1>1. ASSUME NEW r \in Runs, Send(r)  PROVE ToldInv'
  <2>1. shown'["answer"] = {} /\ erred' = erred /\ phase' = [phase EXCEPT ![r] = "requesting"]
    BY <1>0, <1>1 DEF Send, Cleaned, Blank
  <2>2. r \notin erred
    BY <1>1 DEF Send
  <2> QED
    BY <1>0, <2>1, <2>2
<1>2. ASSUME NEW r \in Runs, RunStarted(r) \/ Progress(r) \/ Completed(r)  PROVE ToldInv'
  <2>1. /\ latest' = latest /\ erred' = erred /\ r \in Open /\ r \notin erred
        /\ phase' = [phase EXCEPT ![r] = phase'[r]] /\ phase'[r] # "broken"
    BY <1>0, <1>2 DEF RunStarted, Progress, Completed, Open
  <2>2. ErredLate'
    BY <1>0, <2>1
  <2>3. ~(latest \in Runs /\ (latest \in erred \/ phase'[latest] = "broken") /\ erred \subseteq {latest})
    BY <1>0, <2>1
  <2> QED
    BY <2>1, <2>2, <2>3
<1>3. ASSUME NEW r \in Runs, Close(r)  PROVE ToldInv'
  BY <1>0, <1>3 DEF Close
<1>4. ASSUME NEW r \in Runs, Break(r) \/ Failed(r)  PROVE ToldInv'
  <2>1. /\ latest' = latest /\ r \in Open /\ shown'["answer"] = {r} /\ failure'
        /\ erred' = erred \/ erred' = erred \cup {r}
    BY <1>0, <1>4 DEF Break, Failed, Open
  <2>2. ErredLate'
    BY <1>0, <1>4 DEF Break, Failed
  <2>3. erred' \subseteq {latest} => r = latest
    BY <1>0, <2>1
  <2> QED
    BY <2>1, <2>2, <2>3
<1>5. CASE NewThread \/ Reload
  <2>1. shown'["answer"] = {}
    BY <1>5 DEF NewThread, Reload, Emptied, Blank, Fields
  <2>2. ErredLate'
    BY <1>0, <1>5 DEF NewThread, Reload, Open
  <2> QED
    BY <2>1, <2>2
<1>6. ASSUME EditThread \/ SubmitFeedback \/ UNCHANGED vars
             \/ \E l \in Loads : LoadHistory(l) \/ Loaded(l)
      PROVE  ToldInv'
  BY <1>6 DEF EditThread, SubmitFeedback, LoadHistory, Loaded, vars, page
<1> QED
  BY <1>1, <1>2, <1>3, <1>4, <1>5, <1>6 DEF Next, Ends

\* handleEvent, sendQuery: the answer shown after the run sent last has failed is the
\* message of its failure, whichever way it failed and whatever the user did since.
THEOREM AlwaysFailureTold == Spec => []FailureTold
<1>1. Init => ToldInv
  BY DEF Init, ToldInv, ErredLate, Told, Blank, Fields
<1>2. PageInv /\ ShownInv /\ ToldInv /\ [Next]_vars => ToldInv'
  BY ToldStep
<1>3. ToldInv => FailureTold
  BY DEF ToldInv, Told, FailureTold
<1> QED
  BY <1>1, <1>2, <1>3, PageHolds, ShownHolds, PTL DEF Spec
-----------------------------------------------------------------------------
(***************************************************************************)
(* What belongs to another thread.  An open stream or a pending load may   *)
(* be shown later, so it has to satisfy what ForeignIsStray asks of the    *)
(* page already, and what was sent for a thread keeps it.                  *)
(***************************************************************************)
SentFor(x) ==
    /\ x \in Runs => phase[x] # "unsent"
    /\ x \in Loads => load[x] # "unsent"
    /\ thread[x] \in Threads

Traced(x) == SentFor(x) /\ (thread[x] = threadId \/ x \in strays)

StrayDomains ==
    /\ shown \in [Fields -> SUBSET Runs] /\ history \in Loads \cup {None}
    /\ thread \in [Runs \cup Loads -> Threads \cup {None}]
    /\ load \in [Loads -> {"unsent", "pending", "done"}]
    /\ threadId \in Threads \cup {None}

PostedTraced ==
    posted # None =>
        /\ posted \in Runs \X Threads /\ SentFor(posted[1])
        /\ thread[posted[1]] = posted[2] \/ posted[1] \in strays

StrayInv ==
    /\ StrayDomains
    /\ \A x \in Displayed \cup Open \cup Pending : Traced(x)
    /\ PostedTraced

\* A step that sends nothing and shows only what is shown or under way, with the threads
\* of what it can show unchanged.
LEMMA QuietStep ==
  ASSUME StrayInv, StrayDomains',
         thread' = thread, threadId' = threadId, strays \subseteq strays', posted' = posted,
         \A r \in Runs : phase[r] # "unsent" => phase'[r] # "unsent",
         \A l \in Loads : load[l] # "unsent" => load'[l] # "unsent",
         (Displayed \cup Open \cup Pending)' \subseteq Displayed \cup Open \cup Pending
  PROVE  StrayInv'
<1>1. \A x : SentFor(x) => SentFor(x)'
  BY DEF SentFor
<1>2. \A x \in (Displayed \cup Open \cup Pending)' : Traced(x)'
  BY <1>1 DEF StrayInv, Traced
<1>3. PostedTraced'
  BY <1>1 DEF StrayInv, PostedTraced
<1> QED
  BY <1>2, <1>3 DEF StrayInv

LEMMA StrayStep ==
  ASSUME PageInv, StrayInv, [Next]_vars
  PROVE  StrayInv'
<1>0. /\ phase \in [Runs -> Phases] /\ Blank \in [Fields -> SUBSET Runs] /\ StrayDomains
      /\ \A x \in Displayed \cup Open \cup Pending : Traced(x)
      /\ PostedTraced /\ Displayed \cup Open \cup Pending \subseteq Runs \cup Loads
  BY DEF PageInv, Domains, Blank, StrayInv, StrayDomains, Displayed, Open, Pending
<1>1. ASSUME NEW r \in Runs, Progress(r) \/ Ends(r)  PROVE StrayInv'
  <2>1. r \in Open
    BY <1>1 DEF Open, Progress, Ends, RunStarted, Completed, Failed, Close, Break
  <2>2. /\ thread' = thread /\ threadId' = threadId /\ strays' = strays /\ posted' = posted
        /\ load' = load /\ history' = history
    BY <1>1 DEF Progress, Ends, RunStarted, Completed, Failed, Close, Break
  <2>3. /\ shown' \in [Fields -> SUBSET Runs]
        /\ \A f \in Fields : shown'[f] \subseteq shown[f] \cup {r}
    BY <1>0, <1>1
    DEF StrayDomains, Fields, Progress, Ends, RunStarted, Completed, Failed, Close, Break
  <2>4. \A q \in Runs : phase[q] # "unsent" => phase'[q] # "unsent"
    BY <1>0, <1>1 DEF Progress, Ends, RunStarted, Completed, Failed, Close, Break
  <2>5. Open' \subseteq Open /\ Pending' = Pending
    BY <1>0, <1>1, <2>1, <2>2
    DEF Open, Pending, Progress, Ends, RunStarted, Completed, Failed, Close, Break
  <2>6. Displayed' \subseteq Displayed \cup {r}
    BY <2>2, <2>3 DEF Displayed
  <2> QED
    BY <1>0, <2>1, <2>2, <2>3, <2>4, <2>5, <2>6, QuietStep DEF StrayDomains
<1>2. ASSUME NEW r \in Runs, Send(r)  PROVE StrayInv'
  <2>1. PICK t \in Threads : threadId' = t /\ thread' = [thread EXCEPT ![r] = t]
                             /\ (threadId # None => t = threadId)
    BY <1>0, <1>2 DEF Send, Fresh, StrayDomains
  <2>2. /\ phase[r] = "unsent" /\ phase' = [phase EXCEPT ![r] = "requesting"]
        /\ Open' = Open \cup {r} /\ shown' = Blank /\ history' = history
        /\ load' = load /\ posted' = posted /\ strays' = strays
    BY <1>0, <1>2, OpenAfter DEF Send, Cleaned, Phases
  <2>3. StrayDomains'
    BY <1>0, <2>1, <2>2 DEF StrayDomains
  <2>4. \A x \in Runs \cup Loads : SentFor(x) => x # r /\ SentFor(x)' /\ thread'[x] = thread[x]
    BY <1>0, <2>1, <2>2, NoneAssumption DEF SentFor, StrayDomains
  <2>5. \A x \in Runs \cup Loads : Traced(x) => Traced(x)'
    BY <2>1, <2>2, <2>4, NoneAssumption DEF Traced, SentFor
  <2>6. Traced(r)'
    BY <1>0, <2>1, <2>2, NoneAssumption DEF Traced, SentFor, StrayDomains
  <2>7. (Displayed \cup Open \cup Pending)' \subseteq Displayed \cup Open \cup Pending \cup {r}
    BY <2>2 DEF Displayed, Pending, Blank, Fields
  <2>8. PostedTraced'
    BY <1>0, <2>2, <2>4 DEF PostedTraced
  <2> QED
    BY <1>0, <2>3, <2>5, <2>6, <2>7, <2>8 DEF StrayInv
<1>3. ASSUME NEW l \in Loads, Loaded(l)  PROVE StrayInv'
  <2>1. l \in Pending /\ Open' = Open /\ Pending' \subseteq Pending
    BY <1>0, <1>3 DEF Loaded, Pending, Open, StrayDomains
  <2>2. Displayed' \subseteq Displayed \cup {l}
    BY <1>3 DEF Displayed, Loaded
  <2> QED
    BY <1>0, <1>3, <2>1, <2>2, QuietStep DEF Loaded, StrayDomains
<1>4. ASSUME NEW l \in Loads, LoadHistory(l)  PROVE StrayInv'
  <2>1. /\ load[l] = "unsent" /\ threadId \in Threads /\ threadId' = threadId
        /\ load' = [load EXCEPT ![l] = "pending"]
        /\ thread' = [thread EXCEPT ![l] = threadId]
        /\ posted' = posted /\ strays' = strays /\ phase' = phase
        /\ shown' = shown /\ history' = history
    BY <1>0, <1>4 DEF LoadHistory, page, StrayDomains
  <2>2. StrayDomains'
    BY <1>0, <2>1 DEF StrayDomains
  <2>3. \A x \in Runs \cup Loads : SentFor(x) => x # l /\ SentFor(x)' /\ thread'[x] = thread[x]
    BY <1>0, <2>1, NoneAssumption DEF SentFor, StrayDomains
  <2>4. Traced(l)'
    BY <1>0, <2>1, NoneAssumption DEF Traced, SentFor, StrayDomains
  <2>5. (Displayed \cup Open \cup Pending)' \subseteq Displayed \cup Open \cup Pending \cup {l}
    BY <1>0, <2>1 DEF Displayed, Open, Pending, StrayDomains
  <2>6. PostedTraced'
    BY <1>0, <2>1, <2>3 DEF PostedTraced
  <2> QED
    BY <1>0, <2>1, <2>2, <2>3, <2>4, <2>5, <2>6 DEF StrayInv, Traced
<1>5. ASSUME NewThread \/ EditThread  PROVE StrayInv'
  <2>1. /\ thread' = thread /\ phase' = phase /\ load' = load /\ posted' = posted
        /\ strays \cup Open \cup Pending \cup Displayed' \subseteq strays'
        /\ threadId' \in Threads \cup {None} /\ Displayed' \subseteq Displayed
        /\ shown' \in [Fields -> SUBSET Runs] /\ history' \in Loads \cup {None}
    BY <1>0, <1>5
    DEF NewThread, EditThread, Fresh, Emptied, Blank, Displayed, StrayDomains, Fields
  <2>2. \A x : SentFor(x) => SentFor(x)'
    BY <2>1 DEF SentFor
  <2>3. Open' = Open /\ Pending' = Pending /\ StrayDomains'
    BY <1>0, <2>1 DEF Open, Pending, StrayDomains
  <2>4. PostedTraced'
    BY <1>0, <2>1, <2>2 DEF PostedTraced
  <2> QED
    BY <1>0, <2>1, <2>2, <2>3, <2>4 DEF StrayInv, Traced
<1>6. CASE SubmitFeedback
  <2>1. PICK r \in shown["run"] : posted' = <<r, threadId>>
    BY <1>6 DEF SubmitFeedback
  <2>2. /\ r \in Runs /\ Traced(r) /\ threadId \in Threads
    BY <1>0, <1>6, <2>1 DEF StrayDomains, Displayed, Fields, SubmitFeedback
  <2>3. /\ thread' = thread /\ threadId' = threadId /\ strays' = strays /\ phase' = phase
        /\ load' = load /\ shown' = shown /\ history' = history
    BY <1>6 DEF SubmitFeedback, page
  <2>4. \A x : Traced(x) <=> Traced(x)'
    BY <2>3 DEF Traced, SentFor
  <2>5. PostedTraced'
    BY <2>1, <2>2, <2>3 DEF PostedTraced, Traced, SentFor
  <2>6. Displayed' = Displayed /\ Open' = Open /\ Pending' = Pending /\ StrayDomains'
    BY <1>0, <2>3 DEF Displayed, Open, Pending, StrayDomains
  <2> QED
    BY <1>0, <2>4, <2>5, <2>6 DEF StrayInv
<1>7. CASE Reload
  <2>1. /\ \A r \in Runs : phase[r] # "unsent" => phase'[r] # "unsent"
        /\ \A l \in Loads : load[l] # "unsent" => load'[l] # "unsent"
    BY <1>7 DEF Reload
  <2>2. Displayed' = {} /\ Open' = {} /\ Pending' = {}
    BY <1>0, <1>7 DEF Reload, Displayed, Open, Pending, Blank, Fields
  <2>3. StrayDomains'
    BY <1>0, <1>7 DEF Reload, StrayDomains
  <2> QED
    BY <1>7, <2>1, <2>2, <2>3, QuietStep DEF Reload
<1>8. CASE UNCHANGED vars
  BY <1>8, QuietStep DEF vars, StrayInv, StrayDomains, Displayed, Open, Pending
<1> QED
  BY <1>1, <1>2, <1>3, <1>4, <1>5, <1>6, <1>7, <1>8 DEF Next

\* newThread, the thread id field, loadHistory, submitFeedback: what the page shows or
\* rates of another thread was under way or shown when the id was changed under it.
THEOREM AlwaysForeignIsStray == Spec => []ForeignIsStray
<1>1. Init => StrayInv
  BY NoneAssumption
  DEF Init, StrayInv, StrayDomains, PostedTraced, Displayed, Open, Pending, Blank, Fields
<1>2. PageInv /\ StrayInv /\ [Next]_vars => StrayInv'
  BY StrayStep
<1>3. StrayInv => ForeignIsStray
  BY DEF StrayInv, ForeignIsStray, PostedTraced, Traced
<1> QED
  BY <1>1, <1>2, <1>3, PageHolds, PTL DEF Spec
=============================================================================
