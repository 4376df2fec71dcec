------------------------------ MODULE Console -------------------------------
(***************************************************************************)
(* The web console (frontend/src/App.tsx): one page that sends queries,    *)
(* reads their event streams, loads histories and rates answers while the  *)
(* user starts new threads, edits the thread id or reloads the page.       *)
(*                                                                         *)
(* What a field of the page shows is abstracted to the runs whose events   *)
(* filled it: `run` is run_id and trace_id, `details` all of the route,    *)
(* the plan, the review, the retries and the evidence, of which an event   *)
(* replaces only one, `steps` the list that events add to.                 *)
(* Left out: statusText, which always changes with status, and the token,  *)
(* without which the buttons do nothing but show a notice.  The server is  *)
(* external here: a stream is run_started, progress events, completed or   *)
(* error and its end, and may break at any moment.                         *)
(***************************************************************************)
EXTENDS Naturals

CONSTANTS
    Runs,      \* the queries the user may send, as the server's run ids
    Loads,     \* the requests for a history
    Threads,   \* thread ids, those the page makes and those the user types
    None       \* no run, load or thread

ASSUME NoneAssumption ==
    /\ None \notin Runs \cup Loads \cup Threads
    /\ Runs \cap Loads = {}

VARIABLES
    threadId, status,
    shown,     \* the runs each field shows
    failure,   \* is the answer a failure message?
    history,   \* the load whose events the sidebar lists
    phase,     \* where the reading of a run's stream is
    erred,     \* runs whose stream has delivered an error event
    thread,    \* the thread a run or a load was sent for
    load,      \* where a load is
    posted,    \* the feedback sent last: run and thread
    latest,    \* history variable: the run sent last
    strays     \* history variable: runs and loads the thread was changed under

page == <<threadId, status, shown, failure, history>>
vars == <<threadId, status, shown, failure, history, phase, erred, thread,
          load, posted, latest, strays>>

Fields == {"run", "details", "steps", "answer"}
Blank == [f \in Fields |-> {}]
Open == {r \in Runs : phase[r] \in {"requesting", "started", "closing"}}
Pending == {l \in Loads : load[l] = "pending"}
Displayed == (UNION {shown[f] : f \in Fields}) \cup ({history} \ {None})

\* An id made of the current time: none the page or a request holds.
Fresh == Threads \ ({threadId} \cup {thread[x] : x \in Runs \cup Loads})

Init ==
    /\ threadId \in Threads \cup {None}     \* from localStorage
    /\ status = "idle"
    /\ shown = Blank /\ failure = FALSE /\ history = None
    /\ phase = [r \in Runs |-> "unsent"]
    /\ erred = {}
    /\ thread = [x \in Runs \cup Loads |-> None]
    /\ load = [l \in Loads |-> "unsent"]
    /\ posted = None
    /\ latest = None /\ strays = {}
-----------------------------------------------------------------------------
\* sendQuery.

\* Mutation: the fields of the last run are kept until events replace them.
CleanedLess(fields) == [fields EXCEPT !["answer"] = {}]
Cleaned(fields) == Blank

\* A query on the thread of the page, or on a new one when it has none.
Send(r) ==
    /\ phase[r] = "unsent" /\ status # "running"
    /\ \E t \in IF threadId = None THEN Fresh ELSE {threadId} :
          /\ threadId' = t
          /\ thread' = [thread EXCEPT ![r] = t]
    /\ status' = "running"
    /\ shown' = Cleaned(shown) /\ failure' = FALSE
    /\ phase' = [phase EXCEPT ![r] = "requesting"]
    /\ latest' = r
    /\ UNCHANGED <<history, erred, load, posted, strays>>

\* The read loop ends.
Close(r) ==
    /\ phase[r] = "closing"
    /\ phase' = [phase EXCEPT ![r] = "closed"]
    /\ status' = "idle"
    /\ UNCHANGED <<threadId, shown, failure, history, erred, thread,
                   load, posted, latest, strays>>

\* Mutation: the exception is shown, the page keeps running.
BreakRunning(r) ==
    /\ r \in Open
    /\ phase' = [phase EXCEPT ![r] = "broken"]
    /\ shown' = [shown EXCEPT !["answer"] = {r}] /\ failure' = TRUE
    /\ UNCHANGED <<threadId, status, history, erred, thread, load, posted,
                   latest, strays>>

\* The request is refused or the connection breaks: the exception is shown.
Break(r) ==
    /\ r \in Open
    /\ phase' = [phase EXCEPT ![r] = "broken"]
    /\ shown' = [shown EXCEPT !["answer"] = {r}] /\ failure' = TRUE
    /\ status' = "error"
    /\ UNCHANGED <<threadId, history, erred, thread, load, posted,
                   latest, strays>>
-----------------------------------------------------------------------------
\* handleEvent, whichever run and thread the event names.

\* The response is there and the first event of its body.
RunStarted(r) ==
    /\ phase[r] = "requesting"
    /\ phase' = [phase EXCEPT ![r] = "started"]
    /\ shown' = [shown EXCEPT !["run"] = {r}]
    /\ UNCHANGED <<threadId, status, failure, history, erred, thread,
                   load, posted, latest, strays>>

\* An answer replaces the one shown; a step adds to those listed, and what replaces one
\* of the details leaves the others.
Progress(r) ==
    /\ phase[r] = "started"
    /\ \E f \in Fields \ {"run"} :
          /\ shown' = [shown EXCEPT ![f] = IF f = "answer" THEN {r} ELSE @ \cup {r}]
          /\ failure' = (failure /\ f # "answer")
    /\ UNCHANGED <<threadId, status, history, phase, erred, thread,
                   load, posted, latest, strays>>

Completed(r) ==
    /\ phase[r] = "started"
    /\ phase' = [phase EXCEPT ![r] = "closing"]
    /\ shown' = [f \in Fields |-> CASE f = "steps"   -> shown[f]
                                    [] f = "details" -> shown[f] \cup {r}
                                    [] OTHER         -> {r}]
    /\ failure' = FALSE
    /\ UNCHANGED <<threadId, status, history, erred, thread, load, posted,
                   latest, strays>>

\* Mutation: the message of an error event goes to the status line only.
FailedSilently(r) ==
    /\ phase[r] = "started"
    /\ phase' = [phase EXCEPT ![r] = "closing"]
    /\ erred' = erred \cup {r}
    /\ status' = "error"
    /\ UNCHANGED <<threadId, shown, failure, history, thread, load, posted,
                   latest, strays>>

Failed(r) ==
    /\ phase[r] = "started"
    /\ phase' = [phase EXCEPT ![r] = "closing"]
    /\ erred' = erred \cup {r}
    /\ shown' = [shown EXCEPT !["answer"] = {r}] /\ failure' = TRUE
    /\ status' = "error"
    /\ UNCHANGED <<threadId, history, thread, load, posted, latest,
                   strays>>
-----------------------------------------------------------------------------
\* The rest of the page.

\* Mutation: a new thread is idle.
RestingIdle(s) == "idle"
Resting(s) == s

\* Mutation: newThread keeps the run id.
EmptiedLess(fields) == [Blank EXCEPT !["run"] = fields["run"]]
Emptied(fields) == Blank

\* newThread clears the page; it neither stops a stream nor touches the status.
NewThread ==
    /\ threadId' \in Fresh
    /\ shown' = Emptied(shown) /\ failure' = FALSE
    /\ history' = None
    /\ status' = Resting(status)
    /\ strays' = strays \cup Open \cup Pending
    /\ UNCHANGED <<phase, erred, thread, load, posted, latest>>

EditThread ==
    /\ threadId' \in (Threads \cup {None}) \ {threadId}
    /\ strays' = strays \cup Open \cup Pending \cup Displayed
    /\ UNCHANGED <<status, shown, failure, history, phase, erred, thread,
                   load, posted, latest>>

LoadHistory(l) ==
    /\ load[l] = "unsent" /\ threadId # None
    /\ load' = [load EXCEPT ![l] = "pending"]
    /\ thread' = [thread EXCEPT ![l] = threadId]
    /\ UNCHANGED <<page, phase, erred, posted, latest, strays>>

\* The events, none when the request is refused, nothing when it breaks.
Loaded(l) ==
    /\ load[l] = "pending"
    /\ load' = [load EXCEPT ![l] = "done"]
    /\ history' \in {l, None, history}
    /\ UNCHANGED <<threadId, status, shown, failure, phase, erred,
                   thread, posted, latest, strays>>

\* The buttons are there as soon as an answer is.
SubmitFeedback ==
    /\ shown["answer"] # {} /\ threadId # None
    /\ \E r \in shown["run"] : posted' = <<r, threadId>>
    /\ UNCHANGED <<page, phase, erred, thread, load, latest, strays>>

\* The page is loaded again: only token and thread id are kept, streams are dropped.
Reload ==
    /\ status' = "idle"
    /\ shown' = Blank /\ failure' = FALSE /\ history' = None
    /\ phase' = [r \in Runs |-> IF r \in Open THEN "dropped" ELSE phase[r]]
    /\ load' = [l \in Loads |-> IF l \in Pending THEN "done" ELSE load[l]]
    /\ UNCHANGED <<threadId, erred, thread, posted, latest, strays>>

Ends(r) == RunStarted(r) \/ Completed(r) \/ Failed(r) \/ Close(r) \/ Break(r)

Next ==
    \/ \E r \in Runs : Send(r) \/ Ends(r) \/ Progress(r)
    \/ \E l \in Loads : LoadHistory(l) \/ Loaded(l)
    \/ NewThread \/ EditThread
    \/ SubmitFeedback \/ Reload

Spec == Init /\ [][Next]_vars
FairSpec == Spec /\ \A r \in Runs : WF_vars(Ends(r))
-----------------------------------------------------------------------------
\* Properties.

\* Where the reading of a stream may be.
Phases == {"unsent", "requesting", "started", "closing", "closed",
           "broken", "dropped"}

\* The status guard of sendQuery lets two streams be read at once only after a run of
\* the page got an error event, which frees the status before its stream has ended.
OneStreamUnlessError ==
    \A a, b \in Open : a # b => erred # {}

\* The page never waits for nothing: while it says running, a stream is being read.
RunningIsRead == status = "running" => Open # {}

\* Unless an earlier run got an error event, all the page shows, the merged list of steps
\* included, comes from the run sent last, whatever the user did meanwhile.
OneRunShown ==
    erred \subseteq {latest} =>
        \A f \in Fields : shown[f] \subseteq {latest}

\* When the run sent last has failed, by an error event or an exception, its message is
\* the answer shown, though the end of the stream resets the status to idle.  Of a page
\* whose answer field is empty it says nothing.
FailureTold ==
    \A r \in Runs :
        /\ r = latest /\ r \notin Open
        /\ r \in erred \/ phase[r] = "broken"
        /\ erred \subseteq {r}
        /\ shown["answer"] # {}
        => shown["answer"] = {r} /\ failure

\* A run or a history of another thread is shown or rated only if the thread was changed
\* while its stream or request was open, or by editing the id under it: New thread on a
\* quiet page leaves nothing of the old thread behind.
ForeignIsStray ==
    /\ \A x \in Displayed : thread[x] = threadId \/ x \in strays
    /\ posted # None => thread[posted[1]] = posted[2] \/ posted[1] \in strays

\* A page that says running stops saying so: the server ends each stream or the
\* connection breaks.
RunsSettle == status = "running" ~> status # "running"
=============================================================================
