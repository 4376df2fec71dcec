---------------------------- MODULE Conversation ----------------------------
(***************************************************************************)
(* What the agent promises a client that asks one question at a time on a  *)
(* thread: every question ends, a reply is the turn recorded for that very *)
(* question, and the thread remembers its last HistoryLimit turns in order *)
(* until the process restarts.  AgentWorkflow is shown to implement this   *)
(* module; its variables are the abstractions of that module's state.      *)
(***************************************************************************)
EXTENDS Integers, Sequences

CONSTANTS Runs,         \* the requests
          Threads,      \* conversation threads
          HistoryLimit  \* turns a thread remembers

VARIABLES thread,   \* thread[q]: the thread question q is asked on
          phase,    \* phase[q]: how far q has come
          turn,     \* turn[q]: the turn recorded for q
          turns,    \* turns[t]: what thread t remembers
          reply     \* reply[q]: what the client of q was told

vars == <<thread, phase, turn, turns, reply>>

CONSTANTS Outcomes,     \* the statuses a turn may have
          NoTurn        \* not a turn

Turns == [run : Runs, status : Outcomes]

LastTurns(s) ==
    SubSeq(s, IF Len(s) > HistoryLimit THEN Len(s) - HistoryLimit + 1 ELSE 1,
           Len(s))

Init ==
    /\ thread \in [Runs -> Threads]
    /\ phase = [q \in Runs |-> "waiting"]
    /\ turn = [q \in Runs |-> NoTurn]
    /\ turns = [t \in Threads |-> <<>>]
    /\ reply = [q \in Runs |-> NoTurn]

Busy(t) == \E q \in Runs : thread[q] = t /\ phase[q] \in {"running", "recorded"}

Ask(q) ==
    /\ phase[q] = "waiting"
    /\ ~Busy(thread[q])
    /\ phase' = [phase EXCEPT ![q] = "running"]
    /\ UNCHANGED <<thread, turn, turns, reply>>

Record(q) ==
    /\ phase[q] = "running"
    /\ \E status \in Outcomes :
          LET new == [run |-> q, status |-> status]
          IN  /\ turn' = [turn EXCEPT ![q] = new]
              /\ turns' = [turns EXCEPT
                             ![thread[q]] = LastTurns(Append(@, new))]
    /\ phase' = [phase EXCEPT ![q] = "recorded"]
    /\ UNCHANGED <<thread, reply>>

Reply(q) ==
    /\ phase[q] = "recorded"
    /\ reply' = [reply EXCEPT ![q] = turn[q]]
    /\ phase' = [phase EXCEPT ![q] = "replied"]
    /\ UNCHANGED <<thread, turn, turns>>

\* The question ends without a reply: an error, or a client that left.
Lose(q) ==
    /\ phase[q] \in {"waiting", "running", "recorded"}
    /\ phase' = [phase EXCEPT ![q] = "lost"]
    /\ turn' = [turn EXCEPT ![q] = NoTurn]
    /\ UNCHANGED <<thread, turns, reply>>

\* Conversations live in the process: a restart forgets them.
Restart ==
    /\ phase' = [q \in Runs |-> IF phase[q] \in {"running", "recorded"}
                                THEN "lost" ELSE phase[q]]
    /\ turn' = [q \in Runs |-> IF phase[q] = "replied" THEN turn[q] ELSE NoTurn]
    /\ turns' = [t \in Threads |-> <<>>]
    /\ UNCHANGED <<thread, reply>>

End(q) == Record(q) \/ Reply(q) \/ (phase[q] # "waiting" /\ Lose(q))

Next == Restart \/ \E q \in Runs : Ask(q) \/ Record(q) \/ Reply(q) \/ Lose(q)

Spec == Init /\ [][Next]_vars /\ \A q \in Runs : WF_vars(End(q))
=============================================================================
