------------------------------ MODULE Chunking ------------------------------
(***************************************************************************)
(* The sliding window that cuts a section into chunks: _chunk_text of      *)
(* app/infra/document_loader.py.  A text is a sequence of characters, of   *)
(* which only these are told apart: "line" is a newline, "stop" one of the *)
(* two punctuation marks a window prefers to end after, "letter" any       *)
(* other.  Positions count from 1; a window is start+1..end.               *)
(***************************************************************************)
EXTENDS Integers, Sequences, FiniteSets, FiniteSetsExt

Characters == {"line", "stop", "letter"}
Letters(text) == {p \in DOMAIN text : text[p] # "line"}

\* The last place to break within start+1..end, if it lies in the second half.
Breaks(text, size, start, end) ==
    {p \in start + 1..end : text[p] \in {"line", "stop"} /\ p - 1 > start + size \div 2}

\* Where the window that begins after start ends.
EndOf(text, size, start) ==
    LET end == IF start + size < Len(text) THEN start + size ELSE Len(text)
        breaks == Breaks(text, size, start, end)
    IN  IF end < Len(text) /\ breaks # {} THEN Max(breaks) ELSE end

\* Mutation: the overlap is skipped instead of repeated.
NextStartAfter(end, overlap, start) == end + overlap

\* The next window overlaps the last one, but begins later.
NextStart(end, overlap, start) ==
    IF end - overlap > start + 1 THEN end - overlap ELSE start + 1

\* starts[k]: where the window after k others begins, or the length of the text when
\* there is none.
Starts(text, size, overlap) ==
    LET starts[k \in 0..Len(text)] ==
          IF k = 0 THEN 0
          ELSE LET start == starts[k - 1]
                   end == EndOf(text, size, start)
               IN  IF end >= Len(text) THEN Len(text)
                   ELSE NextStart(end, overlap, start)
    IN  starts

\* The letters from the first to the last one of a window, which strip() leaves.
Stripped(text, window) ==
    LET letters == window \cap Letters(text)
    IN  {p \in window : \E a, b \in letters : a =< p /\ p =< b}

\* The chunks of a text as sets of positions, in order; empty ones are left out.
ChunkText(text, size, overlap) ==
    LET starts == Starts(text, size, overlap)
        window(k) == Stripped(text, starts[k] + 1..EndOf(text, size, starts[k]))
        chunks[k \in 0..Len(text) + 1] ==
          IF k = 0 THEN <<>>
          ELSE IF window(k - 1) = {} THEN chunks[k - 1]
          ELSE Append(chunks[k - 1], window(k - 1))
    IN  chunks[Len(text) + 1]
=============================================================================
