--------------------------- MODULE DocumentTexts ----------------------------
(***************************************************************************)
(* What a catalogue is made of: DocumentLoader.load cuts the text of each  *)
(* document with Chunking's window and numbers the chunks, and the numbers *)
(* become their ids.  A document is one section here: the numbers start    *)
(* again with each section, whose title is part of the locator.            *)
(***************************************************************************)
EXTENDS KnowledgeBase, Chunking

CONSTANTS TextOf,       \* TextOf[<<d, v>>]: the text of version v of document d
          ChunkSize,    \* chunk_size
          ChunkOverlap  \* chunk_overlap

ChunksOfText(doc, version) == ChunkText(TextOf[<<doc, version>>], ChunkSize, ChunkOverlap)

\* What __init__ demands, and what load yields of each document of a catalogue.
ASSUME LoaderAssumption ==
    /\ ChunkSize \in Nat /\ ChunkOverlap \in Nat /\ ChunkOverlap < ChunkSize
    /\ \A i \in Imports : \A c \in ChunksOf(i) :
          /\ TextOf[<<c.doc, c.version>>] \in Seq(Characters)
          /\ {x.part : x \in {y \in ChunksOf(i) : y.doc = c.doc}}
                = DOMAIN ChunksOfText(c.doc, c.version)
-----------------------------------------------------------------------------
ActiveParts(d) == {id \in DOMAIN store : id[1] = d /\ store[id].active}

\* Once a document is imported every letter of its text lies in an active chunk: windows
\* leave no gap, whatever they overlap and wherever they break, the chunks that strip()
\* empties leave no hole in the numbers, and no stopped import has left a part inactive.
WholeTextStored ==
    \A d \in Docs : Imported(d) =>
        \A version \in {id[2] : id \in ActiveParts(d)} :
            \A p \in Letters(TextOf[<<d, version>>]) :
                \E id \in ActiveParts(d) :
                    id[2] = version /\ p \in ChunksOfText(d, version)[id[3]]
=============================================================================
