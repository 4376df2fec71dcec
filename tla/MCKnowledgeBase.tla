-------------------------- MODULE MCKnowledgeBase ---------------------------
(***************************************************************************)
(* Small instances of DocumentTexts: up to three imports of two documents. *)
(***************************************************************************)
EXTENDS DocumentTexts, TLC

CONSTANTS d1, d2, ann, bob, i1, i2, i3

x == "letter"

\* The texts of the versions: the first one of d1 is longer than a window and has a place
\* to break in the second half of one.
Texts ==
    [dv \in {d1, d2} \X {1, 2} |->
        IF dv = <<d1, 1>> THEN <<x, "line", x, "stop", x, x, x, x>>
        ELSE <<x, "line", x>>]

Aware(t) == [form |-> "aware", time |-> t]
Naive(t) == [form |-> "naive", time |-> t]
Malformed == [form |-> "malformed", time |-> 0]

\* The process of i2 is one hour ahead of UTC.
AheadOfUTC == [i \in Imports |-> IF i = i2 THEN 1 ELSE 0]

\* n chunks of a version, numbered as DocumentLoader.load numbers them.
Numbered(doc, version, n, date, acl) ==
    [k \in 1..n |-> [doc |-> doc, version |-> version, part |-> k, date |-> date, acl |-> acl]]

\* The chunks of the text of a version.
Parts(doc, version, date, acl) ==
    Numbered(doc, version, Len(ChunksOfText(doc, version)), date, acl)

\* Two documents for both principals, the first one in three chunks; a shorter version of
\* the first one, for bob only and effective later, the grants say one hour later than
\* Chroma; the second one for ann only.
Both == Numbered(d1, 1, 3, Aware(0), {ann, bob}) \o Numbered(d2, 1, 1, Aware(0), {ann, bob})
Narrowed == Numbered(d1, 2, 1, Naive(1), {bob}) \o Numbered(d2, 1, 1, Aware(1), {ann})
Published == (i1 :> Both @@ i2 :> Narrowed)

\* A third import grants the first document to bob only and comes to a date that is none.
Misdated == Numbered(d1, 2, 1, Aware(0), {bob}) \o Numbered(d2, 1, 1, Malformed, {bob})
Revoking == (Published @@ i3 :> Misdated)

\* Two documents cut from their texts, and the shorter version of the first one, whose
\* date is none.
Whole == Parts(d1, 1, Aware(0), {ann, bob}) \o Parts(d2, 1, Naive(0), {ann, bob})
Revising == (i1 :> Whole @@ i2 :> Parts(d1, 2, Malformed, {bob}))
=============================================================================
