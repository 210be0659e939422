--------------------------- MODULE MCPdfDocument ---------------------------
(***************************************************************************)
(* Small documents.  Dictionary 1 is the root of the page tree, under      *)
(* number 1; 2, 3 and 4 are nodes and leaves under numbers 2, 3 and 4, or  *)
(* in place.  Number 5 holds no dictionary.                                *)
(***************************************************************************)
EXTENDS PdfDocument

Ref(n) == [num |-> n, dict |-> NoDict]
InPlace(d) == [num |-> 0, dict |-> d]

Objects == <<1, 2, 3, 4, 0>>
ObjectsFrom0 == [n \in 0..5 |-> IF n = 0 THEN 0 ELSE Objects[n]]
Kinds(a, b, c) == <<"Pages", a, b, c>>

Document(pages, kind, ks) ==
    [parses |-> TRUE, root |-> TRUE, edited |-> FALSE, pages |-> pages,
     objects |-> ObjectsFrom0, kind |-> kind, kids |-> ks]

(* Trees whose nodes point to higher numbers only.                         *)
Trees ==
    {Document(p, Kinds(a, b, "Page"), <<k1, k2, k3, <<>> >>) :
        p \in {1, 4, 5}, a \in {"Pages", "other"}, b \in {"Pages", "Page"},
        k1 \in {<<Ref(2), Ref(3)>>, <<Ref(4), Ref(5), Ref(2)>>, <<Ref(3), Ref(4), Ref(3)>>},
        k2 \in {<<>>, <<Ref(4)>>, <<Ref(3), Ref(4)>>},
        k3 \in {<<>>, <<Ref(4), Ref(4)>>}}
    \cup {[Document(1, Kinds("Page", "Page", "Page"), <<<<Ref(2)>>, <<>>, <<>>, <<>>>>)
             EXCEPT !.parses = p, !.root = r] : p \in BOOLEAN, r \in {FALSE}}

TreesInPlace ==
    {[Document(1, Kinds("Page", "Page", "Page"),
               << <<Ref(2), InPlace(3)>>, <<>>, <<>>, <<>> >>)
        EXCEPT !.objects[3] = NoDict]}


(* The page tree leads back to its root.                                   *)
Circles ==
    {Document(1, Kinds("Pages", "Page", "Page"),
              << <<Ref(3), Ref(2)>>, <<Ref(1), Ref(4)>>, <<>>, <<>> >>)}

(* An edited document starts with a circle, which an edit may break.       *)
EditedDocs == {[f EXCEPT !.edited = TRUE] : f \in Circles}
AllDocs == Trees \cup EditedDocs
SomeKids == {<<Ref(4)>>}
NoKids == {}
=============================================================================
