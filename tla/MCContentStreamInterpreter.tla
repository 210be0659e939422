--------------------- MODULE MCContentStreamInterpreter ---------------------
(***************************************************************************)
(* Content streams over a few operations, two colours and two matrices.    *)
(***************************************************************************)
EXTENDS ContentStreamInterpreter

Op(n, a) == [name |-> n, arg |-> a]
Plain(names) == {Op(n, "none") : n \in names}
Do(subtype, m) == Op("Do", [subtype |-> subtype, matrix |-> m])

Forms == {Do("Form", <<"M">>), Do("Form", <<>>)}

AllOperations ==
    Plain({"q", "Q", "m", "l", "c", "re", "h", "W", "n"})
    \cup Plain(StrokeOps \cup FillOps \cup FillStrokeOps)
    \cup {Op("cm", "M"), Op("g", "red"), Op("G", "red"), Op("Tf", "F1")}
    \cup {Do("Image", <<>>), Do("other", <<>>)} \cup Forms

(* For the runs about forms: one operation of each kind.                   *)
FormOperations ==
    Plain({"q", "Q", "m", "W", "n", "S", "f", "B", "Tj"}) \cup {Op("cm", "M"), Op("g", "red")}
    \cup {Do("Image", <<>>), Do("other", <<>>)} \cup Forms
=============================================================================
