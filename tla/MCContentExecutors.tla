------------------------- MODULE MCContentExecutors -------------------------
(***************************************************************************)
(* Pages of the operations both executors implement, with forms of any;    *)
(* two colours, two matrices.                                              *)
(***************************************************************************)
EXTENDS ContentExecutors

Op(n, a) == [name |-> n, arg |-> a]
Plain(names) == {Op(n, "none") : n \in names}
Do(subtype, m) == Op("Do", [subtype |-> subtype, matrix |-> m])

SharedOperations ==
    Plain({"q", "Q", "m", "l", "re", "h", "n", "S", "f", "ET", "Tj"})
    \cup {Op("cm", "M"), Op("g", "red"), Op("Tf", "F1"), Do("Form", <<"M">>)}

(* What only the interpreter, or neither, implements: for forms.           *)
FormOperations ==
    Plain({"W", "B", "F"}) \cup {Do("Form", <<>>), Do("Image", <<>>), Do("other", <<>>)}

PageAndFormOperations == SharedOperations \cup FormOperations

(* Text blocks.                                                            *)
TextOperations == SharedOperations \cup Plain({"BT"})

(* With the other operators that fill, stroke and end paths.               *)
AllOperations ==
    SharedOperations \cup Plain({"c", "W", "f*", "F", "s", "B", "B*", "b", "b*"})
=============================================================================
