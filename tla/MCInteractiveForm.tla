------------------------- MODULE MCInteractiveForm --------------------------
(***************************************************************************)
(* Forms of three dictionaries: trees and shared kids, fields with and     *)
(* without name and type, merged widgets.                                  *)
(***************************************************************************)
EXTENDS InteractiveForm

D(t, ft, subtype, kids) == [t |-> t, ft |-> ft, subtype |-> subtype, kids |-> kids]
Kinds == {NoName, "x", "y"} \X BOOLEAN \X BOOLEAN
DictsWith(kids) == {D(k[1], k[2], k[3], kids) : k \in Kinds}
Named == {D(t, TRUE, FALSE, NoKids) : t \in {"x", "y"}}

None == <<"none">>
TopKids == {<<"b", "c">>, <<"c", "b">>, <<"b">>, <<"b", "null", "b">>}
MiddleKids == {None, <<"c">>, <<"null">>}

TreeForms ==
    {[dicts |-> [d \in Dict |-> CASE d = "a" -> a [] d = "b" -> b [] d = "c" -> c], roots |-> r] :
        a \in UNION {{D(n, FALSE, FALSE, k) : n \in {NoName, "x"}} : k \in TopKids},
        b \in UNION {DictsWith(k) : k \in MiddleKids},
        c \in DictsWith(None),
        r \in {<<"a">>, <<"c", "null", "a">>}}

(* A field that is its own grandchild.                                     *)
CircleForms ==
    {[dicts |-> [d \in Dict |-> D("x", TRUE, FALSE, IF d = "a" THEN <<"b", "c">> ELSE <<"a">>)],
      roots |-> <<"a">>]}
=============================================================================
