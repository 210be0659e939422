-------------------------- MODULE MCPageAttributes --------------------------
(***************************************************************************)
(* Page 1 with ancestors 2 and 3, or fewer, whose attributes change.       *)
(***************************************************************************)
EXTENDS PageAttributes

Lines == {<<2, 3, 0>>, <<3, 0, 0>>, <<0, 0, 0>>}
Circles == {<<2, 1, 0>>}

Edits ==
    ({"MediaBox", "Resources"} \X {1, 3}) \cup {<<"CropBox", 3>>, <<"Rotate", 1>>}
Rotations == {"Rotate"} \X {1, 3}
=============================================================================
