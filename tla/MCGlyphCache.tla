---------------------------- MODULE MCGlyphCache ----------------------------
(***************************************************************************)
(* Two fonts of two glyphs: one of outlines, one with a bitmap and an      *)
(* unknown format.  Of the matrices 0 to 2 the last two round to the same. *)
(***************************************************************************)
EXTENDS GlyphCache

Formats ==
    [f \in Font |-> [g \in Glyph |->
        IF f = "A" THEN "outline" ELSE IF g = 1 THEN "bitmap" ELSE "none"]]
Advances == [f \in Font |-> [g \in Glyph |-> IF f = "A" THEN g ELSE 10 * g]]
Styles == {[weight |-> 4, angle |-> 0], [weight |-> 0, angle |-> 12]}
=============================================================================
