--------------------------- MODULE GraphicsState ---------------------------
(***************************************************************************)
(* The graphics state, its stack and the path under construction           *)
(* (lib/src/pdfium/fpdfapi/page/graphics_state.dart), used by both         *)
(* executors of content streams.                                           *)
(*                                                                         *)
(* A matrix product is the sequence of its factors, left to right, so that *)
(* the order of concatenation shows.  Of a path the kinds of its points    *)
(* are kept.  Line style, flatness and text spacing behave like the fill   *)
(* colour and are left out.                                                *)
(***************************************************************************)
EXTENDS Naturals, Sequences

CONSTANTS
    Colour, Black,  \* colours; the initial one
    Font, NoFont,   \* fonts; none set
    Matrix          \* operands of cm, matrices of forms, the display matrix

ASSUME StateAssumption == Black \in Colour /\ NoFont \in Font

NoRegion == [points |-> <<>>, ctm |-> <<>>]

State ==
    [ctm : Seq(Matrix), fill : Colour, stroke : Colour, font : Font,
     clip : [points : Seq({"m", "l", "c", "h"}), ctm : Seq(Matrix)]]

NewState ==
    [ctm |-> <<>>, fill |-> Black, stroke |-> Black, font |-> NoFont,
     clip |-> NoRegion]

(* concatMatrix: ctm * matrix.                                             *)
Concat(s, m) == [s EXCEPT !.ctm = Append(@, m)]

-----------------------------------------------------------------------------
(* GraphicsStateStack.                                                     *)

Stack == [current : State, saved : Seq(State)]
NewStack == [current |-> NewState, saved |-> <<>>]

Saved(g) == [g EXCEPT !.saved = Append(@, g.current)]
Restored(g) ==
    IF g.saved = <<>> THEN g
    ELSE [current |-> g.saved[Len(g.saved)],
          saved   |-> SubSeq(g.saved, 1, Len(g.saved) - 1)]

-----------------------------------------------------------------------------
(* GraphicsPath.  point: there is a current point.                         *)

Path == [points : Seq({"m", "l", "c", "h"}), point : BOOLEAN]
NoPath == [points |-> <<>>, point |-> FALSE]

Extended(p, kinds) == [points |-> p.points \o kinds, point |-> TRUE]

(* Mutant: moveTo sets no current point.                                   *)
MoveToUnset(p) == [p EXCEPT !.points = Append(@, "m")]

MoveTo(p) == Extended(p, <<"m">>)
LineTo(p) == IF p.point THEN Extended(p, <<"l">>) ELSE MoveTo(p)
CurveTo(p) == Extended(IF p.point THEN p ELSE MoveTo(p), <<"c">>)
ClosePath(p) == IF p.point THEN Extended(p, <<"h">>) ELSE p
Rect(p) == ClosePath(Extended(p, <<"m", "l", "l", "l">>))
=============================================================================
