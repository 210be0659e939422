--------------------------- MODULE MCRenderDevice ---------------------------
(***************************************************************************)
(* Bitmaps of 2x2 and 3x1 pixels, rectangles that cut, miss and exceed     *)
(* them.                                                                   *)
(***************************************************************************)
EXTENDS RenderDevice

SmallSizes == {[width |-> 2, height |-> 2], [width |-> 3, height |-> 1]}

R(l, t, r, b) == [left |-> l, top |-> t, right |-> r, bottom |-> b]
SomeRects == {R(-1, -1, 1, 4), R(1, 0, 3, 1), R(0, 1, 2, 2), R(3, 0, 4, 1), R(0, 0, 2, 2)}
=============================================================================
