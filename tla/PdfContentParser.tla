-------------------------- MODULE PdfContentParser --------------------------
(***************************************************************************)
(* PdfContentParser (lib/src/pdfium/fpdfapi/page/pdf_content_parser.dart): *)
(* turns the operations of a page's content stream into page objects, on a *)
(* state stack and a list of path segments of its own.                     *)
(*                                                                         *)
(* Text positions are left out; so are XObjects, for which _handleXObject  *)
(* has no body, and every operation _executeOperation has no case for.     *)
(***************************************************************************)
EXTENDS GraphicsState

CONSTANT Operations  \* the operations content streams use, [name, arg] records

VARIABLES
    stack,     \* _stateStack
    segments,  \* _currentPathSegments
    objects    \* the objects the last operation added to _objects

vars == <<stack, segments, objects>>

state == stack.current

Init ==
    /\ stack = NewStack
    /\ segments = <<>>
    /\ objects = <<>>

(* parse() starts.                                                         *)
Parse ==
    /\ stack' = NewStack
    /\ segments' = <<>>
    /\ objects' = <<>>

-----------------------------------------------------------------------------
(* _executeOperation.                                                      *)

StateOps == {"q", "Q", "cm", "g", "G", "Tf", "BT"}
SegmentOps == {"m", "l", "c", "re", "h"}
PaintOps == {"S", "s", "f", "f*", "B", "B*", "b", "b*"}

(* Mutant: Q leaves the text state alone.                                  *)
PoppedKeepingFont(g) ==
    [Restored(g) EXCEPT !.current.font = g.current.font]

Popped(g) == Restored(g)

StackAfter(op) ==
    CASE op.name = "q"  -> Saved(stack)
      [] op.name = "Q"  -> Popped(stack)
      [] op.name = "cm" -> [stack EXCEPT !.current = Concat(@, op.arg)]
      [] op.name = "g"  -> [stack EXCEPT !.current.fill = op.arg]
      [] op.name = "G"  -> [stack EXCEPT !.current.stroke = op.arg]
      [] op.name = "Tf" -> [stack EXCEPT !.current.font = op.arg]
      [] op.name = "BT" -> [stack EXCEPT !.current.font = NoFont]

SetState(op) ==
    /\ op.name \in StateOps
    /\ stack' = StackAfter(op)
    /\ objects' = <<>>
    /\ UNCHANGED segments

SegmentsOf(op) ==
    IF op.name = "re" THEN <<"m", "l", "l", "l", "h">> ELSE <<op.name>>

AddSegments(op) ==
    /\ op.name \in SegmentOps
    /\ segments' = segments \o SegmentsOf(op)
    /\ objects' = <<>>
    /\ UNCHANGED stack

(* _handlePathPaint: colours are set for what the operator paints.         *)
NoColour == "none"
Fills(op) == op.name \notin {"S", "s"}
Strokes(op) == op.name \notin {"f", "f*"}
PathObject(op) ==
    [what |-> "path", segments |-> segments, matrix |-> state.ctm,
     fillColour |-> IF Fills(op) THEN state.fill ELSE NoColour,
     strokeColour |-> IF Strokes(op) THEN state.stroke ELSE NoColour]

PathPaint(op) ==
    /\ op.name \in PaintOps
    /\ objects' = IF segments = <<>> THEN <<>> ELSE <<PathObject(op)>>
    /\ segments' = <<>>
    /\ UNCHANGED stack

EndPath(op) ==
    /\ op.name = "n"
    /\ segments' = <<>>
    /\ objects' = <<>>
    /\ UNCHANGED stack

ShowText(op) ==
    /\ op.name = "Tj"
    /\ objects' = <<[what |-> "text", font |-> state.font, colour |-> state.fill]>>
    /\ UNCHANGED <<stack, segments>>

(* default: break, ET and Do.                                              *)
Ignore(op) ==
    /\ op.name \in {"F", "W", "W*", "v", "y", "ET", "Do", "sh"}
    /\ objects' = <<>>
    /\ UNCHANGED <<stack, segments>>

Execute(op) ==
    \/ SetState(op)
    \/ AddSegments(op)
    \/ PathPaint(op)
    \/ EndPath(op)
    \/ ShowText(op)
    \/ Ignore(op)

Next == Parse \/ \E op \in Operations : Execute(op)

Spec == Init /\ [][Next]_vars
=============================================================================
