---------------------- MODULE ContentStreamInterpreter ----------------------
(***************************************************************************)
(* ContentStreamInterpreter (lib/src/pdfium/fpdfapi/page/                  *)
(* content_stream_interpreter.dart): executes the operations of a page's   *)
(* content stream, and of the form XObjects it paints, on one state stack  *)
(* and one path.                                                           *)
(*                                                                         *)
(* Operations come in any order: every content stream over Operations is a *)
(* behaviour, up to the bounds.  What an operation puts on the bitmap is   *)
(* the sequence painted: pixels are left out.  A form is executed by a     *)
(* recursive call with no guard against forms that paint themselves;       *)
(* MaxForms stands for the depth at which the Dart stack overflows.        *)
(***************************************************************************)
EXTENDS GraphicsState

CONSTANTS
    Operations,  \* the operations content streams use, [name, arg] records
    Display,     \* getDisplayMatrix
    WellFormed,  \* content streams pair q with Q, start paths with a point,
                 \* and paint no XObject and end no form amid a path
    MaxSaved,    \* bound on the saved states
    MaxPoints,   \* bound on the points of a path
    MaxFactors,  \* bound on the factors of a ctm
    MaxForms     \* depth of forms at which the stack overflows

XObject == [subtype : {"Form", "Image", "other"}, matrix : {<<>>} \cup Seq(Matrix)]

StateOps == {"q", "Q", "cm", "g", "G", "Tf"}
PathOps == {"m", "l", "c", "v", "y", "re", "h"}
StrokeOps == {"S", "s"}
FillOps == {"f", "F", "f*"}
FillStrokeOps == {"B", "B*", "b", "b*"}

ASSUME ContentAssumption ==
    /\ Display \in Matrix
    /\ WellFormed \in BOOLEAN
    /\ MaxSaved \in Nat /\ MaxPoints \in Nat /\ MaxFactors \in Nat /\ MaxForms \in Nat
    /\ \A op \in Operations :
          /\ op.name = "cm" => op.arg \in Matrix
          /\ op.name \in {"g", "G"} => op.arg \in Colour
          /\ op.name = "Tf" => op.arg \in Font
          /\ op.name = "Do" => op.arg \in XObject

VARIABLES
    rendering,  \* inside render()
    stack,      \* _stateStack
    path,       \* _currentPath
    forms,      \* per active _renderForm, innermost last: the stack at its start
    painted,    \* what the last operation painted, in order
    last        \* the name of the last operation

vars == <<rendering, stack, path, forms, painted, last>>

state == stack.current

Init ==
    /\ rendering = FALSE
    /\ stack = NewStack
    /\ path = NoPath
    /\ forms = <<>>
    /\ painted = <<>>
    /\ last = "none"

(* render() starts.                                                        *)
Render ==
    /\ ~rendering
    /\ rendering' = TRUE
    /\ stack' = [NewStack EXCEPT !.current.ctm = <<Display>>]
    /\ path' = NoPath
    /\ painted' = <<>>
    /\ last' = "none"
    /\ UNCHANGED forms

-----------------------------------------------------------------------------
(* What content streams contain.                                           *)

(* The number of states saved when the innermost stream started.           *)
Base == IF forms = <<>> THEN 0 ELSE Len(forms[Len(forms)].saved) + 1

Allowed(op) ==
    /\ Len(stack.saved) < MaxSaved \/ op.name \notin {"q", "Do"}
    /\ op.name = "cm" => Len(state.ctm) < MaxFactors
    /\ op.name = "Do" => Len(state.ctm) + Len(op.arg.matrix) <= MaxFactors
    /\ Len(path.points) < MaxPoints \/ op.name \notin PathOps
    /\ WellFormed =>
          /\ op.name = "Q" => Len(stack.saved) > Base
          /\ op.name \in {"l", "c", "v", "y", "h"} => path.point
          /\ op.name = "Do" => path = NoPath

-----------------------------------------------------------------------------
(* _executeOperation.                                                      *)

StackAfter(op) ==
    CASE op.name = "q"  -> Saved(stack)
      [] op.name = "Q"  -> Restored(stack)
      [] op.name = "cm" -> [stack EXCEPT !.current = Concat(@, op.arg)]
      [] op.name = "g"  -> [stack EXCEPT !.current.fill = op.arg]
      [] op.name = "G"  -> [stack EXCEPT !.current.stroke = op.arg]
      [] op.name = "Tf" -> [stack EXCEPT !.current.font = op.arg]

SetState(op) ==
    /\ op.name \in StateOps
    /\ stack' = StackAfter(op)
    /\ painted' = <<>>
    /\ UNCHANGED <<path, forms>>

PathAfter(op) ==
    CASE op.name = "m"  -> MoveTo(path)
      [] op.name = "l"  -> LineTo(path)
      [] op.name \in {"c", "v", "y"} -> CurveTo(path)
      [] op.name = "re" -> Rect(path)
      [] op.name = "h"  -> ClosePath(path)

ConstructPath(op) ==
    /\ op.name \in PathOps
    /\ path' = PathAfter(op)
    /\ painted' = <<>>
    /\ UNCHANGED <<stack, forms>>

(* _fillPath and _strokePath clear the path they paint.                    *)
Filled(p) ==
    IF p.points = <<>> THEN <<>>
    ELSE <<[what |-> "fill", points |-> p.points, colour |-> state.fill,
            ctm |-> state.ctm, clip |-> state.clip]>>
Stroked(p) ==
    IF p.points = <<>> THEN <<>>
    ELSE <<[what |-> "stroke", points |-> p.points, colour |-> state.stroke,
            ctm |-> state.ctm, clip |-> state.clip]>>

Closed(op, p) ==
    IF op.name \in {"s", "b", "b*"} THEN ClosePath(p) ELSE p

StrokePath(op) ==
    /\ op.name \in StrokeOps
    /\ painted' = Stroked(Closed(op, path))
    /\ path' = NoPath
    /\ UNCHANGED <<stack, forms>>

(* Mutant: a filled path is kept.                                          *)
FillPathKept(op) ==
    /\ op.name \in FillOps
    /\ painted' = Filled(path)
    /\ UNCHANGED <<path, stack, forms>>

FillPath(op) ==
    /\ op.name \in FillOps
    /\ painted' = Filled(path)
    /\ path' = NoPath
    /\ UNCHANGED <<stack, forms>>

(* _fillPath, then _strokePath with what _fillPath leaves of the path.     *)
FillStrokePath(op) ==
    /\ op.name \in FillStrokeOps
    /\ painted' = Filled(Closed(op, path)) \o Stroked(NoPath)
    /\ path' = NoPath
    /\ UNCHANGED <<stack, forms>>

EndPath(op) ==
    /\ op.name = "n"
    /\ path' = NoPath
    /\ painted' = <<>>
    /\ UNCHANGED <<stack, forms>>

SetClip(op) ==
    /\ op.name \in {"W", "W*"}
    /\ stack' = IF path.points = <<>> THEN stack
                ELSE [stack EXCEPT !.current.clip =
                         [points |-> path.points, ctm |-> state.ctm]]
    /\ painted' = <<>>
    /\ UNCHANGED <<path, forms>>

(* Text moves the text position, which nothing else reads; it is not       *)
(* painted yet.  No case: ignored.                                         *)
PaintNothing(op) ==
    /\ op.name \in {"BT", "ET", "Tj", "sh"}
    /\ painted' = <<>>
    /\ UNCHANGED <<stack, path, forms>>

-----------------------------------------------------------------------------
(* _executeXObject.                                                        *)

PaintNoXObject(op) ==
    /\ op.name = "Do" /\ op.arg.subtype = "other"
    /\ painted' = <<>>
    /\ UNCHANGED <<stack, path, forms>>

RenderImage(op) ==
    /\ op.name = "Do" /\ op.arg.subtype = "Image"
    /\ painted' = <<[what |-> "image", points |-> <<>>, colour |-> Black,
                     ctm |-> state.ctm, clip |-> state.clip]>>
    /\ UNCHANGED <<stack, path, forms>>

(* _renderForm, up to the first operation of the form.                     *)
RenderForm(op) ==
    /\ op.name = "Do" /\ op.arg.subtype = "Form"
    /\ Len(forms) < MaxForms
    /\ forms' = Append(forms, stack)
    /\ stack' = [Saved(stack) EXCEPT !.current.ctm = @ \o op.arg.matrix]
    /\ painted' = <<>>
    /\ UNCHANGED path

Execute(op) ==
    /\ rendering
    /\ Allowed(op)
    /\ last' = op.name
    /\ UNCHANGED rendering
    /\ \/ SetState(op)
       \/ ConstructPath(op)
       \/ StrokePath(op)
       \/ FillPath(op)
       \/ FillStrokePath(op)
       \/ EndPath(op)
       \/ SetClip(op)
       \/ PaintNothing(op)
       \/ PaintNoXObject(op)
       \/ RenderImage(op)
       \/ RenderForm(op)

(* StackOverflowError unwinds to the caller of render().                   *)
Overflow(op) ==
    /\ rendering
    /\ op.name = "Do" /\ op.arg.subtype = "Form"
    /\ Allowed(op)
    /\ Len(forms) = MaxForms
    /\ rendering' = FALSE
    /\ forms' = <<>>
    /\ stack' \in {stack, Saved(stack)}
    /\ painted' = <<>>
    /\ last' = "error"
    /\ UNCHANGED path

(* Mutant: the form's stream ends and nothing is restored.                 *)
EndFormUnrestored ==
    /\ rendering
    /\ forms # <<>>
    /\ WellFormed => Len(stack.saved) = Base /\ path = NoPath
    /\ forms' = SubSeq(forms, 1, Len(forms) - 1)
    /\ painted' = <<>>
    /\ last' = "none"
    /\ UNCHANGED <<rendering, stack, path>>

(* The rest of _renderForm: Restaurar estado.                              *)
EndForm ==
    /\ rendering
    /\ forms # <<>>
    /\ WellFormed => Len(stack.saved) = Base /\ path = NoPath
    /\ forms' = SubSeq(forms, 1, Len(forms) - 1)
    /\ stack' = Restored(stack)
    /\ painted' = <<>>
    /\ last' = "none"
    /\ UNCHANGED <<rendering, path>>

(* render() returns.                                                       *)
EndRender ==
    /\ rendering
    /\ forms = <<>>
    /\ rendering' = FALSE
    /\ painted' = <<>>
    /\ last' = "none"
    /\ UNCHANGED <<stack, path, forms>>

Next ==
    \/ Render
    \/ \E op \in Operations : Execute(op) \/ Overflow(op)
    \/ EndForm
    \/ EndRender

Spec == Init /\ [][Next]_vars

-----------------------------------------------------------------------------
(* Properties.                                                             *)

TypeOK ==
    /\ rendering \in BOOLEAN
    /\ stack \in Stack
    /\ path \in Path
    /\ path.point <=> path.points # <<>>
    /\ forms \in Seq(Stack)
    /\ forms # <<>> => rendering

(* "Salvar estado" ... "Restaurar estado" (content_stream_interpreter.dart *)
(* :712, 738): when a form is done the page goes on with the state, and    *)
(* the saved states, it had before, whatever the form and the forms in it  *)
(* did.                                                                    *)
FormKeepsState ==
    [][forms # <<>> /\ Len(forms') = Len(forms) - 1 /\ rendering'
          => stack' = forms[Len(forms)]]_vars

(* "Fill and stroke (nonzero)" (content_stream_parser.dart:44): B and its  *)
(* like both fill and stroke the path there is.                            *)
FillsAndStrokes ==
    [][last' \in FillStrokeOps /\ path.points # <<>>
          => \A w \in {"fill", "stroke"} :
                \E i \in DOMAIN painted' : painted'[i].what = w]_vars
=============================================================================
