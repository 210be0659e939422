-------------------------- MODULE ContentExecutors --------------------------
(***************************************************************************)
(* One page, rendered by ContentStreamInterpreter and parsed into page     *)
(* objects by PdfContentParser: both execute the same content stream, one  *)
(* operation after the other.  Forms are executed by the interpreter only. *)
(***************************************************************************)
EXTENDS ContentStreamInterpreter

CONSTANT PageOperations  \* the operations of the page's own content stream

ASSUME ExecutorsAssumption == PageOperations \subseteq Operations

VARIABLES
    parserStack,  \* the parser's _stateStack
    segments,     \* its _currentPathSegments
    objects       \* the objects it added last

parserVars == <<parserStack, segments, objects>>
pageVars == <<vars, parserVars>>

Parser == INSTANCE PdfContentParser WITH stack <- parserStack

PageInit == Init /\ Parser!Init

Begin == Render /\ Parser!Parse

(* An operation of the page's own content stream.                          *)
ExecutePage(op) ==
    /\ forms = <<>>
    /\ op \in PageOperations
    /\ Execute(op)
    /\ Parser!Execute(op)

(* One of a form's.                                                        *)
ExecuteForm(op) ==
    /\ forms # <<>>
    /\ Execute(op)
    /\ UNCHANGED parserVars

(* The stack overflow reaches the caller of render(); page objects are     *)
(* parsed by a call of their own.                                          *)
Unwind(op) == Overflow(op) /\ UNCHANGED parserVars

LeaveForm == EndForm /\ UNCHANGED parserVars
End == EndRender /\ UNCHANGED parserVars

PageNext ==
    \/ Begin
    \/ \E op \in Operations : ExecutePage(op) \/ ExecuteForm(op) \/ Unwind(op)
    \/ LeaveForm
    \/ End

PageSpec == PageInit /\ [][PageNext]_pageVars

-----------------------------------------------------------------------------
(* Properties.                                                             *)

(* A page object as the paint it stands for; the interpreter's ctm starts  *)
(* with the display matrix.                                                *)
AsPaint(o) ==
    [points |-> o.segments, ctm |-> <<Display>> \o o.matrix,
     fill |-> o.fillColour, stroke |-> o.strokeColour]

ColourOf(what) ==
    IF \E i \in DOMAIN painted : painted[i].what = what
    THEN painted[CHOOSE i \in DOMAIN painted : painted[i].what = what].colour
    ELSE Parser!NoColour
Painted ==
    [points |-> painted[1].points, ctm |-> painted[1].ctm,
     fill |-> ColourOf("fill"), stroke |-> ColourOf("stroke")]

(* What a page shows and what its objects say is the same: an operation of *)
(* the page paints a path exactly if it yields an object, with the same    *)
(* points, matrix and colours, whatever forms were painted in between.     *)
(* Holds for pages of operations both executors have a case for; forms may *)
(* use any.                                                                *)
PathObjects == {i \in DOMAIN objects : objects[i].what = "path"}
SamePaint ==
    [][forms = <<>> /\ forms' = <<>> /\ rendering /\ rendering' =>
         /\ painted' = <<>> <=> PathObjects' = {}
         /\ painted' # <<>> => Painted' = AsPaint(objects'[1])]_pageVars

(* "Set font and size" (content_stream_parser.dart:63): text gets the font *)
(* selected last, Q and forms taken into account.                          *)
SameFont ==
    [][\A i \in DOMAIN objects' :
          objects'[i].what = "text" /\ objects' # objects
             => objects'[i].font = state.font]_pageVars
=============================================================================
