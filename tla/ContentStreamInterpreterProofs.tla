------------------- MODULE ContentStreamInterpreterProofs -------------------
(***************************************************************************)
(* Proofs about ContentStreamInterpreter: its types, for all content       *)
(* streams, and that forms keep the state, for those that pair q with Q;   *)
(* and about ContentExecutors: that the page objects of PdfContentParser   *)
(* are what the interpreter paints.                                        *)
(***************************************************************************)
EXTENDS ContentExecutors, SequenceTheorems, TLAPS

Kinds == {"m", "l", "c", "h"}

-----------------------------------------------------------------------------
(* The operators of GraphicsState.                                         *)

LEMMA NewStackType == NewStack \in Stack
BY StateAssumption, EmptySeq DEF NewStack, NewState, Stack, State, NoRegion

(* q and Q.                                                                *)
LEMMA SavedType ==
    ASSUME NEW g \in Stack
    PROVE  /\ Saved(g) \in Stack
           /\ Saved(g).current = g.current
           /\ Saved(g).saved = Append(g.saved, g.current)
BY AppendProperties DEF Stack, Saved

LEMMA RestoredType ==
    ASSUME NEW g \in Stack
    PROVE  /\ Restored(g) \in Stack
           /\ g.saved # <<>> =>
                 /\ Restored(g).current = g.saved[Len(g.saved)]
                 /\ Restored(g).saved = SubSeq(g.saved, 1, Len(g.saved) - 1)
<1>1. CASE g.saved = <<>>
  BY <1>1 DEF Restored
<1>2. CASE g.saved # <<>>
  <2>1. g.saved \in Seq(State) /\ Len(g.saved) \in Nat \ {0}
    BY <1>2, EmptySeq, LenProperties DEF Stack
  <2>2. g.saved[Len(g.saved)] \in State
    BY <2>1, ElementOfSeq
  <2>3. SubSeq(g.saved, 1, Len(g.saved) - 1) \in Seq(State)
    BY <2>1, SubSeqProperties
  <2> QED
    BY <1>2, <2>2, <2>3 DEF Restored, Stack
<1> QED
  BY <1>1, <1>2

(* A path has a current point exactly if it has points.                    *)
GoodPath(p) == p \in Path /\ (p.point <=> p.points # <<>>)

LEMMA NoPathGood == GoodPath(NoPath)
BY EmptySeq DEF GoodPath, NoPath, Path

LEMMA ExtendedGood ==
    ASSUME NEW p, GoodPath(p), NEW ks \in Seq(Kinds), ks # <<>>
    PROVE  GoodPath(Extended(p, ks))
<1>1. p.points \in Seq(Kinds)
  BY DEF GoodPath, Path, Kinds
<1>2. p.points \o ks \in Seq(Kinds) /\ Len(p.points \o ks) = Len(p.points) + Len(ks)
  BY <1>1, ConcatProperties
<1>3. Len(ks) # 0 /\ Len(ks) \in Nat /\ Len(p.points) \in Nat
  BY <1>1, EmptySeq, LenProperties
<1>4. p.points \o ks # <<>>
  BY <1>2, <1>3, EmptySeq
<1> QED
  BY <1>2, <1>4 DEF Extended, GoodPath, Path, Kinds

LEMMA PathOpsGood ==
    ASSUME NEW p, GoodPath(p)
    PROVE  /\ GoodPath(MoveTo(p)) /\ GoodPath(LineTo(p)) /\ GoodPath(CurveTo(p))
           /\ GoodPath(ClosePath(p)) /\ GoodPath(Rect(p))
<1>1. /\ <<"m">> \in Seq(Kinds) /\ <<"l">> \in Seq(Kinds) /\ <<"c">> \in Seq(Kinds)
      /\ <<"h">> \in Seq(Kinds) /\ <<"m", "l", "l", "l">> \in Seq(Kinds)
  BY DEF Kinds
<1>2. /\ <<"m">> # <<>> /\ <<"l">> # <<>> /\ <<"c">> # <<>>
      /\ <<"h">> # <<>> /\ <<"m", "l", "l", "l">> # <<>>
  OBVIOUS
<1>3. ASSUME NEW r, GoodPath(r)
      PROVE  GoodPath(MoveTo(r)) /\ GoodPath(ClosePath(r)) /\ GoodPath(LineTo(r))
  BY <1>1, <1>2, <1>3, ExtendedGood DEF MoveTo, ClosePath, LineTo
<1>4. GoodPath(Extended(p, <<"m", "l", "l", "l">>))
  BY <1>1, <1>2, ExtendedGood
<1>5. GoodPath(CurveTo(p))
  BY <1>1, <1>2, <1>3, ExtendedGood DEF CurveTo
<1> QED
  BY <1>3, <1>4, <1>5 DEF Rect

-----------------------------------------------------------------------------
(* Types.                                                                  *)

LEMMA SetStateType ==
    ASSUME TypeOK, NEW op \in Operations, op.name \in StateOps
    PROVE  StackAfter(op) \in Stack
<1> USE DEF TypeOK
<1>1. op.name \in {"q", "Q"} => StackAfter(op) \in Stack
  BY SavedType, RestoredType DEF StackAfter
<1>2. op.name = "cm" => StackAfter(op) \in Stack
  BY ContentAssumption, AppendProperties DEF StackAfter, Concat, Stack, State
<1>3. op.name = "g" => StackAfter(op) \in Stack
  BY ContentAssumption DEF StackAfter, Stack, State
<1>4. op.name = "G" => StackAfter(op) \in Stack
  BY ContentAssumption DEF StackAfter, Stack, State
<1>5. op.name = "Tf" => StackAfter(op) \in Stack
  BY ContentAssumption DEF StackAfter, Stack, State
<1> QED
  BY <1>1, <1>2, <1>3, <1>4, <1>5 DEF StateOps

LEMMA ConstructPathType ==
    ASSUME TypeOK, NEW op \in Operations, op.name \in PathOps
    PROVE  GoodPath(PathAfter(op))
<1>1. GoodPath(path)
  BY DEF TypeOK, GoodPath
<1> QED
  BY <1>1, PathOpsGood DEF PathAfter, PathOps

(* Every operation of a content stream keeps the types.                    *)
LEMMA TypeStep ==
    ASSUME TypeOK, [Next]_vars
    PROVE  TypeOK'
<1> USE DEF TypeOK
<1> DEFINE Good(p) == p \in Path /\ (p.point <=> p.points # <<>>)
<1>0. Good(NoPath) /\ \A p : GoodPath(p) => Good(p)
  BY NoPathGood DEF GoodPath
<1>1. CASE Render
  <2>1. stack' \in Stack
    <3>1. <<Display>> \in Seq(Matrix)
      BY ContentAssumption
    <3> QED
      BY <1>1, <3>1, NewStackType DEF Render, Stack, State
  <2> QED
    BY <1>0, <1>1, <2>1 DEF Render
<1>2. ASSUME NEW op \in Operations, Execute(op)
      PROVE  TypeOK'
  <2>0. rendering' \in BOOLEAN /\ rendering' = rendering /\ rendering
    BY <1>2 DEF Execute
  <2>1. CASE SetState(op)
    BY <2>0, <2>1, SetStateType DEF SetState
  <2>2. CASE ConstructPath(op)
    <3>1. Good(PathAfter(op))
      BY <1>0, <2>2, ConstructPathType DEF ConstructPath
    <3> QED
      BY <2>0, <2>2, <3>1 DEF ConstructPath
  <2>3. CASE StrokePath(op) \/ FillPath(op) \/ FillStrokePath(op) \/ EndPath(op)
    BY <1>0, <2>0, <2>3 DEF StrokePath, FillPath, FillStrokePath, EndPath
  <2>4. CASE SetClip(op)
    BY <2>0, <2>4 DEF SetClip, state, Stack, State, Path
  <2>5. CASE PaintNothing(op) \/ PaintNoXObject(op) \/ RenderImage(op)
    BY <2>0, <2>5 DEF PaintNothing, PaintNoXObject, RenderImage
  <2>6. CASE RenderForm(op)
    <3>1. op.arg.matrix \in Seq(Matrix)
      BY <2>6, ContentAssumption, EmptySeq DEF RenderForm, XObject
    <3>2. Saved(stack) \in Stack
      BY SavedType
    <3>3. Saved(stack).current.ctm \o op.arg.matrix \in Seq(Matrix)
      BY <3>1, <3>2, ConcatProperties DEF Stack, State
    <3>4. stack' \in Stack
      BY <2>6, <3>2, <3>3 DEF RenderForm, Stack, State
    <3>5. forms' \in Seq(Stack)
      BY <2>6, AppendProperties DEF RenderForm
    <3> QED
      BY <2>0, <2>6, <3>4, <3>5 DEF RenderForm
  <2> QED
    BY <1>2, <2>1, <2>2, <2>3, <2>4, <2>5, <2>6 DEF Execute
<1>3. ASSUME NEW op \in Operations, Overflow(op)
      PROVE  TypeOK'
  BY <1>3, SavedType, EmptySeq DEF Overflow
<1>4. CASE EndForm
  <2>1. SubSeq(forms, 1, Len(forms) - 1) \in Seq(Stack)
    BY <1>4, SubSeqProperties, LenProperties, EmptySeq DEF EndForm
  <2> QED
    BY <1>4, <2>1, RestoredType DEF EndForm
<1>5. CASE EndRender
  BY <1>5 DEF EndRender
<1>6. CASE UNCHANGED vars
  BY <1>6 DEF vars
<1> QED
  BY <1>1, <1>2, <1>3, <1>4, <1>5, <1>6 DEF Next

(* The state stack holds graphics states only, and a path has a current    *)
(* point exactly if it has points, after every operation.                  *)
THEOREM TypeCorrect == Spec => []TypeOK
<1>1. Init => TypeOK
  BY NewStackType, NoPathGood, EmptySeq DEF Init, TypeOK, GoodPath
<1> QED
  BY <1>1, TypeStep, PTL DEF Spec

-----------------------------------------------------------------------------
(* Forms keep the state, when content streams pair q with Q.               *)

(* The states saved when a form started on stack f are still on stack g,   *)
(* below the state the form saved itself.                                  *)
Below(f, g) ==
    /\ Len(f.saved) < Len(g.saved)
    /\ \A k \in 1 .. Len(f.saved) : g.saved[k] = f.saved[k]
    /\ g.saved[Len(f.saved) + 1] = f.current

(* The inductive invariant: that holds of all forms, and inner forms       *)
(* started with more saved states than outer ones.  EndForm then removes   *)
(* what RenderForm saved, and what is left is the stack before the form.   *)
Nested ==
    /\ \A i \in 1 .. Len(forms) : Below(forms[i], stack)
    /\ \A i, j \in 1 .. Len(forms) :
          i < j => Len(forms[i].saved) < Len(forms[j].saved)

LEMMA BelowSaved ==
    ASSUME NEW f \in Stack, NEW g \in Stack, NEW h \in Stack,
           Below(f, g), h.saved = Append(g.saved, g.current)
    PROVE  Below(f, h)
<1>1. /\ g.saved \in Seq(State) /\ g.current \in State
      /\ Len(f.saved) \in Nat /\ Len(g.saved) \in Nat
  BY LenProperties DEF Stack
<1>2. /\ Len(h.saved) = Len(g.saved) + 1
      /\ \A k \in 1 .. Len(g.saved) : h.saved[k] = g.saved[k]
  BY <1>1, AppendProperties
<1> QED
  BY <1>1, <1>2 DEF Below

LEMMA BelowRestored ==
    ASSUME NEW f \in Stack, NEW g \in Stack, NEW h \in Stack,
           Below(f, g), Len(f.saved) + 1 < Len(g.saved),
           h.saved = SubSeq(g.saved, 1, Len(g.saved) - 1)
    PROVE  Below(f, h)
<1>1. /\ g.saved \in Seq(State)
      /\ Len(f.saved) \in Nat /\ Len(g.saved) \in Nat
  BY LenProperties DEF Stack
<1>2. /\ Len(h.saved) = Len(g.saved) - 1
      /\ \A k \in 1 .. Len(g.saved) - 1 : h.saved[k] = g.saved[k]
  BY <1>1, SubSeqProperties
<1> QED
  BY <1>1, <1>2 DEF Below

LEMMA BelowBelow ==
    ASSUME NEW f \in Stack, NEW g \in Stack, NEW h \in Stack,
           Below(f, h), Below(g, h), Len(f.saved) < Len(g.saved)
    PROVE  Below(f, g)
<1>1. Len(f.saved) \in Nat /\ Len(g.saved) \in Nat
  BY LenProperties DEF Stack
<1>2. \A k \in 1 .. Len(f.saved) + 1 : h.saved[k] = g.saved[k]
  BY <1>1 DEF Below
<1>3. \A k \in 1 .. Len(f.saved) : g.saved[k] = f.saved[k]
  <2> TAKE k \in 1 .. Len(f.saved)
  <2>1. h.saved[k] = g.saved[k] /\ h.saved[k] = f.saved[k]
    BY <1>1, <1>2 DEF Below
  <2> QED
    BY <2>1
<1>4. g.saved[Len(f.saved) + 1] = f.current
  <2>1. Len(f.saved) + 1 \in 1 .. Len(f.saved) + 1 /\ h.saved[Len(f.saved) + 1] = f.current
    BY <1>1 DEF Below
  <2> QED
    BY <1>2, <2>1
<1> QED
  BY <1>3, <1>4 DEF Below

(* What a form saved itself is on top: restoring gives back its stack.     *)
LEMMA BelowOnTop ==
    ASSUME NEW f \in Stack, NEW g \in Stack, Below(f, g),
           Len(g.saved) = Len(f.saved) + 1
    PROVE  Restored(g) = f
<1>1. /\ g.saved \in Seq(State) /\ f.saved \in Seq(State)
      /\ Len(f.saved) \in Nat /\ g.saved # <<>>
  BY LenProperties, EmptySeq DEF Stack
<1>2. /\ Restored(g) \in Stack
      /\ Restored(g).current = f.current
      /\ Restored(g).saved = SubSeq(g.saved, 1, Len(f.saved))
  BY <1>1, RestoredType DEF Below
<1>3. Restored(g).saved = f.saved
  <2>1. /\ SubSeq(g.saved, 1, Len(f.saved)) \in Seq(State)
        /\ Len(SubSeq(g.saved, 1, Len(f.saved))) = Len(f.saved)
        /\ \A k \in 1 .. Len(f.saved) :
              SubSeq(g.saved, 1, Len(f.saved))[k] = g.saved[k]
    BY <1>1, SubSeqProperties
  <2>2. \A k \in 1 .. Len(f.saved) : SubSeq(g.saved, 1, Len(f.saved))[k] = f.saved[k]
    BY <2>1 DEF Below
  <2>3. SubSeq(g.saved, 1, Len(f.saved)) = f.saved
    BY <1>1, <2>1, <2>2, SeqEqual
  <2> QED
    BY <1>2, <2>3
<1> QED
  BY <1>2, <1>3 DEF Stack

(* Operations other than Do leave saved states alone, or Q removes one     *)
(* that was saved since the innermost form started.                        *)
LEMMA SavedKept ==
    ASSUME WellFormed, TypeOK, Nested,
           NEW op \in Operations, op.name \in StateOps, Allowed(op)
    PROVE  \/ StackAfter(op).saved = stack.saved
           \/ StackAfter(op).saved = Append(stack.saved, stack.current)
           \/ /\ Len(stack.saved) > Base
              /\ stack.saved # <<>>
              /\ StackAfter(op).saved = SubSeq(stack.saved, 1, Len(stack.saved) - 1)
<1> USE DEF TypeOK
<1>1. CASE op.name = "q"
  BY <1>1, SavedType DEF StackAfter
<1>2. CASE op.name = "Q"
  <2>1. Len(stack.saved) > Base
    BY <1>2 DEF Allowed
  <2>2. forms # <<>> => Len(forms) \in 1 .. Len(forms) /\ forms[Len(forms)] \in Stack
    BY EmptySeq, LenProperties, ElementOfSeq
  <2>3. Base \in Nat
    BY <2>2, LenProperties DEF Base, Stack
  <2>4. stack.saved # <<>>
    BY <2>1, <2>3, EmptySeq
  <2> QED
    BY <1>2, <2>1, <2>4, RestoredType DEF StackAfter
<1>3. CASE op.name \in {"cm", "g", "G", "Tf"}
  BY <1>3 DEF StackAfter, Stack, Concat
<1> QED
  BY <1>1, <1>2, <1>3 DEF StateOps

(* What the innermost form saved is above what the others saved.           *)
LEMMA Innermost ==
    ASSUME TypeOK, Nested, NEW i \in 1 .. Len(forms)
    PROVE  /\ forms[i] \in Stack /\ Len(forms[i].saved) \in Nat
           /\ forms # <<>> /\ Base \in Nat
           /\ Len(forms[i].saved) + 1 <= Base
<1> USE DEF TypeOK
<1>1. Len(forms) \in 1 .. Len(forms) /\ forms # <<>>
  BY EmptySeq, LenProperties
<1>2. \A j \in 1 .. Len(forms) : forms[j] \in Stack /\ Len(forms[j].saved) \in Nat
  <2>1. \A j \in 1 .. Len(forms) : forms[j] \in Stack
    BY ElementOfSeq
  <2> QED
    BY <2>1, LenProperties DEF Stack
<1>3. Base = Len(forms[Len(forms)].saved) + 1
  BY <1>1 DEF Base
<1>4. Len(forms[i].saved) <= Len(forms[Len(forms)].saved)
  <2>1. CASE i = Len(forms)
    BY <2>1, <1>2
  <2>2. CASE i < Len(forms)
    BY <2>2, <1>1, <1>2 DEF Nested
  <2> QED
    BY <2>1, <2>2, LenProperties
<1> QED
  BY <1>1, <1>2, <1>3, <1>4

(* A stack that still has what is below and at Base keeps Nested.          *)
LEMMA NestedWhileKept ==
    ASSUME WellFormed, TypeOK, TypeOK', Nested, forms' = forms,
           \/ stack'.saved = stack.saved
           \/ stack'.saved = Append(stack.saved, stack.current)
           \/ /\ Len(stack.saved) > Base
              /\ stack.saved # <<>>
              /\ stack'.saved = SubSeq(stack.saved, 1, Len(stack.saved) - 1)
    PROVE  Nested'
<1>1. stack \in Stack /\ stack' \in Stack /\ Len(stack.saved) \in Nat
  BY LenProperties DEF TypeOK, Stack
<1>2. ASSUME NEW i \in 1 .. Len(forms)
      PROVE  Below(forms[i], stack')
  <2>1. /\ forms[i] \in Stack /\ Len(forms[i].saved) \in Nat
        /\ Base \in Nat /\ Len(forms[i].saved) + 1 <= Base
    BY Innermost
  <2>2. Below(forms[i], stack)
    BY DEF Nested
  <2>3. CASE stack'.saved = stack.saved
    BY <2>2, <2>3 DEF Below
  <2>4. CASE stack'.saved = Append(stack.saved, stack.current)
    BY <1>1, <2>1, <2>2, <2>4, BelowSaved
  <2>5. CASE /\ Len(stack.saved) > Base
             /\ stack'.saved = SubSeq(stack.saved, 1, Len(stack.saved) - 1)
    <3>1. Len(forms[i].saved) + 1 < Len(stack.saved)
      BY <1>1, <2>1, <2>5
    <3> QED
      BY <1>1, <2>1, <2>2, <2>5, <3>1, BelowRestored
  <2> QED
    BY <2>3, <2>4, <2>5
<1> QED
  BY <1>2 DEF Nested

(* At the end of a form its own saved state is on top.                     *)
LEMMA EndFormKeeps ==
    ASSUME WellFormed, TypeOK, Nested, EndForm
    PROVE  stack' = forms[Len(forms)]
<1>1. Len(forms) \in 1 .. Len(forms) /\ forms # <<>>
  BY EmptySeq, LenProperties DEF TypeOK, EndForm
<1>2. /\ forms[Len(forms)] \in Stack /\ stack \in Stack
      /\ Below(forms[Len(forms)], stack)
  BY <1>1, Innermost DEF TypeOK, Nested
<1>3. Len(stack.saved) = Len(forms[Len(forms)].saved) + 1
  BY <1>1 DEF EndForm, Base
<1> QED
  BY <1>2, <1>3, BelowOnTop DEF EndForm

LEMMA ButLast ==
    ASSUME NEW S, NEW s \in Seq(S), s # <<>>
    PROVE  /\ Len(SubSeq(s, 1, Len(s) - 1)) = Len(s) - 1
           /\ \A i \in 1 .. Len(s) - 1 : SubSeq(s, 1, Len(s) - 1)[i] = s[i]
<1>1. Len(s) \in Nat \ {0} /\ \A i \in 1 .. Len(s) : s[i] \in S
  BY EmptySeq, LenProperties, ElementOfSeq
<1> DEFINE n == Len(s) - 1
<1>2. n \in Nat /\ \A i \in 1 .. n : s[i] \in S
  BY <1>1
<1>3. /\ Len(SubSeq(s, 1, n)) = n
      /\ \A i \in 1 .. n : SubSeq(s, 1, n)[i] = s[i]
  <2> HIDE DEF n
  <2> QED
    BY <1>2, SubSeqProperties
<1> QED
  BY <1>3

(* Every operation, and the ends of forms, keep Nested.                    *)
LEMMA NestedStep ==
    ASSUME WellFormed, TypeOK, TypeOK', Nested, [Next]_vars
    PROVE  Nested'
<1> USE DEF TypeOK
<1>1. CASE Render
  <2>1. forms' = <<>>
    BY <1>1 DEF Render
  <2> QED
    BY <2>1, EmptySeq DEF Nested
<1>2. ASSUME NEW op \in Operations, Execute(op)
      PROVE  Nested'
  <2>1. CASE SetState(op)
    BY <1>2, <2>1, SavedKept, NestedWhileKept DEF Execute, SetState
  <2>2. CASE SetClip(op)
    <3>1. stack'.saved = stack.saved /\ forms' = forms
      BY <2>2 DEF SetClip, Stack
    <3> QED
      BY <3>1, NestedWhileKept
  <2>3. CASE \/ ConstructPath(op) \/ StrokePath(op) \/ FillPath(op)
             \/ FillStrokePath(op) \/ EndPath(op) \/ PaintNothing(op)
             \/ PaintNoXObject(op) \/ RenderImage(op)
    <3>1. stack' = stack /\ forms' = forms
      BY <2>3 DEF ConstructPath, StrokePath, FillPath, FillStrokePath, EndPath,
                  PaintNothing, PaintNoXObject, RenderImage
    <3> QED
      BY <3>1, NestedWhileKept
  <2>4. CASE RenderForm(op)
    <3>1. /\ stack \in Stack /\ stack' \in Stack
          /\ stack.saved \in Seq(State) /\ stack.current \in State
          /\ Len(stack.saved) \in Nat /\ Len(forms) \in Nat
      BY LenProperties DEF Stack
    <3>2. /\ Len(forms') = Len(forms) + 1
          /\ forms'[Len(forms) + 1] = stack
          /\ \A i \in 1 .. Len(forms) : forms'[i] = forms[i]
      BY <2>4, AppendProperties DEF RenderForm
    <3>3. stack'.saved = Append(stack.saved, stack.current)
      BY <2>4, SavedType DEF RenderForm, Stack
    <3>4. Below(stack, stack')
      <4>1. /\ Len(stack'.saved) = Len(stack.saved) + 1
            /\ stack'.saved[Len(stack.saved) + 1] = stack.current
            /\ \A k \in 1 .. Len(stack.saved) : stack'.saved[k] = stack.saved[k]
        BY <3>1, <3>3, AppendProperties
      <4> QED
        BY <3>1, <4>1 DEF Below
    <3>5. ASSUME NEW i \in 1 .. Len(forms)
          PROVE  Below(forms[i], stack') /\ Len(forms[i].saved) < Len(stack.saved)
      <4>1. forms[i] \in Stack /\ Below(forms[i], stack)
        BY Innermost DEF Nested
      <4> QED
        <5>1. Below(forms[i], stack')
          BY <3>1, <3>3, <4>1, BelowSaved
        <5>2. Len(forms[i].saved) < Len(stack.saved)
          BY <4>1 DEF Below
        <5> QED
          BY <5>1, <5>2
    <3>7. \A i \in 1 .. Len(forms') : i \in 1 .. Len(forms) \/ i = Len(forms) + 1
      BY <3>1, <3>2
    <3>8. \A i \in 1 .. Len(forms') : Below(forms'[i], stack')
      BY <3>2, <3>4, <3>5, <3>7
    <3>9. ASSUME NEW i \in 1 .. Len(forms'), NEW j \in 1 .. Len(forms'), i < j
          PROVE  Len(forms'[i].saved) < Len(forms'[j].saved)
      <4>1. i \in 1 .. Len(forms)
        BY <3>1, <3>2, <3>9
      <4>2. CASE j \in 1 .. Len(forms)
        BY <3>2, <3>9, <4>1, <4>2 DEF Nested
      <4>3. CASE j = Len(forms) + 1
        BY <3>2, <3>5, <4>1, <4>3
      <4> QED
        BY <3>7, <4>2, <4>3
    <3> QED
      BY <3>8, <3>9 DEF Nested
  <2> QED
    BY <1>2, <2>1, <2>2, <2>3, <2>4 DEF Execute
<1>3. ASSUME NEW op \in Operations, Overflow(op)
      PROVE  Nested'
  <2>1. forms' = <<>>
    BY <1>3 DEF Overflow
  <2> QED
    BY <2>1, EmptySeq DEF Nested
<1>4. CASE EndForm
  <2>1. /\ Len(forms) \in Nat \ {0} /\ forms[Len(forms)] \in Stack
        /\ forms # <<>>
    BY <1>4, EmptySeq, LenProperties, ElementOfSeq DEF EndForm
  <2>2. /\ Len(forms') = Len(forms) - 1
        /\ \A i \in 1 .. Len(forms) - 1 : forms'[i] = forms[i]
    <3>1. forms' = SubSeq(forms, 1, Len(forms) - 1)
      BY <1>4 DEF EndForm
    <3> QED
      BY <2>1, <3>1, ButLast
  <2>3. stack' = forms[Len(forms)]
    BY <1>4, EndFormKeeps
  <2>4. ASSUME NEW i \in 1 .. Len(forms')
        PROVE  Below(forms'[i], stack')
    <3>1. i \in 1 .. Len(forms) /\ i < Len(forms) /\ forms'[i] = forms[i]
      BY <2>1, <2>2
    <3>2. /\ Below(forms[i], stack) /\ Below(forms[Len(forms)], stack)
          /\ Len(forms[i].saved) < Len(forms[Len(forms)].saved)
      BY <2>1, <3>1 DEF Nested
    <3>3. forms[i] \in Stack
      BY <3>1, ElementOfSeq
    <3> QED
      BY <2>1, <2>3, <3>1, <3>2, <3>3, BelowBelow
  <2>5. ASSUME NEW i \in 1 .. Len(forms'), NEW j \in 1 .. Len(forms'), i < j
        PROVE  Len(forms'[i].saved) < Len(forms'[j].saved)
    <3>1. /\ i \in 1 .. Len(forms) - 1 /\ j \in 1 .. Len(forms) - 1
          /\ i \in 1 .. Len(forms) /\ j \in 1 .. Len(forms)
      BY <2>1, <2>2
    <3>2. Len(forms[i].saved) < Len(forms[j].saved)
      BY <2>5, <3>1 DEF Nested
    <3> QED
      BY <2>2, <3>1, <3>2
  <2> QED
    BY <2>4, <2>5 DEF Nested
<1>5. CASE EndRender
  BY <1>5, NestedWhileKept DEF EndRender
<1>6. CASE UNCHANGED vars
  BY <1>6, NestedWhileKept DEF vars
<1> QED
  BY <1>1, <1>2, <1>3, <1>4, <1>5, <1>6 DEF Next

(* Only the end of a form takes one form from the list while rendering.    *)
LEMMA OnlyEndFormEnds ==
    ASSUME TypeOK, [Next]_vars, forms # <<>>, Len(forms') = Len(forms) - 1, rendering'
    PROVE  EndForm
<1> USE DEF TypeOK
<1>1. Len(forms) \in Nat
  BY LenProperties
<1>2. forms' # forms
  BY <1>1
<1>3. ASSUME NEW op \in Operations, Execute(op)
      PROVE  FALSE
  <2>1. CASE RenderForm(op)
    BY <1>1, <2>1, AppendProperties DEF RenderForm
  <2> QED
    BY <1>2, <1>3, <2>1
    DEF Execute, SetState, ConstructPath, StrokePath, FillPath, FillStrokePath,
        EndPath, SetClip, PaintNothing, PaintNoXObject, RenderImage
<1>4. ASSUME NEW op \in Operations, Overflow(op)
      PROVE  FALSE
  BY <1>4 DEF Overflow
<1> QED
  BY <1>2, <1>3, <1>4 DEF Next, vars, Render, EndRender

(* When content streams pair q with Q, a form leaves the state and the     *)
(* saved states as it found them, however deep forms are nested.           *)
THEOREM FormsKeepState == WellFormed => (Spec => FormKeepsState)
<1> SUFFICES ASSUME WellFormed
             PROVE  Spec => FormKeepsState
  OBVIOUS
<1> DEFINE IInv == TypeOK /\ Nested
<1>1. Init => IInv
  <2>1. Init => TypeOK
    BY NewStackType, NoPathGood, EmptySeq DEF Init, TypeOK, GoodPath
  <2>2. Init => Nested
    BY EmptySeq DEF Init, Nested
  <2> QED
    BY <2>1, <2>2
<1>2. IInv /\ [Next]_vars => IInv'
  BY TypeStep, NestedStep
<1>3. IInv /\ [Next]_vars =>
        (forms # <<>> /\ Len(forms') = Len(forms) - 1 /\ rendering'
            => stack' = forms[Len(forms)])
  BY OnlyEndFormEnds, EndFormKeeps
<1> HIDE DEF IInv
<1> QED
  BY <1>1, <1>2, <1>3, PTL DEF Spec, FormKeepsState

-----------------------------------------------------------------------------
(* A page and its objects.  What is shown of the interpreter alone holds   *)
(* beside the parser too.                                                  *)
LEMMA PageSteps == [PageNext]_pageVars => [Next]_vars
BY DEF PageNext, pageVars, Next, vars, Begin, ExecutePage, ExecuteForm, Unwind, LeaveForm, End

LEMMA PageIsRendered == PageSpec => Spec
<1>1. PageInit => Init
  BY DEF PageInit
<1> QED
  BY <1>1, PageSteps, PTL DEF PageSpec, Spec

(* The operations both executors implement, and implement alike: F, v, y   *)
(* and images are the interpreter's alone, s, b and b* add a segment to    *)
(* what is painted, and B and its like do not stroke.                      *)
SharedNames ==
    {"q", "Q", "cm", "g", "G", "Tf", "m", "l", "c", "re", "h", "S", "f", "f*", "n",
     "W", "W*", "ET", "Tj", "sh", "Do"}
OnlyShared ==
    \A op \in PageOperations :
        /\ op.name \in SharedNames
        /\ op.name = "Do" => op.arg.subtype # "Image"

(* A state of the interpreter and the one the parser has instead.          *)
Mirrors(s, t) ==
    /\ s.ctm = <<Display>> \o t.ctm
    /\ s.fill = t.fill /\ s.stroke = t.stroke /\ s.font = t.font

MirrorStacks(g, h) ==
    /\ Mirrors(g.current, h.current)
    /\ Len(g.saved) = Len(h.saved)
    /\ \A i \in 1 .. Len(g.saved) : Mirrors(g.saved[i], h.saved[i])

(* The stack the page goes on with when the forms in progress are done.    *)
PageStack == IF forms = <<>> THEN stack ELSE forms[1]

(* While a page is rendered its parser is in the same state, but for the   *)
(* display matrix and the clip, and has the same path; in forms both have  *)
(* none.                                                                   *)
Mirrored ==
    /\ parserStack \in Stack
    /\ rendering =>
          /\ MirrorStacks(PageStack, parserStack)
          /\ segments = IF forms = <<>> THEN path.points ELSE <<>>

LEMMA SameOperators ==
    /\ Parser!NewStack = NewStack
    /\ \A g : Parser!Saved(g) = Saved(g) /\ Parser!Restored(g) = Restored(g)
    /\ \A s, m : Parser!Concat(s, m) = Concat(s, m)
BY DEF Parser!NewStack, NewStack, Parser!NewState, NewState, Parser!NoRegion, NoRegion,
       Parser!Saved, Saved, Parser!Restored, Restored, Parser!Concat, Concat

LEMMA MirrorSaved ==
    ASSUME NEW g \in Stack, NEW h \in Stack, MirrorStacks(g, h)
    PROVE  MirrorStacks(Saved(g), Saved(h))
<1>1. /\ g.saved \in Seq(State) /\ g.current \in State /\ Len(g.saved) \in Nat
      /\ h.saved \in Seq(State) /\ h.current \in State /\ Len(h.saved) = Len(g.saved)
  BY LenProperties DEF Stack, MirrorStacks
<1>2. /\ Saved(g).current = g.current /\ Saved(g).saved = Append(g.saved, g.current)
      /\ Saved(h).current = h.current /\ Saved(h).saved = Append(h.saved, h.current)
  BY SavedType
<1>3. /\ Len(Saved(g).saved) = Len(g.saved) + 1
      /\ Saved(g).saved[Len(g.saved) + 1] = g.current
      /\ \A i \in 1 .. Len(g.saved) : Saved(g).saved[i] = g.saved[i]
      /\ Len(Saved(h).saved) = Len(g.saved) + 1
      /\ Saved(h).saved[Len(g.saved) + 1] = h.current
      /\ \A i \in 1 .. Len(g.saved) : Saved(h).saved[i] = h.saved[i]
  BY <1>1, <1>2, AppendProperties
<1>4. \A i \in 1 .. Len(Saved(g).saved) : i \in 1 .. Len(g.saved) \/ i = Len(g.saved) + 1
  BY <1>1, <1>3
<1>5. \A i \in 1 .. Len(g.saved) : Mirrors(Saved(g).saved[i], Saved(h).saved[i])
  BY <1>3 DEF MirrorStacks
<1>6. Mirrors(Saved(g).current, Saved(h).current)
  BY <1>2 DEF MirrorStacks
<1>7. Mirrors(Saved(g).saved[Len(g.saved) + 1], Saved(h).saved[Len(g.saved) + 1])
  BY <1>3 DEF MirrorStacks
<1> QED
  BY <1>3, <1>4, <1>5, <1>6, <1>7 DEF MirrorStacks

LEMMA MirrorRestored ==
    ASSUME NEW g \in Stack, NEW h \in Stack, MirrorStacks(g, h), g.saved # <<>>
    PROVE  MirrorStacks(Restored(g), Restored(h))
<1>1. PICK n \in Nat \ {0} : n = Len(g.saved)
  BY LenProperties, EmptySeq DEF Stack
<1>2. /\ g.saved \in Seq(State) /\ h.saved \in Seq(State)
      /\ Len(h.saved) = n /\ h.saved # <<>>
  BY <1>1, EmptySeq DEF Stack, MirrorStacks
<1>3. /\ Restored(g).current = g.saved[n] /\ Restored(g).saved = SubSeq(g.saved, 1, n - 1)
      /\ Restored(h).current = h.saved[n] /\ Restored(h).saved = SubSeq(h.saved, 1, n - 1)
  BY <1>1, <1>2, RestoredType
<1>4. /\ Len(Restored(g).saved) = n - 1 /\ Len(Restored(h).saved) = n - 1
      /\ \A i \in 1 .. n - 1 : /\ Restored(g).saved[i] = g.saved[i]
                               /\ Restored(h).saved[i] = h.saved[i]
  BY <1>1, <1>2, <1>3, ButLast
<1>5. \A i \in 1 .. n : Mirrors(g.saved[i], h.saved[i])
  BY <1>1 DEF MirrorStacks
<1>6. Mirrors(Restored(g).current, Restored(h).current)
  BY <1>1, <1>3, <1>5
<1>7. \A i \in 1 .. n - 1 : Mirrors(Restored(g).saved[i], Restored(h).saved[i])
  BY <1>1, <1>4, <1>5
<1> QED
  BY <1>4, <1>6, <1>7 DEF MirrorStacks

LEMMA MirrorConcat ==
    ASSUME NEW s \in State, NEW t \in State, Mirrors(s, t), NEW m \in Matrix
    PROVE  Mirrors(Concat(s, m), Concat(t, m))
<1>1. /\ <<Display>> \in Seq(Matrix) /\ t.ctm \in Seq(Matrix) /\ s.ctm \in Seq(Matrix)
      /\ <<m>> \in Seq(Matrix)
  BY ContentAssumption DEF State
<1>2. (<<Display>> \o t.ctm) \o <<m>> = <<Display>> \o (t.ctm \o <<m>>)
  <2>1. ASSUME NEW a \in Seq(Matrix), NEW b \in Seq(Matrix), NEW c \in Seq(Matrix)
        PROVE  (a \o b) \o c = a \o (b \o c)
    BY ConcatAssociative
  <2> QED
    BY <1>1, <2>1, ZenonT(40)
<1>3. Append(s.ctm, m) = s.ctm \o <<m>> /\ Append(t.ctm, m) = t.ctm \o <<m>>
  BY <1>1, AppendIsConcat
<1>4. Append(s.ctm, m) = <<Display>> \o Append(t.ctm, m)
  BY <1>2, <1>3 DEF Mirrors
<1> QED
  BY <1>4 DEF Mirrors, Concat, State

(* An operation that sets the state sets both in the same way.             *)
LEMMA StateOpMirrored ==
    ASSUME WellFormed, TypeOK, forms = <<>>, parserStack \in Stack,
           MirrorStacks(stack, parserStack),
           NEW op \in Operations, op.name \in StateOps, Allowed(op)
    PROVE  /\ MirrorStacks(StackAfter(op), Parser!StackAfter(op))
           /\ Parser!StackAfter(op) \in Stack
<1>0. stack \in Stack
  BY DEF TypeOK
<1>1. CASE op.name = "q"
  <2>1. StackAfter(op) = Saved(stack) /\ Parser!StackAfter(op) = Saved(parserStack)
    BY <1>1, SameOperators DEF StackAfter, Parser!StackAfter
  <2> QED
    BY <1>0, <2>1, MirrorSaved, SavedType
<1>2. CASE op.name = "Q"
  <2>1. /\ StackAfter(op) = Restored(stack)
        /\ Parser!StackAfter(op) = Restored(parserStack)
    BY <1>2, SameOperators DEF StackAfter, Parser!StackAfter, Parser!Popped
  <2>2. stack.saved # <<>>
    BY <1>2, EmptySeq DEF Allowed, Base
  <2> QED
    BY <1>0, <2>1, <2>2, MirrorRestored, RestoredType
<1>3. CASE op.name = "cm"
  <2>1. op.arg \in Matrix /\ stack.current \in State /\ parserStack.current \in State
    BY <1>0, <1>3, ContentAssumption DEF Stack
  <2>2. /\ StackAfter(op) = [stack EXCEPT !.current = Concat(stack.current, op.arg)]
        /\ Parser!StackAfter(op)
             = [parserStack EXCEPT !.current = Concat(parserStack.current, op.arg)]
    BY <1>3, SameOperators DEF StackAfter, Parser!StackAfter
  <2>3. Mirrors(Concat(stack.current, op.arg), Concat(parserStack.current, op.arg))
    BY <2>1, MirrorConcat DEF MirrorStacks
  <2>4. Concat(parserStack.current, op.arg) \in State
    BY <2>1, AppendProperties DEF Concat, State
  <2> QED
    BY <1>0, <2>2, <2>3, <2>4 DEF MirrorStacks, Stack
<1>4. CASE op.name \in {"g", "G", "Tf"}
  <2>1. /\ op.name \in {"g", "G"} => op.arg \in Colour
        /\ op.name = "Tf" => op.arg \in Font
    BY ContentAssumption
  <2>2. /\ Parser!StackAfter(op) \in Stack
        /\ Parser!StackAfter(op).saved = parserStack.saved
        /\ StackAfter(op).saved = stack.saved
    BY <1>0, <1>4, <2>1 DEF StackAfter, Parser!StackAfter, Stack, State
  <2>3. Mirrors(stack.current, parserStack.current)
    BY DEF MirrorStacks
  <2>4. Mirrors(StackAfter(op).current, Parser!StackAfter(op).current)
    BY <1>0, <1>4, <2>3 DEF StackAfter, Parser!StackAfter, Mirrors, Stack, State
  <2> QED
    BY <2>2, <2>4 DEF MirrorStacks
<1> QED
  BY <1>1, <1>2, <1>3, <1>4 DEF StateOps

LEMMA RectSegments == <<"m", "l", "l", "l">> \o <<"h">> = <<"m", "l", "l", "l", "h">>
<1>1. PICK s, t, u : s = <<"m", "l", "l", "l">> /\ t = <<"h">>
                     /\ u = <<"m", "l", "l", "l", "h">>
  OBVIOUS
<1>2. /\ s \in Seq(Kinds) /\ t \in Seq(Kinds) /\ u \in Seq(Kinds)
      /\ Len(s) = 4 /\ Len(t) = 1 /\ Len(u) = 5
  BY <1>1 DEF Kinds
<1>3. /\ s \o t \in Seq(Kinds) /\ Len(s \o t) = Len(s) + Len(t)
      /\ \A i \in 1 .. Len(s) + Len(t) :
            (s \o t)[i] = IF i <= Len(s) THEN s[i] ELSE t[i - Len(s)]
  BY <1>2, ConcatProperties
<1>4. \A i \in 1 .. 5 : (s \o t)[i] = u[i]
  <2>1. /\ \A i \in 1 .. 4 : (s \o t)[i] = s[i]
        /\ (s \o t)[5] = t[1]
    BY <1>2, <1>3
  <2>2. s[1] = "m" /\ s[2] = "l" /\ s[3] = "l" /\ s[4] = "l" /\ t[1] = "h"
    BY <1>1
  <2>3. u[1] = "m" /\ u[2] = "l" /\ u[3] = "l" /\ u[4] = "l" /\ u[5] = "h"
    BY <1>1
  <2> TAKE i \in 1 .. 5
  <2>4. i = 1 \/ i = 2 \/ i = 3 \/ i = 4 \/ i = 5
    OBVIOUS
  <2>5. CASE i = 5
    BY <2>1, <2>2, <2>3, <2>5, Zenon
  <2>6. CASE i # 5
    <3>1. i \in 1 .. 4
      BY <2>6
    <3>2. s[i] = u[i]
      BY <2>2, <2>3, <2>4, <2>6, Zenon
    <3> QED
      BY <2>1, <3>1, <3>2, Zenon
  <2> QED
    BY <2>5, <2>6
<1>5. s \o t = u
  <2>1. /\ s \o t \in Seq(Kinds) /\ Len(s \o t) = Len(u)
        /\ \A i \in 1 .. Len(s \o t) : (s \o t)[i] = u[i]
    BY <1>2, <1>3, <1>4
  <2> QED
    BY <1>2, <2>1, SeqEqual, Zenon
<1> QED
  BY <1>1, <1>5

LEMMA KindsConcat ==
    \A a \in Seq(Kinds), b \in Seq(Kinds), c \in Seq(Kinds) :
        (a \o b) \o c = a \o (b \o c)
BY ConcatAssociative

(* An operation that constructs a path adds to the parser's segments what  *)
(* it adds to the points.                                                  *)
LEMMA PathOpMirrored ==
    ASSUME WellFormed, TypeOK, NEW op \in Operations, Allowed(op),
           op.name \in {"m", "l", "c", "re", "h"}
    PROVE  PathAfter(op).points = path.points \o Parser!SegmentsOf(op)
<1>1. op.name \in {"l", "c", "h"} => path.point
  BY DEF Allowed
<1>2. \A p, ks : Extended(p, ks).points = p.points \o ks /\ Extended(p, ks).point
  BY DEF Extended
<1>3. CASE op.name # "re"
  <2>1. PathAfter(op) = Extended(path, <<op.name>>)
    BY <1>1, <1>3 DEF PathAfter, MoveTo, LineTo, CurveTo, ClosePath
  <2>2. Parser!SegmentsOf(op) = <<op.name>>
    BY <1>3 DEF Parser!SegmentsOf
  <2> QED
    BY <1>2, <2>1, <2>2
<1>4. CASE op.name = "re"
  <2>1. PICK r : r = <<"m", "l", "l", "l">>
    OBVIOUS
  <2>2. PathAfter(op) = Extended(Extended(path, r), <<"h">>)
    BY <1>2, <1>4, <2>1 DEF PathAfter, Rect, ClosePath
  <2>3. PathAfter(op).points = (path.points \o r) \o <<"h">>
    BY <1>2, <2>2
  <2>4. path.points \in Seq(Kinds) /\ r \in Seq(Kinds) /\ <<"h">> \in Seq(Kinds)
    <3>1. path.points \in Seq(Kinds)
      BY DEF TypeOK, Path, Kinds
    <3>2. r \in Seq(Kinds)
      BY <2>1 DEF Kinds
    <3>3. <<"h">> \in Seq(Kinds)
      BY DEF Kinds
    <3> QED
      BY <3>1, <3>2, <3>3
  <2>5. (path.points \o r) \o <<"h">> = path.points \o (r \o <<"h">>)
    BY <2>4, KindsConcat, Zenon
  <2>6. r \o <<"h">> = Parser!SegmentsOf(op)
    <3>1. Parser!SegmentsOf(op) = <<"m", "l", "l", "l", "h">>
      BY <1>4 DEF Parser!SegmentsOf
    <3> QED
      BY <2>1, <3>1, RectSegments
  <2> QED
    BY <2>3, <2>5, <2>6
<1> QED
  BY <1>3, <1>4

(* What an operation of the page does on either side.                      *)
LEMMA PageOps ==
    ASSUME OnlyShared, NEW op \in Operations, ExecutePage(op)
    PROVE  \/ op.name \in StateOps /\ SetState(op) /\ Parser!SetState(op)
           \/ /\ op.name \in {"m", "l", "c", "re", "h"}
              /\ ConstructPath(op) /\ Parser!AddSegments(op)
           \/ op.name = "S" /\ StrokePath(op) /\ Parser!PathPaint(op)
           \/ op.name \in {"f", "f*"} /\ FillPath(op) /\ Parser!PathPaint(op)
           \/ EndPath(op) /\ Parser!EndPath(op)
           \/ PaintNothing(op) /\ Parser!ShowText(op)
           \/ SetClip(op) /\ Parser!Ignore(op)
           \/ PaintNothing(op) /\ Parser!Ignore(op)
           \/ PaintNoXObject(op) /\ Parser!Ignore(op)
           \/ op.name = "Do" /\ RenderForm(op) /\ Parser!Ignore(op)
<1>1. /\ op.name \in SharedNames
      /\ op.name = "Do" => op.arg.subtype # "Image"
  BY DEF OnlyShared, ExecutePage
<1>2. \/ op.name \in StateOps /\ SetState(op)
      \/ op.name \in PathOps /\ ConstructPath(op)
      \/ op.name \in StrokeOps /\ StrokePath(op)
      \/ op.name \in FillOps /\ FillPath(op)
      \/ op.name \in FillStrokeOps /\ FillStrokePath(op)
      \/ op.name = "n" /\ EndPath(op)
      \/ op.name \in {"W", "W*"} /\ SetClip(op)
      \/ op.name \in {"BT", "ET", "Tj", "sh"} /\ PaintNothing(op)
      \/ op.name = "Do" /\ PaintNoXObject(op)
      \/ op.name = "Do" /\ op.arg.subtype = "Image" /\ RenderImage(op)
      \/ op.name = "Do" /\ RenderForm(op)
  BY ZenonT(60) DEF ExecutePage, Execute, SetState, ConstructPath, StrokePath, FillPath,
     FillStrokePath, EndPath, SetClip, PaintNothing, PaintNoXObject, RenderImage, RenderForm
<1>3. \/ op.name \in Parser!StateOps /\ Parser!SetState(op)
      \/ op.name \in Parser!SegmentOps /\ Parser!AddSegments(op)
      \/ op.name \in Parser!PaintOps /\ Parser!PathPaint(op)
      \/ op.name = "n" /\ Parser!EndPath(op)
      \/ op.name = "Tj" /\ Parser!ShowText(op)
      \/ /\ op.name \in {"F", "W", "W*", "v", "y", "ET", "Do", "sh"}
         /\ Parser!Ignore(op)
  BY DEF ExecutePage, Parser!Execute, Parser!SetState, Parser!AddSegments,
     Parser!PathPaint, Parser!EndPath, Parser!ShowText, Parser!Ignore
<1> QED
  BY <1>1, <1>2, <1>3 DEF SharedNames, StateOps, PathOps, StrokeOps, FillOps,
     FillStrokeOps, Parser!StateOps, Parser!SegmentOps, Parser!PaintOps

LEMMA ColourOfOne ==
    ASSUME NEW r, painted' = <<r>>, NEW what
    PROVE  ColourOf(what)' = IF r.what = what THEN r.colour ELSE Parser!NoColour
<1>1. DOMAIN painted' = {1} /\ painted'[1] = r
  OBVIOUS
<1>2. CASE r.what = what
  <2>1. \E i \in DOMAIN painted' : painted'[i].what = what
    BY <1>1, <1>2
  <2>2. (CHOOSE i \in DOMAIN painted' : painted'[i].what = what) = 1
    BY <1>1, <2>1
  <2> QED
    BY <1>1, <1>2, <2>1, <2>2 DEF ColourOf
<1>3. CASE r.what # what
  <2>1. ~(\E i \in DOMAIN painted' : painted'[i].what = what)
    BY <1>1, <1>3
  <2> QED
    BY <1>3, <2>1 DEF ColourOf, Parser!NoColour
<1> QED
  BY <1>2, <1>3

ShownAsSaid ==
    /\ painted' = <<>> <=> PathObjects' = {}
    /\ painted' # <<>> => Painted' = AsPaint(objects'[1])

LEMMA NothingPainted ==
    ASSUME painted' = <<>>, objects' = <<>>
    PROVE  ShownAsSaid
<1>1. DOMAIN objects' = {}
  OBVIOUS
<1> QED
  BY <1>1 DEF ShownAsSaid, PathObjects

(* A painted path and its object.                                          *)
LEMMA PathShown ==
    ASSUME NEW op, Mirrors(state, Parser!state), segments = path.points,
           Parser!PathPaint(op),
           \/ op.name = "S" /\ painted' = Stroked(path)
           \/ op.name \in {"f", "f*"} /\ painted' = Filled(path)
    PROVE  ShownAsSaid
<1>1. CASE path.points = <<>>
  BY <1>1, NothingPainted DEF Parser!PathPaint, Stroked, Filled
<1>2. CASE path.points # <<>>
  <2>1. PICK o : o = Parser!PathObject(op)
    OBVIOUS
  <2>2. objects' = <<o>>
    BY <1>2, <2>1 DEF Parser!PathPaint
  <2>3. /\ o.what = "path" /\ o.segments = path.points /\ state.ctm = <<Display>> \o o.matrix
        /\ o.fillColour = IF op.name = "S" THEN Parser!NoColour ELSE state.fill
        /\ o.strokeColour = IF op.name = "S" THEN state.stroke ELSE Parser!NoColour
    <3>1. op.name \in {"S", "f", "f*"}
      OBVIOUS
    <3> QED
      BY <2>1, <3>1 DEF Parser!PathObject, Parser!Fills, Parser!Strokes, Mirrors
  <2>4. DOMAIN objects' = {1} /\ objects'[1] = o
    BY <2>2
  <2>5. PathObjects' # {}
    BY <2>3, <2>4 DEF PathObjects
  <2>6. PICK r : /\ painted' = <<r>> /\ r.points = path.points /\ r.ctm = state.ctm
                 /\ op.name = "S" => r.what = "stroke" /\ r.colour = state.stroke
                 /\ op.name # "S" => r.what = "fill" /\ r.colour = state.fill
    BY <1>2 DEF Stroked, Filled
  <2>7. painted'[1] = r /\ painted' # <<>>
    BY <2>6
  <2>8. /\ ColourOf("fill")' = o.fillColour
        /\ ColourOf("stroke")' = o.strokeColour
    <3>1. \A w : ColourOf(w)' = IF r.what = w THEN r.colour ELSE Parser!NoColour
      BY <2>6, ColourOfOne
    <3>2. CASE op.name = "S"
      BY <2>3, <2>6, <3>1, <3>2
    <3>3. CASE op.name # "S"
      BY <2>3, <2>6, <3>1, <3>3
    <3> QED
      BY <3>2, <3>3
  <2>9. Painted' = AsPaint(objects'[1])
    BY <2>3, <2>4, <2>6, <2>7, <2>8 DEF Painted, AsPaint
  <2> QED
    BY <2>5, <2>7, <2>9 DEF ShownAsSaid
<1> QED
  BY <1>1, <1>2

(* An operation of the page keeps both executors in step, and paints what  *)
(* it adds an object for.                                                  *)
LEMMA PageOpMirrored ==
    ASSUME WellFormed, OnlyShared, TypeOK, Mirrored,
           NEW op \in Operations, ExecutePage(op)
    PROVE  Mirrored' /\ (forms' = <<>> => ShownAsSaid)
<1>1. /\ rendering /\ rendering' = rendering /\ Allowed(op) /\ forms = <<>>
      /\ stack \in Stack /\ parserStack \in Stack
      /\ MirrorStacks(stack, parserStack) /\ segments = path.points
  BY DEF ExecutePage, Execute, Mirrored, PageStack, TypeOK
<1>2. Mirrors(state, Parser!state)
  BY <1>1, SMTT(30) DEF MirrorStacks, state, Parser!state
<1>3. CASE op.name \in StateOps /\ SetState(op) /\ Parser!SetState(op)
  <2>1. /\ stack' = StackAfter(op) /\ parserStack' = Parser!StackAfter(op)
        /\ painted' = <<>> /\ objects' = <<>>
        /\ UNCHANGED <<path, forms, segments>>
    BY <1>3 DEF SetState, Parser!SetState
  <2>2. /\ MirrorStacks(StackAfter(op), Parser!StackAfter(op))
        /\ Parser!StackAfter(op) \in Stack
    BY <1>1, <1>3, StateOpMirrored
  <2>3. PageStack' = stack'
    BY <1>1, <2>1 DEF PageStack
  <2>4. MirrorStacks(PageStack', parserStack')
    BY <2>1, <2>2, <2>3
  <2> QED
    BY <1>1, <2>1, <2>2, <2>4, NothingPainted DEF Mirrored, MirrorStacks, Mirrors
<1>4. CASE /\ op.name \in {"m", "l", "c", "re", "h"}
           /\ ConstructPath(op) /\ Parser!AddSegments(op)
  <2>1. /\ path' = PathAfter(op) /\ segments' = segments \o Parser!SegmentsOf(op)
        /\ painted' = <<>> /\ objects' = <<>>
        /\ UNCHANGED <<stack, forms, parserStack>>
    BY <1>4 DEF ConstructPath, Parser!AddSegments
  <2>2. path'.points = segments'
    BY <1>1, <1>4, <2>1, PathOpMirrored
  <2> QED
    BY <1>1, <2>1, <2>2, NothingPainted DEF Mirrored, PageStack, MirrorStacks, Mirrors
<1>5. CASE \/ op.name = "S" /\ StrokePath(op) /\ Parser!PathPaint(op)
           \/ op.name \in {"f", "f*"} /\ FillPath(op) /\ Parser!PathPaint(op)
  <2>1. /\ path' = NoPath /\ segments' = <<>>
        /\ UNCHANGED <<stack, forms, parserStack>>
    BY <1>5 DEF StrokePath, FillPath, Parser!PathPaint
  <2>2. Mirrored'
    BY <1>1, <2>1 DEF Mirrored, PageStack, MirrorStacks, Mirrors, NoPath
  <2>3. \/ op.name = "S" /\ painted' = Stroked(path)
        \/ op.name \in {"f", "f*"} /\ painted' = Filled(path)
    BY <1>5 DEF StrokePath, FillPath, Closed
  <2> QED
    BY <1>1, <1>2, <1>5, <2>2, <2>3, PathShown
<1>6. CASE EndPath(op) /\ Parser!EndPath(op)
  <2>1. /\ path' = NoPath /\ segments' = <<>> /\ painted' = <<>> /\ objects' = <<>>
        /\ UNCHANGED <<stack, forms, parserStack>>
    BY <1>6 DEF EndPath, Parser!EndPath
  <2> QED
    BY <1>1, <2>1, NothingPainted DEF Mirrored, PageStack, MirrorStacks, Mirrors, NoPath
<1>7. CASE PaintNothing(op) /\ Parser!ShowText(op)
  <2>1. /\ painted' = <<>> /\ UNCHANGED <<stack, forms, path, parserStack, segments>>
    BY <1>7 DEF PaintNothing, Parser!ShowText
  <2>2. Mirrored'
    BY <1>1, <2>1 DEF Mirrored, PageStack, MirrorStacks, Mirrors
  <2>3. PICK t : t.what = "text" /\ objects' = <<t>>
    BY <1>7 DEF Parser!ShowText
  <2>4. DOMAIN objects' = {1} /\ objects'[1] = t
    BY <2>3
  <2>5. PathObjects' = {}
    BY <2>3, <2>4 DEF PathObjects
  <2> QED
    BY <2>1, <2>2, <2>5 DEF ShownAsSaid
<1>8. CASE SetClip(op) /\ Parser!Ignore(op)
  <2>1. /\ painted' = <<>> /\ objects' = <<>>
        /\ UNCHANGED <<forms, path, parserStack, segments>>
    BY <1>8 DEF SetClip, Parser!Ignore
  <2>2. /\ stack'.saved = stack.saved
        /\ stack'.current.ctm = stack.current.ctm /\ stack'.current.font = stack.current.font
        /\ stack'.current.fill = stack.current.fill
        /\ stack'.current.stroke = stack.current.stroke
    BY <1>1, <1>8 DEF SetClip, Stack, State
  <2>3. MirrorStacks(stack', parserStack')
    BY <1>1, <2>1, <2>2 DEF MirrorStacks, Mirrors
  <2> QED
    BY <1>1, <2>1, <2>3, NothingPainted DEF Mirrored, PageStack, MirrorStacks, Mirrors
<1>9. CASE (PaintNothing(op) \/ PaintNoXObject(op)) /\ Parser!Ignore(op)
  <2>1. /\ painted' = <<>> /\ objects' = <<>>
        /\ UNCHANGED <<stack, forms, path, parserStack, segments>>
    BY <1>9 DEF PaintNothing, PaintNoXObject, Parser!Ignore
  <2> QED
    BY <1>1, <2>1, NothingPainted DEF Mirrored, PageStack, MirrorStacks, Mirrors
<1>10. CASE op.name = "Do" /\ RenderForm(op) /\ Parser!Ignore(op)
  <2>1. /\ forms' = Append(forms, stack)
        /\ UNCHANGED <<path, parserStack, segments>>
    BY <1>10 DEF RenderForm, Parser!Ignore
  <2>2. forms' # <<>> /\ forms'[1] = stack
    BY <1>1, <2>1
  <2>3. path = NoPath
    BY <1>1, <1>10 DEF Allowed
  <2>4. segments' = <<>>
    BY <1>1, <2>1, <2>3 DEF NoPath
  <2>5. PageStack' = stack
    BY <2>2 DEF PageStack
  <2> QED
    BY <1>1, <2>1, <2>2, <2>4, <2>5 DEF Mirrored, MirrorStacks, Mirrors
<1> QED
  BY <1>3, <1>4, <1>5, <1>6, <1>7, <1>8, <1>9, <1>10, PageOps

(* What forms do stays theirs.                                             *)
LEMMA MirroredStep ==
    ASSUME WellFormed, OnlyShared, TypeOK, Nested, Mirrored, [PageNext]_pageVars
    PROVE  Mirrored'
<1>1. CASE Begin
  <2>1. /\ ~rendering /\ stack' = [NewStack EXCEPT !.current.ctm = <<Display>>]
        /\ path' = NoPath /\ forms' = forms
        /\ parserStack' = NewStack /\ segments' = <<>>
    BY <1>1, SameOperators DEF Begin, Render, Parser!Parse
  <2>2. forms' = <<>>
    BY <2>1 DEF TypeOK
  <2>3. <<Display>> = <<Display>> \o <<>>
    <3>1. <<Display>> \in Seq(Matrix)
      BY ContentAssumption
    <3> QED
      BY <3>1, ConcatEmptySeq, Zenon
  <2>4. MirrorStacks(stack', NewStack)
    <3>1. /\ stack'.saved = <<>> /\ NewStack.saved = <<>> /\ NewStack.current = NewState
          /\ stack'.current = [NewState EXCEPT !.ctm = <<Display>>]
      BY <2>1 DEF NewStack
    <3>2. /\ stack'.current.ctm = <<Display>> /\ NewState.ctm = <<>>
          /\ stack'.current.fill = NewState.fill /\ stack'.current.stroke = NewState.stroke
          /\ stack'.current.font = NewState.font
      BY <3>1 DEF NewState
    <3>3. Mirrors(stack'.current, NewStack.current)
      BY <2>3, <3>1, <3>2 DEF Mirrors
    <3> QED
      BY <3>1, <3>3 DEF MirrorStacks
  <2>5. PageStack' = stack'
    BY <2>2 DEF PageStack
  <2>6. MirrorStacks(PageStack', parserStack')
    BY <2>1, <2>4, <2>5
  <2>7. segments' = IF forms' = <<>> THEN path'.points ELSE <<>>
    BY <2>1, <2>2 DEF NoPath
  <2>8. parserStack' \in Stack
    BY <2>1, NewStackType
  <2>9. MirrorStacks(PageStack, parserStack)' <=> MirrorStacks(PageStack', parserStack')
    BY DEF MirrorStacks, Mirrors
  <2> QED
    BY <2>6, <2>7, <2>8, <2>9 DEF Mirrored
<1>2. ASSUME NEW op \in Operations, ExecutePage(op)
      PROVE  Mirrored'
  BY <1>2, PageOpMirrored
<1>3. ASSUME NEW op \in Operations, ExecuteForm(op)
      PROVE  Mirrored'
  <2>1. /\ forms # <<>> /\ rendering /\ rendering' = rendering
        /\ UNCHANGED <<parserStack, segments>>
    BY <1>3 DEF ExecuteForm, Execute, parserVars
  <2>2. forms' = forms \/ forms' = Append(forms, stack)
    BY <1>3 DEF ExecuteForm, Execute, SetState, ConstructPath, StrokePath, FillPath,
       FillStrokePath, EndPath, SetClip, PaintNothing, PaintNoXObject, RenderImage, RenderForm
  <2>3. forms' # <<>> /\ forms'[1] = forms[1]
    <3>1. forms \in Seq(Stack) /\ Len(forms) \in Nat \ {0} /\ stack \in Stack
      BY <2>1, EmptySeq, LenProperties DEF TypeOK
    <3>2. CASE forms' = Append(forms, stack)
      <4>1. Len(forms') = Len(forms) + 1 /\ forms'[1] = forms[1]
        BY <3>1, <3>2, AppendProperties
      <4> QED
        BY <3>1, <4>1, EmptySeq
    <3> QED
      BY <2>1, <2>2, <3>2
  <2>4. PageStack' = PageStack
    BY <2>1, <2>3 DEF PageStack
  <2> QED
    BY <2>1, <2>3, <2>4 DEF Mirrored, MirrorStacks, Mirrors
<1>4. ASSUME NEW op \in Operations, Unwind(op)
      PROVE  Mirrored'
  BY <1>4 DEF Unwind, Overflow, parserVars, Mirrored
<1>5. CASE LeaveForm
  <2>1. /\ EndForm /\ forms # <<>> /\ rendering /\ UNCHANGED <<path, parserStack, segments>>
        /\ path = NoPath
    BY <1>5 DEF LeaveForm, EndForm, parserVars
  <2>2. stack' = forms[Len(forms)]
    BY <2>1, EndFormKeeps
  <2>3. /\ forms \in Seq(Stack) /\ Len(forms) \in Nat \ {0}
        /\ Len(forms') = Len(forms) - 1
        /\ \A i \in 1 .. Len(forms) - 1 : forms'[i] = forms[i]
    <3>1. forms \in Seq(Stack) /\ Len(forms) \in Nat \ {0}
      BY <2>1, EmptySeq, LenProperties DEF TypeOK
    <3>2. forms' = SubSeq(forms, 1, Len(forms) - 1)
      BY <2>1 DEF EndForm
    <3> QED
      BY <2>1, <3>1, <3>2, ButLast
  <2>4. PageStack' = forms[1]
    <3>1. CASE Len(forms) = 1
      <4>1. forms' = <<>>
        <5>1. forms' \in Seq(Stack)
          BY <2>1, <2>3, SubSeqProperties DEF EndForm
        <5> QED
          BY <2>3, <3>1, <5>1, EmptySeq
      <4> QED
        BY <2>2, <3>1, <4>1 DEF PageStack
    <3>2. CASE Len(forms) # 1
      <4>1. forms' # <<>> /\ forms'[1] = forms[1]
        BY <2>3, <3>2, EmptySeq
      <4> QED
        BY <4>1 DEF PageStack
    <3> QED
      BY <3>1, <3>2
  <2>5. segments = <<>> /\ PageStack = forms[1] /\ MirrorStacks(PageStack, parserStack)
    BY <2>1 DEF Mirrored, PageStack
  <2> QED
    BY <2>1, <2>4, <2>5 DEF Mirrored, MirrorStacks, Mirrors, NoPath
<1>6. CASE End
  BY <1>6 DEF End, EndRender, parserVars, Mirrored
<1>7. CASE UNCHANGED pageVars
  BY <1>7 DEF pageVars, vars, parserVars, Mirrored, PageStack, MirrorStacks, Mirrors
<1> QED
  BY <1>1, <1>2, <1>3, <1>4, <1>5, <1>6, <1>7 DEF PageNext

LEMMA PageInvariance ==
    WellFormed /\ OnlyShared /\ PageSpec => [](TypeOK /\ Nested /\ Mirrored)
<1> SUFFICES ASSUME WellFormed, OnlyShared
             PROVE  PageSpec => [](TypeOK /\ Nested /\ Mirrored)
  OBVIOUS
<1> DEFINE IInv == TypeOK /\ Nested /\ Mirrored
<1>1. PageInit => IInv
  <2>1. PageInit => TypeOK
    BY NewStackType, NoPathGood, EmptySeq DEF PageInit, Init, TypeOK, GoodPath
  <2>2. PageInit => Nested
    BY EmptySeq DEF PageInit, Init, Nested
  <2>3. PageInit => Mirrored
    BY NewStackType, SameOperators DEF PageInit, Init, Parser!Init, Mirrored
  <2> QED
    BY <2>1, <2>2, <2>3
<1>2. IInv /\ [PageNext]_pageVars => IInv'
  BY PageSteps, TypeStep, NestedStep, MirroredStep
<1> HIDE DEF IInv
<1>3. PageSpec => []IInv
  BY <1>1, <1>2, PTL DEF PageSpec
<1> QED
  BY <1>3 DEF IInv

(* What a page shows is what its objects say: pdf_content_parser.dart and  *)
(* content_stream_interpreter.dart, each with its own stack of states and  *)
(* its own path, see the same points, matrix and colours at each painting  *)
(* operation of a page, whatever the forms between do.                     *)
THEOREM PaintIsObjects == WellFormed /\ OnlyShared /\ PageSpec => SamePaint
<1> SUFFICES ASSUME WellFormed, OnlyShared
             PROVE  PageSpec => SamePaint
  OBVIOUS
<1>1. TypeOK /\ Nested /\ Mirrored /\ [PageNext]_pageVars
        => [forms = <<>> /\ forms' = <<>> /\ rendering /\ rendering' => ShownAsSaid]_pageVars
  <2> SUFFICES ASSUME TypeOK, Nested, Mirrored, [PageNext]_pageVars,
                      ~UNCHANGED pageVars,
                      forms = <<>>, forms' = <<>>, rendering, rendering'
               PROVE  ShownAsSaid
    OBVIOUS
  <2>1. PICK op \in Operations : ExecutePage(op)
    BY DEF PageNext, Begin, Render, ExecuteForm, Unwind, Overflow, LeaveForm, EndForm,
       End, EndRender
  <2> QED
    BY <2>1, PageOpMirrored
<1> QED
  BY <1>1, PageInvariance, PTL DEF PageSpec, SamePaint, ShownAsSaid

(* The font a text object gets (pdf_content_parser.dart:262) is the one    *)
(* selected last, as the interpreter has it.  OnlyShared leaves out BT,    *)
(* with which the parser forgets the font.                                 *)
THEOREM TextHasTheFont == WellFormed /\ OnlyShared /\ PageSpec => SameFont
<1> SUFFICES ASSUME WellFormed, OnlyShared
             PROVE  PageSpec => SameFont
  OBVIOUS
<1>1. TypeOK /\ Nested /\ Mirrored /\ [PageNext]_pageVars
        => [\A i \in DOMAIN objects' :
               objects'[i].what = "text" /\ objects' # objects
                  => objects'[i].font = state.font]_pageVars
  <2> SUFFICES ASSUME TypeOK, Nested, Mirrored, [PageNext]_pageVars,
                      ~UNCHANGED pageVars, NEW i \in DOMAIN objects',
                      objects'[i].what = "text", objects' # objects
               PROVE  objects'[i].font = state.font
    OBVIOUS
  <2>1. ~Begin
    BY DEF Begin, Parser!Parse
  <2>2. PICK op \in Operations : ExecutePage(op)
    BY <2>1 DEF PageNext, ExecuteForm, Unwind, LeaveForm, End, parserVars
  <2>3. /\ rendering /\ forms = <<>>
        /\ MirrorStacks(stack, parserStack)
    BY <2>2 DEF ExecutePage, Execute, Mirrored, PageStack
  <2>4. state.font = Parser!state.font
    BY <2>3 DEF MirrorStacks, Mirrors, state, Parser!state
  <2>5. CASE Parser!PathPaint(op)
    <3>1. PICK o : o.what = "path" /\ (objects' = <<>> \/ objects' = <<o>>)
      BY <2>5 DEF Parser!PathPaint, Parser!PathObject
    <3>2. objects'[i] = o
      BY <3>1
    <3> QED
      BY <3>1, <3>2
  <2>6. CASE Parser!ShowText(op)
    <3>1. PICK o : o.font = Parser!state.font /\ objects' = <<o>>
      BY <2>6 DEF Parser!ShowText
    <3> QED
      BY <2>4, <3>1
  <2>7. Parser!PathPaint(op) \/ Parser!ShowText(op)
    <3>1. objects' # <<>>
      OBVIOUS
    <3> QED
      BY <2>2, <3>1 DEF ExecutePage, Parser!Execute, Parser!SetState, Parser!AddSegments,
         Parser!EndPath, Parser!Ignore
  <2> QED
    BY <2>5, <2>6, <2>7
<1> QED
  BY <1>1, PageInvariance, PTL DEF PageSpec, SameFont
=============================================================================
