------------------------- MODULE PdfDocumentProofs -------------------------
(***************************************************************************)
(* Proofs about PdfDocument and PageAttributes.                            *)
(*                                                                         *)
(* Of the document, TypeOK is inductive.  CountNeverChanges and PagesStay  *)
(* hold of every step by itself.  NoPageAfterClose does not: it            *)
(* needs that close left neither an object nor a cached page, and that no  *)
(* request brings one back (ClosedEmpty).  PagesAreLeaves needs to know    *)
(* where the walk stands: what was on the list when each activation began, *)
(* and that what it added since are the leaves of the kids it is done with *)
(* (Walk).  The recursive functions by which Leaves and FlattenSeq are     *)
(* defined are shown to exist by least counterexample.                     *)
(*                                                                         *)
(* Of a page, LookupInv says how far up the walk stands and that nothing   *)
(* was found below.                                                        *)
(***************************************************************************)
EXTENDS PdfDocument, PageAttributes, SequenceTheorems, FiniteSetTheorems, WellFoundedInduction, TLAPS

Activations == [node : Dict, next : Nat \ {0}]

LEMMA StackTypes ==
    ASSUME NEW s \in Seq(Activations), s # <<>>
    PROVE  /\ s[Len(s)] \in Activations
           /\ SubSeq(s, 1, Len(s) - 1) \in Seq(Activations)
           /\ \A a \in Activations : Append(SubSeq(s, 1, Len(s) - 1), a) \in Seq(Activations)
<1>1. Len(s) \in Nat \ {0}
  BY EmptySeq, LenProperties
<1>2. SubSeq(s, 1, Len(s) - 1) \in Seq(Activations)
  BY <1>1, SubSeqProperties
<1> QED
  BY <1>1, <1>2, ElementOfSeq, AppendProperties

LEMMA AdvancedType ==
    ASSUME NEW a \in Activations
    PROVE  [a EXCEPT !.next = @ + 1] \in Activations
BY DEF Activations

LEMMA ResolveType ==
    ASSUME TypeOK, NEW k \in Kid
    PROVE  Resolve(k) \in Dict \cup {NoDict}
BY DEF TypeOK, Resolve, Kid

LEMMA NextKidType ==
    ASSUME TypeOK, AtKid
    PROVE  NextKid \in Dict \cup {NoDict}
<1>1. Top \in Activations
  BY StackTypes DEF TypeOK, AtKid, Top, Activations
<1>2. kids[Top.node] \in Seq(Kid) /\ Top.next \in 1..Len(kids[Top.node])
  BY <1>1, LenProperties DEF TypeOK, AtKid, Activations
<1>3. kids[Top.node][Top.next] \in Kid
  BY <1>2, ElementOfSeq
<1> QED
  BY <1>3, ResolveType DEF NextKid

LEMMA EnsureType ==
    ASSUME TypeOK, EnsurePageTree, DocsAssumption
    PROVE  /\ built' \in BOOLEAN
           /\ pageObjNums' \in Seq(ObjNum)
           /\ stack' \in Seq(Activations)
<1>1. CASE built
  BY <1>1 DEF EnsurePageTree, TypeOK, tree, Activations
<1>2. CASE ~built
  <2>1. \A d \in Dict : <<Activation(d)>> \in Seq(Activations)
    BY DEF Activation, Activations
  <2>2. stack' = <<>> \/ \E d \in Dict : stack' = <<Activation(d)>>
    BY <1>2 DEF EnsurePageTree
  <2> QED
    <3>1. built' = TRUE /\ pageObjNums' = <<>>
      BY <1>2 DEF EnsurePageTree
    <3>2. pageObjNums' \in Seq(ObjNum)
      BY <3>1, EmptySeq
    <3>3. <<>> \in Seq(Activations)
      BY EmptySeq
    <3>4. stack' \in Seq(Activations)
      BY <2>1, <2>2, <3>3, Zenon
    <3> QED
      BY <3>1, <3>2, <3>4
<1> QED
  BY <1>1, <1>2 DEF TypeOK

LEMMA InitType == DocsAssumption /\ Init => TypeOK
<1> SUFFICES ASSUME DocsAssumption, Init PROVE TypeOK
  OBVIOUS
<1>1. objNum \in [Dict -> ObjNum]
  BY DEF Init, NumberOf, DocsAssumption, NoDict
<1>2. doc \in Docs /\ objects = doc.objects /\ kids = doc.kids
  BY DEF Init
<1>3. /\ objects \in [ObjNum -> Dict \cup {NoDict}]
      /\ kids \in [Dict -> Seq(Kid)]
  BY <1>2 DEF DocsAssumption
<1>4. want \in [op : {"none", "pageCount", "getPage"}, index : Int]
  BY DEF Init, NoWant
<1>5. pageCache = [i \in {} |-> NoDict] /\ stack = <<>> /\ pageObjNums = <<>>
  BY DEF Init
<1>6. handle = "none" /\ built = FALSE
  BY DEF Init
<1> QED
  BY <1>1, <1>2, <1>3, <1>4, <1>5, <1>6, EmptySeq DEF TypeOK

LEMMA TypeStep ==
    ASSUME DocsAssumption, TypeOK, [Next]_vars
    PROVE  TypeOK'
<1> USE DEF TypeOK, NoWant
<1>1. CASE Load
  BY <1>1 DEF Load, tree
<1>2. ASSUME NEW w \in {Count} \cup {Page(i) : i \in Int}, Request(w)
      PROVE  TypeOK'
  BY <1>2, EnsureType DEF Request, Count, Page, Activations
<1>3. CASE PageLeaf
  <2>1. Top \in Activations /\ Callers \in Seq(Activations)
    BY <1>3, StackTypes DEF PageLeaf, Top, Callers, Activations
  <2>2. Append(pageObjNums, objNum[Top.node]) \in Seq(ObjNum)
    BY <2>1, AppendProperties DEF Activations
  <2> QED
    BY <1>3, <2>1, <2>2 DEF PageLeaf, Activations
<1>4. CASE SkipKid \/ EnterKid
  <2>1. Top \in Activations /\ Callers \in Seq(Activations)
    BY <1>4, StackTypes DEF SkipKid, EnterKid, AtKid, Top, Callers, Activations
  <2>2. [Top EXCEPT !.next = @ + 1] \in Activations
    BY <2>1, AdvancedType
  <2>3. Advanced \in Seq(Activations)
    BY <2>1, <2>2, AppendProperties DEF Advanced
  <2>4. CASE SkipKid
    BY <2>3, <2>4 DEF SkipKid, tree, Activations
  <2>5. CASE EnterKid
    <3>1. NextKid \in Dict
      BY <2>5, NextKidType DEF EnterKid
    <3>2. Activation(NextKid) \in Activations
      BY <3>1 DEF Activation, Activations
    <3>3. Append(Advanced, Activation(NextKid)) \in Seq(Activations)
      BY <2>3, <3>2, AppendProperties
    <3> QED
      BY <2>5, <3>3 DEF EnterKid, tree, Activations
  <2> QED
    BY <1>4, <2>4, <2>5
<1>5. CASE Overflow
  BY <1>5 DEF Overflow, tree
<1>6. CASE LeaveNode
  <2>1. Callers \in Seq(Activations)
    BY <1>6, StackTypes DEF LeaveNode, Callers, Activations
  <2> QED
    BY <1>6, <2>1 DEF LeaveNode, tree, Activations
<1>7. CASE ReturnCount \/ ReturnNoPage \/ ReturnCachedPage
  BY <1>7 DEF ReturnCount, ReturnNoPage, ReturnCachedPage, Finish, tree
<1>8. CASE ReturnLoadedPage
  <2>1. want.index + 1 \in 1..Len(pageObjNums) /\ want.index \in Nat
    BY <1>8, LenProperties DEF ReturnLoadedPage, ToLoad, InRange
  <2>2. pageObjNums[want.index + 1] \in ObjNum
    BY <2>1, ElementOfSeq
  <2>3. objects[pageObjNums[want.index + 1]] \in Dict \cup {NoDict}
    BY <2>2
  <2> QED
    BY <1>8, <2>1, <2>3 DEF ReturnLoadedPage, Cached, Finish, tree
<1>9. ASSUME NEW n \in Replaceable, NEW d \in Dict, ReplaceIndirectObject(n, d)
      PROVE  TypeOK'
  BY <1>9 DEF ReplaceIndirectObject, Holder!Put, DocsAssumption, tree
<1>10. ASSUME NEW n \in Replaceable, DeleteIndirectObject(n)
       PROVE  TypeOK'
  BY <1>10 DEF DeleteIndirectObject, Holder!Removed, Holder!Put, DocsAssumption, tree
<1>11. ASSUME NEW d \in Dict, NEW ks \in KidsEdits, EditKids(d, ks)
       PROVE  TypeOK'
  BY <1>11 DEF EditKids, DocsAssumption, tree
<1>12. CASE Close
  BY <1>12 DEF Close, Holder!Cleared, tree
<1>13. CASE UNCHANGED vars
  BY <1>13 DEF vars
<1>14. -1..MaxIndex \subseteq Int
  BY DEF DocsAssumption
<1> QED
  BY <1>1, <1>2, <1>3, <1>4, <1>5, <1>6, <1>7, <1>8, <1>9, <1>10, <1>11,
     <1>12, <1>13, <1>14 DEF Next, Work

(* Every state a document can reach is well typed, whatever its page tree, *)
(* circles included (pdf_document.dart).                                   *)
THEOREM DocumentTypeCorrect == Spec => []TypeOK
<1>1. Init => TypeOK
  BY InitType, DocsAssumption
<1>2. TypeOK /\ [Next]_vars => TypeOK'
  BY TypeStep, DocsAssumption
<1> QED
  BY <1>1, <1>2, PTL DEF Spec

LEMMA CountStep ==
    ASSUME [Next]_vars, built, stack = <<>>
    PROVE  UNCHANGED tree
BY DEF Next, Work, Load, Request, EnsurePageTree, PageLeaf, SkipKid, EnterKid,
       Overflow, LeaveNode, AtKid, ReturnCount, ReturnNoPage, ReturnCachedPage,
       ReturnLoadedPage, ReplaceIndirectObject, DeleteIndirectObject, EditKids,
       Close, tree, vars

(* Once the page list is there it is never touched again: not by edits of  *)
(* the page tree, of the objects, nor by close (pdf_document.dart:140-143, *)
(* 245-248).                                                               *)
THEOREM PageListIsFinal == Spec => CountNeverChanges
<1>1. [Next]_vars => [built /\ stack = <<>> => UNCHANGED tree]_vars
  BY CountStep
<1> QED
  BY <1>1, PTL DEF Spec, CountNeverChanges

LEMMA PagesStep ==
    ASSUME [Next]_vars, handle' = "open", NEW i \in DOMAIN pageCache
    PROVE  i \in DOMAIN pageCache' /\ pageCache'[i] = pageCache[i]
<1>1. CASE ReturnLoadedPage
  BY <1>1 DEF ReturnLoadedPage, Cached, ToLoad
<1>2. CASE ~ReturnLoadedPage
  BY <1>2 DEF Next, Work, Load, Request, PageLeaf, SkipKid, EnterKid, Overflow,
       LeaveNode, ReturnCount, ReturnNoPage, ReturnCachedPage,
       ReplaceIndirectObject, DeleteIndirectObject, EditKids, Close, vars
<1> QED
  BY <1>1, <1>2

(* Two requests for the same index of an open document give the same page, *)
(* whatever happens between them (pdf_document.dart:124-135).              *)
THEOREM PagesAreStable == Spec => PagesStay
<1>1. [Next]_vars => [handle' = "open" => \A i \in DOMAIN pageCache :
          i \in DOMAIN pageCache' /\ pageCache'[i] = pageCache[i]]_vars
  BY PagesStep
<1> QED
  BY <1>1, PTL DEF Spec, PagesStay

(* What close leaves of a document nobody edits afterwards.                *)
ClosedEmpty ==
    handle = "closed" /\ ~doc.edited =>
        /\ \A n \in ObjNum : objects[n] = NoDict
        /\ DOMAIN pageCache = {}

LEMMA ClosedStep ==
    ASSUME TypeOK, ClosedEmpty, [Next]_vars
    PROVE  ClosedEmpty'
<1>1. CASE Load
  BY <1>1 DEF Load, ClosedEmpty
<1>2. CASE ReturnLoadedPage
  <2>1. want.index + 1 \in 1..Len(pageObjNums)
    BY <1>2, LenProperties DEF ReturnLoadedPage, ToLoad, InRange, TypeOK
  <2>2. pageObjNums[want.index + 1] \in ObjNum
    BY <2>1, ElementOfSeq DEF TypeOK
  <2> QED
    BY <1>2, <2>2 DEF ReturnLoadedPage, Cached, ClosedEmpty
<1>3. ASSUME NEW n \in Replaceable, NEW d \in Dict, ReplaceIndirectObject(n, d)
      PROVE  ClosedEmpty'
  BY <1>3 DEF ReplaceIndirectObject, ClosedEmpty
<1>4. ASSUME NEW n \in Replaceable, DeleteIndirectObject(n)
      PROVE  ClosedEmpty'
  BY <1>4 DEF DeleteIndirectObject, ClosedEmpty
<1>5. CASE Close
  BY <1>5 DEF Close, Holder!Cleared, ClosedEmpty
<1>6. CASE UNCHANGED <<doc, handle, objects, pageCache>>
  BY <1>6 DEF ClosedEmpty
<1> QED
  BY <1>1, <1>2, <1>3, <1>4, <1>5, <1>6
  DEF Next, Work, Request, PageLeaf, SkipKid, EnterKid, Overflow, LeaveNode,
      ReturnCount, ReturnNoPage, ReturnCachedPage, EditKids, vars

LEMMA NoPageStep ==
    ASSUME TypeOK, ClosedEmpty, [Next]_vars,
           handle = "closed", ~doc.edited, answer' # answer, answer'.op = "getPage"
    PROVE  answer'.value = NoDict
<1>1. \/ Overflow \/ ReturnCount \/ ReturnNoPage \/ ReturnCachedPage
      \/ ReturnLoadedPage
  BY DEF Next, Work, Load, Request, PageLeaf, SkipKid, EnterKid, LeaveNode,
         ReplaceIndirectObject, DeleteIndirectObject, EditKids, Close, vars
<1>2. CASE Overflow \/ ReturnCount
  BY <1>2 DEF Overflow, ReturnCount, Returning, Finish, Answer
<1>3. CASE ReturnNoPage
  BY <1>3 DEF ReturnNoPage, Finish, Answer
<1>4. CASE ReturnCachedPage
  BY <1>4 DEF ReturnCachedPage, ClosedEmpty
<1>5. CASE ReturnLoadedPage
  <2>1. want.index + 1 \in 1..Len(pageObjNums)
    BY <1>5, LenProperties DEF ReturnLoadedPage, ToLoad, InRange, TypeOK
  <2>2. pageObjNums[want.index + 1] \in ObjNum
    BY <2>1, ElementOfSeq DEF TypeOK
  <2> QED
    BY <1>5, <2>2 DEF ReturnLoadedPage, Finish, Answer, ClosedEmpty
<1> QED
  BY <1>1, <1>2, <1>3, <1>4, <1>5

(* A closed document hands out no page, neither one it had cached nor one  *)
(* whose number is still on its list, unless somebody puts objects into it *)
(* again (pdf_document.dart:116-136, 262-266).                             *)
THEOREM ClosedHasNoPages == Spec => NoPageAfterClose
<1> DEFINE Inv == TypeOK /\ ClosedEmpty
<1>1. Init => Inv
  BY InitType, DocsAssumption DEF Init, ClosedEmpty
<1>2. Inv /\ [Next]_vars => Inv'
  BY TypeStep, ClosedStep, DocsAssumption
<1>3. Inv /\ [Next]_vars =>
        [handle = "closed" /\ ~doc.edited /\ answer' # answer /\ answer'.op = "getPage"
            => answer'.value = NoDict]_vars
  BY NoPageStep
<1> QED
  BY <1>1, <1>2, <1>3, PTL DEF Spec, NoPageAfterClose

-----------------------------------------------------------------------------
(* A set of numbers that is not empty has a least one.                     *)
LEMMA LeastNumber ==
    ASSUME NEW S, S \subseteq Nat, S # {}
    PROVE  \E m \in S : \A k \in S : m <= k
<1>1. PICK m \in S : \A k \in S : <<k, m>> \notin OpToRel(<, Nat)
  BY WFMin, NatLessThanWellFounded, Zenon
<1>2. \A k \in S : ~(k < m)
  BY <1>1 DEF OpToRel
<1>3. ASSUME NEW k \in S
      PROVE  m <= k
  <2>1. m \in Nat /\ k \in Nat /\ ~(k < m)
    BY <1>2
  <2> QED
    BY <2>1
<1> QED
  BY <1>3

-----------------------------------------------------------------------------
(* FlattenSeq: the function it is defined by exists, and adds one element  *)
(* after the other.                                                        *)

JoinedBy(s, n, g) == [i \in 1 .. n |-> IF i = 1 THEN s[i] ELSE g[i - 1] \o s[i]]
Joined(s) == CHOOSE g : g = JoinedBy(s, Len(s), g)
Upto(s, n) == IF n = 0 THEN <<>> ELSE Joined(s)[n]

LEMMA JoinedExists ==
    ASSUME NEW s, NEW n \in Nat \ {0}
    PROVE  \E g : g = JoinedBy(s, n, g)
<1> DEFINE Failing == {m \in Nat \ {0} : ~ \E g : g = JoinedBy(s, m, g)}
<1> SUFFICES ASSUME Failing # {} PROVE FALSE
  OBVIOUS
<1>1. PICK m \in Failing : \A k \in Failing : m <= k
  BY LeastNumber
<1>2. m \in Nat \ {0} /\ ~ \E g : g = JoinedBy(s, m, g)
  OBVIOUS
<1>3. CASE m = 1
  <2> DEFINE g == [i \in 1 .. 1 |-> s[i]]
  <2>1. g = JoinedBy(s, 1, g)
    BY DEF JoinedBy
  <2> QED
    BY <1>2, <1>3, <2>1
<1>4. CASE m # 1
  <2>1. m - 1 \in Nat \ {0} /\ m - 1 \notin Failing
    BY <1>1, <1>2, <1>4
  <2>2. PICK g : g = JoinedBy(s, m - 1, g)
    BY <2>1
  <2> DEFINE h == [i \in 1 .. m |-> IF i = m THEN g[m - 1] \o s[m] ELSE g[i]]
  <2>3. ASSUME NEW i \in 1 .. m
        PROVE  h[i] = IF i = 1 THEN s[i] ELSE h[i - 1] \o s[i]
    <3>1. CASE i = m
      <4>1. h[m] = g[m - 1] \o s[m] /\ h[m - 1] = g[m - 1]
        <5>1. m \in 1 .. m /\ m - 1 \in 1 .. m /\ m - 1 # m
          BY <1>2, <2>1
        <5> QED
          BY <5>1
      <4> QED
        BY <1>4, <3>1, <4>1
    <3>2. CASE i # m
      <4>1. i \in 1 .. m - 1
        BY <1>2, <3>2
      <4>2. g[i] = IF i = 1 THEN s[i] ELSE g[i - 1] \o s[i]
        BY <2>2, <4>1 DEF JoinedBy
      <4>3. h[i] = g[i]
        BY <3>2
      <4>4. i # 1 => h[i - 1] = g[i - 1]
        BY <4>1, <1>2
      <4> QED
        BY <4>2, <4>3, <4>4
    <3> QED
      BY <3>1, <3>2
  <2>4. h = JoinedBy(s, m, h)
    <3>1. DOMAIN h = 1 .. m
      OBVIOUS
    <3> HIDE DEF h
    <3>2. JoinedBy(s, m, h) = [i \in 1 .. m |-> h[i]]
      BY <2>3 DEF JoinedBy
    <3>3. h = [i \in 1 .. m |-> h[i]]
      BY <3>1 DEF h
    <3> QED
      BY <3>2, <3>3
  <2> QED
    BY <1>2, <2>4
<1> QED
  BY <1>3, <1>4

LEMMA JoinedIs ==
    ASSUME NEW s, Len(s) \in Nat \ {0}
    PROVE  Joined(s) = JoinedBy(s, Len(s), Joined(s))
BY JoinedExists DEF Joined

LEMMA JoinedElements ==
    ASSUME NEW s, Len(s) \in Nat \ {0}, NEW i \in 1 .. Len(s)
    PROVE  Joined(s)[i] = IF i = 1 THEN s[i] ELSE Joined(s)[i - 1] \o s[i]
<1> DEFINE g == Joined(s)
<1>1. g = JoinedBy(s, Len(s), g)
  BY JoinedIs
<1> HIDE DEF g
<1>2. g[i] = JoinedBy(s, Len(s), g)[i]
  BY <1>1
<1>3. g[i] = IF i = 1 THEN s[i] ELSE g[i - 1] \o s[i]
  BY <1>2 DEF JoinedBy
<1> QED
  BY <1>3 DEF g

LEMMA JoinedTypes ==
    ASSUME NEW D, NEW s \in Seq(Seq(D)), NEW n \in 1 .. Len(s)
    PROVE  Joined(s)[n] \in Seq(D)
<1> DEFINE Failing == {m \in 1 .. Len(s) : Joined(s)[m] \notin Seq(D)}
<1> SUFFICES ASSUME Failing # {} PROVE FALSE
  OBVIOUS
<1>1. Len(s) \in Nat \ {0} /\ \A i \in 1 .. Len(s) : s[i] \in Seq(D)
  BY LenProperties, ElementOfSeq
<1>2. PICK m \in Failing : \A k \in Failing : m <= k
  <2>1. Failing \subseteq Nat
    BY <1>1
  <2> QED
    BY <2>1, LeastNumber
<1>3. m \in 1 .. Len(s) /\ Joined(s)[m] \notin Seq(D)
  OBVIOUS
<1>4. Joined(s)[m] = IF m = 1 THEN s[m] ELSE Joined(s)[m - 1] \o s[m]
  BY <1>1, <1>3, JoinedElements
<1>5. CASE m = 1
  BY <1>1, <1>3, <1>4, <1>5
<1>6. CASE m # 1
  <2>1. m - 1 \in 1 .. Len(s) /\ m - 1 < m
    BY <1>1, <1>3, <1>6
  <2>2. Joined(s)[m - 1] \in Seq(D)
    BY <1>1, <1>2, <2>1
  <2> QED
    BY <1>1, <1>3, <1>4, <1>6, <2>2, ConcatProperties
<1> QED
  BY <1>5, <1>6

(* What the first elements give, and what all of them.                     *)
LEMMA UptoProperties ==
    ASSUME NEW D, NEW s \in Seq(Seq(D))
    PROVE  /\ Upto(s, 0) = <<>>
           /\ \A n \in 0 .. Len(s) : Upto(s, n) \in Seq(D)
           /\ \A n \in 1 .. Len(s) : Upto(s, n) = Upto(s, n - 1) \o s[n]
           /\ FlattenSeq(s) = Upto(s, Len(s))
<1>1. Len(s) \in Nat /\ \A i \in 1 .. Len(s) : s[i] \in Seq(D)
  BY LenProperties, ElementOfSeq
<1>2. ASSUME NEW n \in 0 .. Len(s) PROVE Upto(s, n) \in Seq(D)
  BY <1>1, JoinedTypes, EmptySeq DEF Upto
<1>3. ASSUME NEW n \in 1 .. Len(s) PROVE Upto(s, n) = Upto(s, n - 1) \o s[n]
  <2>1. Len(s) \in Nat \ {0}
    BY <1>1
  <2>2. Joined(s)[n] = IF n = 1 THEN s[n] ELSE Joined(s)[n - 1] \o s[n]
    BY <2>1, JoinedElements
  <2>3. CASE n = 1
    BY <1>1, <2>2, <2>3, ConcatEmptySeq DEF Upto
  <2>4. CASE n # 1
    <3>1. n # 0 /\ n - 1 # 0
      BY <1>1, <2>4
    <3> QED
      BY <2>2, <2>4, <3>1 DEF Upto
  <2> QED
    BY <2>3, <2>4
<1>4. FlattenSeq(s) = Upto(s, Len(s))
  <2>1. CASE Len(s) = 0
    <3>1. s = <<>>
      BY <2>1, EmptySeq
    <3> QED
      BY <2>1, <3>1 DEF FlattenSeq, Upto
  <2>2. CASE Len(s) # 0
    <3>1. FlattenSeq(s) = Joined(s)[Len(s)]
      BY <2>2 DEF FlattenSeq, Joined, JoinedBy
    <3>2. Upto(s, Len(s)) = Joined(s)[Len(s)]
      BY <2>2 DEF Upto
    <3> QED
      BY <3>1, <3>2
  <2> QED
    BY <2>1, <2>2
<1> QED
  BY <1>2, <1>3, <1>4 DEF Upto

-----------------------------------------------------------------------------
(* The leaves of a page tree, level by level.                              *)

Child(f, k) == IF k.num # 0 THEN f.objects[k.num] ELSE k.dict
KidLeaves(f, leaves, d) ==
    [i \in 1 .. Len(f.kids[d]) |->
        LET c == Child(f, f.kids[d][i]) IN IF c = NoDict THEN <<>> ELSE leaves[c]]
NodeLeaves(f, h, leaves, d) ==
    IF f.kind[d] = "Page" THEN <<d>>
    ELSE IF f.kind[d] = "Pages" /\ h > 0 THEN FlattenSeq(KidLeaves(f, leaves, d))
    ELSE <<>>
LevelsBy(f, n, g) == [h \in 0 .. n |-> [d \in Dict |-> NodeLeaves(f, h, g[h - 1], d)]]
Levels(f) == CHOOSE g : g = LevelsBy(f, MaxDepth, g)

LEMMA LeavesAreLevels ==
    ASSUME NEW f
    PROVE  Leaves(f) = IF f.objects[f.pages] = NoDict THEN <<>>
                       ELSE Levels(f)[MaxDepth][f.objects[f.pages]]
BY DEF Leaves, Levels, LevelsBy, NodeLeaves, KidLeaves, Child

LEMMA LevelsExist ==
    ASSUME NEW f, NEW n \in Nat
    PROVE  \E g : g = LevelsBy(f, n, g)
<1> DEFINE Failing == {m \in Nat : ~ \E g : g = LevelsBy(f, m, g)}
<1> SUFFICES ASSUME Failing # {} PROVE FALSE
  OBVIOUS
<1>1. PICK m \in Failing : \A k \in Failing : m <= k
  BY LeastNumber
<1>2. m \in Nat /\ ~ \E g : g = LevelsBy(f, m, g)
  OBVIOUS
<1>3. PICK l : m > 0 => l = LevelsBy(f, m - 1, l)
  <2>1. CASE m > 0
    <3>1. m - 1 \in Nat /\ m - 1 \notin Failing
      BY <1>1, <1>2, <2>1
    <3> QED
      BY <3>1
  <2> QED
    BY <2>1
<1> DEFINE last == [d \in Dict |-> NodeLeaves(f, m, l[m - 1], d)]
           h == [i \in 0 .. m |-> IF i = m THEN last ELSE l[i]]
<1>4. ASSUME NEW i \in 0 .. m
      PROVE  h[i] = [d \in Dict |-> NodeLeaves(f, i, h[i - 1], d)]
  <2>1. CASE i = 0
    <3>1. \A a, b : [d \in Dict |-> NodeLeaves(f, 0, a, d)] = [d \in Dict |-> NodeLeaves(f, 0, b, d)]
      BY DEF NodeLeaves
    <3>2. h[0] = [d \in Dict |-> NodeLeaves(f, 0, l[0 - 1], d)]
      <4>1. CASE m = 0
        BY <4>1
      <4>2. CASE m > 0
        <5>1. l[0] = [d \in Dict |-> NodeLeaves(f, 0, l[0 - 1], d)]
          BY <1>2, <1>3, <4>2 DEF LevelsBy
        <5>2. h[0] = l[0]
          BY <1>2, <4>2
        <5> QED
          BY <5>1, <5>2
      <4> QED
        BY <1>2, <4>1, <4>2
    <3> HIDE DEF h
    <3> QED
      BY <2>1, <3>1, <3>2
  <2>2. CASE i # 0 /\ i = m
    <3>1. i \in 0 .. m /\ i - 1 \in 0 .. m /\ i - 1 # m
      BY <1>2, <2>2
    <3>2. h[i] = last /\ h[i - 1] = l[m - 1]
      BY <2>2, <3>1
    <3> HIDE DEF h
    <3> QED
      BY <2>2, <3>2
  <2>3. CASE i # 0 /\ i # m
    <3>1. /\ i \in 0 .. m - 1 /\ i - 1 \in 0 .. m - 1 /\ m > 0
          /\ i - 1 \in 0 .. m /\ i - 1 # m
      BY <1>2, <2>3
    <3>2. l[i] = [d \in Dict |-> NodeLeaves(f, i, l[i - 1], d)]
      BY <1>3, <3>1 DEF LevelsBy
    <3>3. h[i] = l[i] /\ h[i - 1] = l[i - 1]
      BY <2>3, <3>1
    <3> HIDE DEF h
    <3> QED
      BY <3>2, <3>3
  <2> QED
    BY <2>1, <2>2, <2>3
<1>5. h = LevelsBy(f, m, h)
  <2>1. DOMAIN h = 0 .. m
    OBVIOUS
  <2>2. h = [i \in 0 .. m |-> h[i]]
    OBVIOUS
  <2> HIDE DEF h
  <2>3. LevelsBy(f, m, h) = [i \in 0 .. m |-> h[i]]
    BY <1>4 DEF LevelsBy
  <2> QED
    BY <2>2, <2>3
<1> QED
  BY <1>2, <1>5

LEMMA LevelIs ==
    ASSUME NEW f, MaxDepth \in Nat, NEW h \in 0 .. MaxDepth, NEW d \in Dict
    PROVE  Levels(f)[h][d] = NodeLeaves(f, h, Levels(f)[h - 1], d)
<1> DEFINE g == Levels(f)
<1>1. g = LevelsBy(f, MaxDepth, g)
  BY LevelsExist DEF Levels
<1> HIDE DEF g
<1>2. g[h] = LevelsBy(f, MaxDepth, g)[h]
  BY <1>1
<1>3. g[h] = [e \in Dict |-> NodeLeaves(f, h, g[h - 1], e)]
  BY <1>2 DEF LevelsBy
<1>4. g[h][d] = NodeLeaves(f, h, g[h - 1], d)
  BY <1>3
<1> QED
  BY <1>4 DEF g

(* A document's constants, as far as the page tree reads them.             *)
Document(f) ==
    /\ f.pages \in ObjNum
    /\ f.objects \in [ObjNum -> Dict \cup {NoDict}]
    /\ f.kind \in [Dict -> {"Pages", "Page", "other"}]
    /\ f.kids \in [Dict -> Seq(Kid)]

LEMMA ChildType ==
    ASSUME NEW f, Document(f), NEW d \in Dict, NEW i \in 1 .. Len(f.kids[d])
    PROVE  f.kids[d][i] \in Kid /\ Child(f, f.kids[d][i]) \in Dict \cup {NoDict}
<1>1. f.kids[d] \in Seq(Kid)
  BY DEF Document
<1>2. f.kids[d][i] \in Kid
  BY <1>1, ElementOfSeq
<1> QED
  BY <1>2 DEF Child, Kid, Document

LEMMA KidLeavesType ==
    ASSUME NEW f, Document(f), NEW d \in Dict, NEW leaves,
           \A c \in Dict : leaves[c] \in Seq(Dict)
    PROVE  /\ KidLeaves(f, leaves, d) \in Seq(Seq(Dict))
           /\ Len(KidLeaves(f, leaves, d)) = Len(f.kids[d])
<1>1. Len(f.kids[d]) \in Nat
  BY LenProperties DEF Document
<1>2. \A i \in 1 .. Len(f.kids[d]) : KidLeaves(f, leaves, d)[i] \in Seq(Dict)
  BY ChildType, EmptySeq DEF KidLeaves
<1>3. KidLeaves(f, leaves, d) \in [1 .. Len(f.kids[d]) -> Seq(Dict)]
  BY <1>2 DEF KidLeaves
<1> QED
  BY <1>1, <1>3, SeqDef, LenProperties

LEMMA LevelsType ==
    ASSUME NEW f, Document(f), MaxDepth \in Nat, NEW h \in 0 .. MaxDepth, NEW d \in Dict
    PROVE  Levels(f)[h][d] \in Seq(Dict)
<1> DEFINE Failing == {m \in 0 .. MaxDepth : \E c \in Dict : Levels(f)[m][c] \notin Seq(Dict)}
<1> SUFFICES ASSUME Failing # {} PROVE FALSE
  OBVIOUS
<1>1. PICK m \in Failing : \A k \in Failing : m <= k
  <2>1. Failing \subseteq Nat
    OBVIOUS
  <2> QED
    BY <2>1, LeastNumber
<1>2. m \in 0 .. MaxDepth
  OBVIOUS
<1>3. PICK c \in Dict : Levels(f)[m][c] \notin Seq(Dict)
  OBVIOUS
<1>4. Levels(f)[m][c] = NodeLeaves(f, m, Levels(f)[m - 1], c)
  BY <1>2, LevelIs
<1>5. <<c>> \in Seq(Dict) /\ <<>> \in Seq(Dict)
  OBVIOUS
<1>6. CASE f.kind[c] = "Pages" /\ m > 0
  <2>1. m - 1 \in 0 .. MaxDepth /\ m - 1 < m
    BY <1>2, <1>6
  <2>2. \A e \in Dict : Levels(f)[m - 1][e] \in Seq(Dict)
    BY <1>1, <1>2, <2>1
  <2> DEFINE s == KidLeaves(f, Levels(f)[m - 1], c)
  <2>3. s \in Seq(Seq(Dict))
    BY <2>2, KidLeavesType
  <2> HIDE DEF s
  <2>4. FlattenSeq(s) \in Seq(Dict)
    <3>1. Len(s) \in 0 .. Len(s)
      BY <2>3, LenProperties
    <3> QED
      BY <2>3, <3>1, UptoProperties
  <2> QED
    BY <1>3, <1>4, <1>6, <2>4 DEF NodeLeaves, s
<1>7. CASE ~(f.kind[c] = "Pages" /\ m > 0)
  BY <1>3, <1>4, <1>5, <1>7 DEF NodeLeaves
<1> QED
  BY <1>6, <1>7

-----------------------------------------------------------------------------
(* The walk: what an activation found so far are the leaves of the kids it *)
(* is done with.                                                           *)

(* Leaves of the kids of a node the i-th activation stands at, up to the   *)
(* n-th.                                                                   *)
KidsFound(f, i, d) == KidLeaves(f, Levels(f)[MaxDepth - i], d)
Found(f, i, d, n) == Upto(KidsFound(f, i, d), n)

LEMMA FoundProperties ==
    ASSUME NEW f, Document(f), MaxDepth \in Nat, NEW i \in 1 .. MaxDepth, NEW d \in Dict
    PROVE  /\ Len(f.kids[d]) \in Nat
           /\ Found(f, i, d, 0) = <<>>
           /\ \A n \in 0 .. Len(f.kids[d]) : Found(f, i, d, n) \in Seq(Dict)
           /\ \A n \in 1 .. Len(f.kids[d]) :
                 Found(f, i, d, n) = Found(f, i, d, n - 1) \o KidsFound(f, i, d)[n]
           /\ Levels(f)[MaxDepth - i + 1][d] =
                 IF f.kind[d] = "Page" THEN <<d>>
                 ELSE IF f.kind[d] = "Pages" THEN Found(f, i, d, Len(f.kids[d]))
                 ELSE <<>>
<1> DEFINE leaves == Levels(f)[MaxDepth - i]
           s == KidsFound(f, i, d)
<1>1. MaxDepth - i \in 0 .. MaxDepth /\ MaxDepth - i + 1 \in 0 .. MaxDepth
  OBVIOUS
<1>2. \A c \in Dict : leaves[c] \in Seq(Dict)
  BY <1>1, LevelsType
<1>3. Len(f.kids[d]) \in Nat
  BY LenProperties DEF Document
<1> HIDE DEF leaves
<1>4. s = KidLeaves(f, leaves, d)
  BY DEF KidsFound, leaves
<1>5. s \in Seq(Seq(Dict)) /\ Len(s) = Len(f.kids[d])
  BY <1>2, <1>4, KidLeavesType
<1> HIDE DEF s
<1>8. /\ Upto(s, 0) = <<>>
      /\ \A n \in 0 .. Len(f.kids[d]) : Upto(s, n) \in Seq(Dict)
      /\ \A n \in 1 .. Len(f.kids[d]) : Upto(s, n) = Upto(s, n - 1) \o s[n]
      /\ FlattenSeq(s) = Upto(s, Len(f.kids[d]))
  BY <1>5, UptoProperties
<1>9. \A n : Found(f, i, d, n) = Upto(s, n)
  BY DEF Found, s
<1>10. Levels(f)[MaxDepth - i + 1][d] = NodeLeaves(f, MaxDepth - i + 1, leaves, d)
  <2>1. MaxDepth - i + 1 - 1 = MaxDepth - i
    OBVIOUS
  <2>2. Levels(f)[MaxDepth - i + 1][d]
          = NodeLeaves(f, MaxDepth - i + 1, Levels(f)[MaxDepth - i + 1 - 1], d)
    BY <1>1, LevelIs
  <2> QED
    BY <2>1, <2>2 DEF leaves
<1>11. MaxDepth - i + 1 > 0
  OBVIOUS
<1>12. Levels(f)[MaxDepth - i + 1][d] =
                 IF f.kind[d] = "Page" THEN <<d>>
                 ELSE IF f.kind[d] = "Pages" THEN Found(f, i, d, Len(f.kids[d]))
                 ELSE <<>>
  BY <1>4, <1>8, <1>9, <1>10, <1>11 DEF NodeLeaves
<1>13. \A n \in 1 .. Len(f.kids[d]) :
          Found(f, i, d, n) = Found(f, i, d, n - 1) \o KidsFound(f, i, d)[n]
  BY <1>8, <1>9 DEF s
<1> QED
  BY <1>3, <1>8, <1>9, <1>12, <1>13

LEMMA FoundKid ==
    ASSUME NEW f, Document(f), MaxDepth \in Nat, NEW i \in 1 .. MaxDepth, NEW d \in Dict,
           NEW n \in 1 .. Len(f.kids[d])
    PROVE  Found(f, i, d, n) = Found(f, i, d, n - 1) \o
              (IF Child(f, f.kids[d][n]) = NoDict THEN <<>>
               ELSE Levels(f)[MaxDepth - i][Child(f, f.kids[d][n])])
<1>1. KidsFound(f, i, d)[n] = IF Child(f, f.kids[d][n]) = NoDict THEN <<>>
                              ELSE Levels(f)[MaxDepth - i][Child(f, f.kids[d][n])]
  BY DEF KidsFound, KidLeaves
<1>2. Found(f, i, d, n) = Found(f, i, d, n - 1) \o KidsFound(f, i, d)[n]
  BY FoundProperties
<1> QED
  BY <1>1, <1>2

Starts(s) == [1 .. Len(s) -> Seq(Dict)]

(* An activation that called another has done the kids before that one;    *)
(* before[i] is what was on the list when the i-th activation began.       *)
Calls(f, s, before) ==
    \A i \in 1 .. Len(s) - 1 :
        LET d == s[i].node
            n == s[i].next
        IN  /\ f.kind[d] = "Pages"
            /\ n \in 2 .. Len(f.kids[d]) + 1
            /\ s[i + 1].node = Child(f, f.kids[d][n - 1])
            /\ before[i + 1] = before[i] \o Found(f, i, d, n - 2)

(* The innermost has done those before its next kid.                       *)
Innermost(f, s, before, pages) ==
    LET d == s[Len(s)].node
        n == s[Len(s)].next
    IN  /\ n \in 1 .. Len(f.kids[d]) + 1
        /\ f.kind[d] # "Pages" => n = 1
        /\ pages = before[Len(s)] \o Found(f, Len(s), d, n - 1)

Walk(f, s, before, pages) ==
    /\ s \in Seq(Activations) /\ Len(s) \in 1 .. MaxDepth
    /\ before \in Starts(s) /\ before[1] = <<>>
    /\ s[1].node = f.objects[f.pages]
    /\ pages \in Seq(Dict)
    /\ Calls(f, s, before) /\ Innermost(f, s, before, pages)

LEMMA WalkBegins ==
    ASSUME NEW f, Document(f), MaxDepth \in Nat \ {0},
           f.objects[f.pages] \in Dict
    PROVE  Walk(f, <<Activation(f.objects[f.pages])>>, <<<<>>>>, <<>>)
<1> DEFINE d == f.objects[f.pages]
           s == <<Activation(d)>>
           before == << <<>> >>
<1>1. s \in Seq(Activations) /\ Len(s) = 1 /\ s[1].node = d /\ s[1].next = 1
  BY DEF Activation, Activations
<1>2. <<>> \in Seq(Dict) /\ before[1] = <<>> /\ before = [i \in 1 .. 1 |-> <<>>]
  BY EmptySeq
<1>3. Found(f, 1, d, 0) = <<>> /\ Len(f.kids[d]) \in Nat
  <2>1. 1 \in 1 .. MaxDepth /\ MaxDepth \in Nat /\ d \in Dict
    OBVIOUS
  <2> HIDE DEF d
  <2> QED
    BY <2>1, FoundProperties
<1>4. <<>> = <<>> \o <<>>
  BY ConcatEmptySeq, <1>2
<1>5. Calls(f, s, before)
  <2> HIDE DEF s, before
  <2>1. 1 .. Len(s) - 1 = {}
    BY <1>1
  <2> QED
    BY <2>1 DEF Calls
<1>6. Innermost(f, s, before, <<>>)
  <2> HIDE DEF s, before, d
  <2>1. s[Len(s)].node = d /\ s[Len(s)].next = 1 /\ before[Len(s)] = <<>>
    BY <1>1, <1>2
  <2>2. 1 \in 1 .. Len(f.kids[d]) + 1 /\ 1 - 1 = 0
    BY <1>3
  <2>3. <<>> = before[Len(s)] \o Found(f, Len(s), d, 0)
    BY <1>1, <1>3, <1>4, <2>1
  <2> QED
    BY <2>1, <2>2, <2>3 DEF Innermost
<1> HIDE DEF s, before
<1>7. Len(s) \in 1 .. MaxDepth
  BY <1>1
<1>8. before \in Starts(s)
  BY <1>1, <1>2 DEF Starts
<1>9. Walk(f, s, before, <<>>)
  BY <1>1, <1>2, <1>5, <1>6, <1>7, <1>8 DEF Walk
<1> QED
  BY <1>9 DEF s, before

LEMMA StackParts ==
    ASSUME NEW s \in Seq(Activations), s # <<>>
    PROVE  LET c == SubSeq(s, 1, Len(s) - 1)
           IN /\ Len(s) \in Nat \ {0} /\ c \in Seq(Activations) /\ Len(c) = Len(s) - 1
              /\ \A i \in 1 .. Len(s) - 1 : c[i] = s[i]
              /\ \A i \in 1 .. Len(s) : s[i] \in Activations
              /\ \A a \in Activations :
                    /\ Append(c, a) \in Seq(Activations) /\ Len(Append(c, a)) = Len(s)
                    /\ Append(c, a)[Len(s)] = a
                    /\ \A i \in 1 .. Len(s) - 1 : Append(c, a)[i] = s[i]
<1> DEFINE c == SubSeq(s, 1, Len(s) - 1)
<1>1. Len(s) \in Nat \ {0} /\ \A i \in 1 .. Len(s) : s[i] \in Activations
  BY EmptySeq, ElementOfSeq
<1>2. PICK m \in Nat : m = Len(s) - 1
  BY <1>1
<1>3. /\ SubSeq(s, 1, m) \in Seq(Activations)
      /\ Len(SubSeq(s, 1, m)) = IF 1 <= m THEN m - 1 + 1 ELSE 0
      /\ \A i \in 1 .. m - 1 + 1 : SubSeq(s, 1, m)[i] = s[1 + i - 1]
  BY <1>1, <1>2, SubSeqProperties
<1>4. c \in Seq(Activations) /\ Len(c) = Len(s) - 1 /\ \A i \in 1 .. Len(s) - 1 : c[i] = s[i]
  BY <1>1, <1>2, <1>3
<1> HIDE DEF c
<1>5. \A a \in Activations :
                    /\ Append(c, a) \in Seq(Activations) /\ Len(Append(c, a)) = Len(s)
                    /\ Append(c, a)[Len(s)] = a
                    /\ \A i \in 1 .. Len(s) - 1 : Append(c, a)[i] = s[i]
  BY <1>1, <1>4, AppendProperties
<1> QED
  BY <1>1, <1>4, <1>5 DEF c

(* The innermost stands at a kid, and goes on to the next one.             *)
AtKidOf(f, s, d, n) ==
    /\ d = s[Len(s)].node /\ f.kind[d] = "Pages"
    /\ n = s[Len(s)].next /\ n <= Len(f.kids[d])
OneOn(s) == Append(SubSeq(s, 1, Len(s) - 1), [s[Len(s)] EXCEPT !.next = @ + 1])

LEMMA InnermostAt ==
    ASSUME NEW f, NEW s, NEW before, NEW pages, NEW l, NEW d, NEW n,
           Len(s) = l, s[Len(s)].node = d, s[Len(s)].next = n,
           n \in 1 .. Len(f.kids[d]) + 1, f.kind[d] = "Pages",
           pages = before[l] \o Found(f, l, d, n - 1)
    PROVE  Innermost(f, s, before, pages)
BY DEF Innermost

(* A kid that is no dictionary has no leaves.                              *)
LEMMA WalkSkips ==
    ASSUME NEW f, Document(f), MaxDepth \in Nat \ {0},
           NEW s, NEW before, NEW pages, Walk(f, s, before, pages),
           NEW d, NEW n, AtKidOf(f, s, d, n),
           Child(f, f.kids[d][n]) = NoDict
    PROVE  Walk(f, OneOn(s), before, pages)
<1> DEFINE t == OneOn(s)
           a == [s[Len(s)] EXCEPT !.next = @ + 1]
<1>1. s \in Seq(Activations) /\ s # <<>> /\ Len(s) \in 1 .. MaxDepth
  BY EmptySeq DEF Walk
<1>2. s[Len(s)] \in Activations
  BY <1>1, StackParts
<1>3. a \in Activations /\ a.node = d /\ a.next = n + 1 /\ d \in Dict /\ n \in Nat \ {0}
  BY <1>2 DEF Activations, AtKidOf
<1> HIDE DEF a, t
<1>4. /\ t \in Seq(Activations) /\ Len(t) = Len(s) /\ t[Len(s)] = a
      /\ \A i \in 1 .. Len(s) - 1 : t[i] = s[i]
  BY <1>1, <1>3, StackParts DEF a, t, OneOn
<1>5. /\ n \in 1 .. Len(f.kids[d]) /\ Len(f.kids[d]) \in Nat
      /\ Found(f, Len(s), d, n) = Found(f, Len(s), d, n - 1) \o <<>>
      /\ Found(f, Len(s), d, n - 1) \in Seq(Dict)
  <2>1. Len(f.kids[d]) \in Nat
    BY <1>1, <1>3, FoundProperties
  <2>2. n \in 1 .. Len(f.kids[d]) /\ n - 1 \in 0 .. Len(f.kids[d])
    BY <1>3, <2>1 DEF AtKidOf
  <2> QED
    <3>1. Found(f, Len(s), d, n) = Found(f, Len(s), d, n - 1) \o <<>>
      BY <1>1, <1>3, <2>2, FoundKid
    <3> QED
      BY <1>1, <1>3, <2>1, <2>2, <3>1, FoundProperties
<1>6. Found(f, Len(s), d, n) = Found(f, Len(s), d, n - 1)
  BY <1>5, ConcatEmptySeq
<1>7. \A i \in 1 .. Len(s) : t[i].node = s[i].node
  BY <1>1, <1>3, <1>4 DEF AtKidOf
<1>8. Calls(f, t, before)
  <2> SUFFICES ASSUME NEW i \in 1 .. Len(s) - 1
               PROVE  /\ f.kind[t[i].node] = "Pages"
                      /\ t[i].next \in 2 .. Len(f.kids[t[i].node]) + 1
                      /\ t[i + 1].node = Child(f, f.kids[t[i].node][t[i].next - 1])
                      /\ before[i + 1] = before[i] \o Found(f, i, t[i].node, t[i].next - 2)
    BY <1>4 DEF Calls
  <2>1. t[i] = s[i] /\ t[i + 1].node = s[i + 1].node
    BY <1>1, <1>4, <1>7
  <2> QED
    BY <2>1 DEF Walk, Calls
<1>9. Innermost(f, t, before, pages)
  <2>1. PICK k : k = n + 1
    OBVIOUS
  <2>2. k \in 1 .. Len(f.kids[d]) + 1 /\ k - 1 = n
    BY <1>3, <1>5, <2>1
  <2>3. pages = before[Len(s)] \o Found(f, Len(s), d, n - 1)
    BY DEF Walk, Innermost, AtKidOf
  <2>4. pages = before[Len(s)] \o Found(f, Len(s), d, k - 1)
    BY <1>6, <2>2, <2>3
  <2>5. f.kind[d] = "Pages"
    BY DEF AtKidOf
  <2>6. t[Len(t)].node = d /\ t[Len(t)].next = k
    BY <1>3, <1>4, <2>1
  <2> QED
    BY <1>4, <2>2, <2>4, <2>5, <2>6, InnermostAt
<1>10. t[1].node = f.objects[f.pages]
  BY <1>1, <1>7 DEF Walk
<1>11. Walk(f, t, before, pages)
  BY <1>4, <1>8, <1>9, <1>10 DEF Walk, Starts
<1> QED
  BY <1>11 DEF t

(* A kid is entered: it begins with what its caller has.                   *)
LEMMA WalkEnters ==
    ASSUME NEW f, Document(f), MaxDepth \in Nat \ {0},
           NEW s, NEW before, NEW pages, Walk(f, s, before, pages), Len(s) < MaxDepth,
           NEW d, NEW n, AtKidOf(f, s, d, n),
           NEW c \in Dict, c = Child(f, f.kids[d][n])
    PROVE  Walk(f, Append(OneOn(s), Activation(c)),
                [i \in 1 .. Len(s) + 1 |-> IF i = Len(s) + 1 THEN pages ELSE before[i]], pages)
<1> DEFINE t == OneOn(s)
           a == [s[Len(s)] EXCEPT !.next = @ + 1]
           u == Append(t, Activation(c))
           b == [i \in 1 .. Len(s) + 1 |-> IF i = Len(s) + 1 THEN pages ELSE before[i]]
<1>1. s \in Seq(Activations) /\ s # <<>> /\ Len(s) \in 1 .. MaxDepth
  BY EmptySeq DEF Walk
<1>2. s[Len(s)] \in Activations
  BY <1>1, StackParts
<1>3. a \in Activations /\ a.node = d /\ a.next = n + 1 /\ d \in Dict /\ n \in Nat \ {0}
  BY <1>2 DEF Activations, AtKidOf
<1> HIDE DEF a, t
<1>4. /\ t \in Seq(Activations) /\ Len(t) = Len(s) /\ t[Len(s)] = a
      /\ \A i \in 1 .. Len(s) - 1 : t[i] = s[i]
  BY <1>1, <1>3, StackParts DEF a, t, OneOn
<1>5. Activation(c) \in Activations /\ Activation(c).node = c /\ Activation(c).next = 1
  BY DEF Activation, Activations
<1> HIDE DEF u
<1>6. /\ u \in Seq(Activations) /\ Len(u) = Len(s) + 1 /\ u[Len(s) + 1] = Activation(c)
      /\ \A i \in 1 .. Len(s) : u[i] = t[i]
  <2>1. Len(t) \in Nat
    BY <1>1, <1>4
  <2> QED
    BY <1>4, <1>5, <2>1, AppendProperties DEF u
<1>7. b \in [1 .. Len(s) + 1 -> Seq(Dict)] /\ b[Len(s) + 1] = pages
      /\ \A i \in 1 .. Len(s) : b[i] = before[i]
  <2>1. /\ before \in [1 .. Len(s) -> Seq(Dict)] /\ pages \in Seq(Dict)
        /\ Len(s) \in Nat
    BY <1>1 DEF Walk, Starts
  <2> QED
    BY <2>1
<1> HIDE DEF b
<1>8. \A i \in 1 .. Len(s) : u[i].node = s[i].node
  <2> SUFFICES ASSUME NEW i \in 1 .. Len(s) PROVE u[i].node = s[i].node
    OBVIOUS
  <2>1. CASE i = Len(s)
    BY <1>1, <1>3, <1>4, <1>6, <2>1 DEF AtKidOf
  <2>2. CASE i # Len(s)
    <3>1. i \in 1 .. Len(s) - 1
      BY <1>1, <2>2
    <3> QED
      BY <1>4, <1>6, <3>1
  <2> QED
    BY <2>1, <2>2
<1>9. Len(f.kids[d]) \in Nat
  BY <1>1, <1>3, FoundProperties
<1>10. Calls(f, u, b)
  <2> SUFFICES ASSUME NEW i \in 1 .. Len(s)
               PROVE  /\ f.kind[u[i].node] = "Pages"
                      /\ u[i].next \in 2 .. Len(f.kids[u[i].node]) + 1
                      /\ u[i + 1].node = Child(f, f.kids[u[i].node][u[i].next - 1])
                      /\ b[i + 1] = b[i] \o Found(f, i, u[i].node, u[i].next - 2)
    <3>1. 1 .. Len(u) - 1 = 1 .. Len(s)
      BY <1>1, <1>6
    <3> QED
      BY <3>1, Zenon DEF Calls
  <2>1. CASE i = Len(s)
    <3>1. u[i] = a /\ u[i + 1] = Activation(c)
      BY <1>1, <1>4, <1>6, <2>1
    <3>2. n + 1 \in 2 .. Len(f.kids[d]) + 1 /\ n + 1 - 1 = n /\ n + 1 - 2 = n - 1
      BY <1>3, <1>9, SMTT(30) DEF AtKidOf
    <3>3. pages = before[Len(s)] \o Found(f, Len(s), d, n - 1) /\ f.kind[d] = "Pages"
      BY DEF Walk, Innermost, AtKidOf
    <3>4. b[i + 1] = pages /\ b[i] = before[Len(s)]
      BY <1>1, <1>7, <2>1
    <3>5. u[i].node = d /\ u[i].next = n + 1 /\ u[i + 1].node = c
      BY <1>3, <1>5, <3>1
    <3> HIDE DEF a
    <3>6. Found(f, i, d, n + 1 - 2) = Found(f, Len(s), d, n - 1)
      BY <2>1, <3>2
    <3>7. Child(f, f.kids[d][n + 1 - 1]) = c
      BY <3>2
    <3>8. b[i + 1] = b[i] \o Found(f, i, d, n + 1 - 2)
      BY <3>3, <3>4, <3>6
    <3> DEFINE e == u[i].node
               m == u[i].next
    <3>9. e = d /\ m = n + 1
      BY <3>5
    <3> HIDE DEF e, m
    <3>10. m - 1 = n /\ m - 2 = n - 1 /\ n + 1 - 2 = n - 1 /\ m \in 2 .. Len(f.kids[d]) + 1
      BY <1>3, <3>2, <3>9
    <3>11. /\ f.kind[e] = "Pages"
           /\ m \in 2 .. Len(f.kids[e]) + 1
           /\ u[i + 1].node = Child(f, f.kids[e][m - 1])
           /\ b[i + 1] = b[i] \o Found(f, i, e, m - 2)
      <4>1. u[i + 1].node = Child(f, f.kids[e][m - 1])
        BY <3>5, <3>7, <3>9, <3>10
      <4>2. b[i + 1] = b[i] \o Found(f, i, e, m - 2)
        BY <3>8, <3>9, <3>10
      <4> QED
        BY <3>3, <3>9, <3>10, <4>1, <4>2
    <3> QED
      BY <3>11 DEF e, m
  <2>2. CASE i # Len(s)
    <3>1. i \in 1 .. Len(s) - 1 /\ i + 1 \in 1 .. Len(s)
      BY <1>1, <2>2
    <3>2. u[i] = s[i] /\ u[i + 1].node = s[i + 1].node /\ b[i + 1] = before[i + 1] /\ b[i] = before[i]
      BY <1>4, <1>6, <1>7, <1>8, <3>1
    <3> QED
      BY <3>1, <3>2 DEF Walk, Calls
  <2> QED
    BY <2>1, <2>2
<1>11. Innermost(f, u, b, pages)
  <2>1. Len(s) + 1 \in 1 .. MaxDepth
    BY <1>1
  <2>2. Found(f, Len(s) + 1, c, 0) = <<>> /\ Len(f.kids[c]) \in Nat
    BY <2>1, FoundProperties
  <2>3. pages = pages \o <<>>
    BY ConcatEmptySeq DEF Walk
  <2>4. u[Len(u)].node = c /\ u[Len(u)].next = 1 /\ b[Len(u)] = pages /\ Len(u) = Len(s) + 1
    BY <1>5, <1>6, <1>7
  <2>5. 1 \in 1 .. Len(f.kids[c]) + 1 /\ 1 - 1 = 0
    BY <2>2
  <2>6. pages = b[Len(u)] \o Found(f, Len(u), c, 0)
    BY <2>2, <2>3, <2>4
  <2> QED
    BY <2>4, <2>5, <2>6 DEF Innermost
<1>12. u[1].node = f.objects[f.pages] /\ b[1] = <<>>
  BY <1>1, <1>7, <1>8 DEF Walk
<1>13. Walk(f, u, b, pages)
  BY <1>1, <1>6, <1>7, <1>10, <1>11, <1>12 DEF Walk, Starts
<1> QED
  BY <1>13 DEF b, u, t

(* What an activation adds until it returns are the leaves of its node.    *)
AtReturn(f, s, before) ==
    before[Len(s)] \o Levels(f)[MaxDepth - Len(s) + 1][s[Len(s)].node]

LEMMA WalkReturns ==
    ASSUME NEW f, Document(f), MaxDepth \in Nat \ {0}, NoDict \notin Dict,
           NEW s, NEW before, NEW pages, Walk(f, s, before, pages),
           NEW all, all = AtReturn(f, s, before)
    PROVE  LET t == SubSeq(s, 1, Len(s) - 1)
           IN  IF t = <<>> THEN all = Leaves(f)
               ELSE Walk(f, t, [i \in 1 .. Len(t) |-> before[i]], all)
<1> DEFINE t == SubSeq(s, 1, Len(s) - 1)
           b == [i \in 1 .. Len(t) |-> before[i]]
           d == s[Len(s)].node
<1>1. s \in Seq(Activations) /\ s # <<>> /\ Len(s) \in 1 .. MaxDepth /\ Len(s) \in Nat \ {0}
  BY EmptySeq DEF Walk
<1>2. /\ t \in Seq(Activations) /\ Len(t) = Len(s) - 1
      /\ \A i \in 1 .. Len(s) - 1 : t[i] = s[i]
      /\ \A i \in 1 .. Len(s) : s[i] \in Activations
  BY <1>1, StackParts
<1>3. before \in [1 .. Len(s) -> Seq(Dict)] /\ before[1] = <<>>
  BY DEF Walk, Starts
<1>4. d \in Dict
  BY <1>1, <1>2 DEF Activations
<1>5. all = before[Len(s)] \o Levels(f)[MaxDepth - Len(s) + 1][d]
  BY DEF AtReturn
<1>6. Levels(f)[MaxDepth - Len(s) + 1][d] \in Seq(Dict)
  <2>1. MaxDepth - Len(s) + 1 \in 0 .. MaxDepth /\ MaxDepth \in Nat
    BY <1>1
  <2> HIDE DEF d
  <2> QED
    BY <1>4, <2>1, LevelsType
<1> HIDE DEF t
<1>7. CASE t = <<>>
  <2>1. Len(s) = 1
    BY <1>1, <1>2, <1>7, EmptySeq
  <2>2. d = f.objects[f.pages] /\ MaxDepth - Len(s) + 1 = MaxDepth
    BY <2>1 DEF Walk
  <2>3. Leaves(f) = Levels(f)[MaxDepth][d]
    BY <1>4, <2>2, LeavesAreLevels
  <2>4. Levels(f)[MaxDepth - Len(s) + 1][d] = Leaves(f)
    BY <2>2, <2>3
  <2>5. all = <<>> \o Leaves(f)
    BY <1>3, <1>5, <2>1, <2>4
  <2>6. all = Leaves(f)
    BY <1>6, <2>4, <2>5, ConcatEmptySeq
  <2> QED
    BY <1>7, <2>6 DEF t
<1>8. CASE t # <<>>
  <2> DEFINE m == Len(s) - 1
             e == s[m].node
             n == s[m].next
  <2>1. Len(s) # 1
    BY <1>2, <1>8, EmptySeq
  <2>2. m \in 1 .. MaxDepth /\ m \in 1 .. Len(s) - 1 /\ m + 1 = Len(s) /\ m \in 1 .. Len(s)
    <3> HIDE DEF m
    <3>1. m = Len(s) - 1 /\ Len(s) \in Nat \ {0} /\ Len(s) # 1 /\ Len(s) <= MaxDepth
      BY <1>1, <2>1 DEF m
    <3> QED
      BY <3>1
  <2>3. e \in Dict
    BY <1>2, <2>2 DEF Activations
  <2>4. /\ f.kind[e] = "Pages" /\ n \in 2 .. Len(f.kids[e]) + 1
        /\ s[m + 1].node = Child(f, f.kids[e][n - 1])
        /\ before[m + 1] = before[m] \o Found(f, m, e, n - 2)
    BY <2>2 DEF Walk, Calls
  <2> HIDE DEF m, e, n
  <2>5. Len(f.kids[e]) \in Nat
    BY <2>2, <2>3, FoundProperties
  <2>6. n - 1 \in 1 .. Len(f.kids[e]) /\ n - 1 - 1 = n - 2 /\ n - 2 \in 0 .. Len(f.kids[e])
    BY <2>4, <2>5
  <2>7. Child(f, f.kids[e][n - 1]) = d
    BY <2>2, <2>4
  <2>8. Found(f, m, e, n - 1) = Found(f, m, e, n - 2) \o Levels(f)[MaxDepth - m][d]
    <3> HIDE DEF d
    <3>1. Found(f, m, e, n - 1) = Found(f, m, e, n - 1 - 1)
              \o (IF d = NoDict THEN <<>> ELSE Levels(f)[MaxDepth - m][d])
      BY <2>2, <2>3, <2>6, <2>7, FoundKid, ZenonT(40)
    <3> QED
      BY <1>4, <2>6, <3>1
  <2>9. MaxDepth - m = MaxDepth - Len(s) + 1
    BY <1>1, SMTT(30) DEF m
  <2>10. /\ before[m] \in Seq(Dict) /\ Found(f, m, e, n - 2) \in Seq(Dict)
         /\ Levels(f)[MaxDepth - m][d] \in Seq(Dict)
    BY <1>3, <1>6, <2>2, <2>3, <2>6, <2>9, FoundProperties
  <2>11. all = (before[m] \o Found(f, m, e, n - 2)) \o Levels(f)[MaxDepth - m][d]
    BY <1>5, <2>2, <2>4, <2>9
  <2>12. all = before[m] \o Found(f, m, e, n - 1) /\ all \in Seq(Dict)
    <3> DEFINE x == before[m]
               y == Found(f, m, e, n - 2)
               z == Levels(f)[MaxDepth - m][d]
    <3>1. x \in Seq(Dict) /\ y \in Seq(Dict) /\ z \in Seq(Dict)
      BY <2>10
    <3>2. all = (x \o y) \o z /\ Found(f, m, e, n - 1) = y \o z
      BY <2>8, <2>11
    <3> HIDE DEF x, y, z
    <3>3. (x \o y) \o z = x \o (y \o z) /\ x \o (y \o z) \in Seq(Dict)
      BY <3>1, ConcatAssociative, ConcatProperties
    <3> QED
      BY <3>2, <3>3 DEF x
  <2>13. t \in Seq(Activations) /\ Len(t) = m /\ \A i \in 1 .. m : t[i] = s[i]
    BY <1>2 DEF m
  <2>14. b \in Starts(t) /\ \A i \in 1 .. m : b[i] = before[i]
    BY <1>1, <1>3, <2>2, <2>13 DEF Starts
  <2> HIDE DEF b
  <2>15. Innermost(f, t, b, all)
    <3> DEFINE g == t[Len(t)].node
               k == t[Len(t)].next
    <3>1. g = e /\ k = n
      BY <2>2, <2>13 DEF e, n
    <3>2. n \in 1 .. Len(f.kids[e]) + 1
      BY <2>4, <2>5
    <3>3. all = b[Len(t)] \o Found(f, Len(t), e, n - 1)
      <4>1. b[m] = before[m]
        BY <2>2, <2>14
      <4> QED
        BY <2>12, <2>13, <4>1
    <3> HIDE DEF g, k
    <3>4. /\ k \in 1 .. Len(f.kids[g]) + 1
          /\ f.kind[g] # "Pages" => k = 1
          /\ all = b[Len(t)] \o Found(f, Len(t), g, k - 1)
      BY <2>4, <3>1, <3>2, <3>3
    <3> QED
      BY <3>4 DEF Innermost, g, k
  <2>16. Calls(f, t, b)
    <3> SUFFICES ASSUME NEW i \in 1 .. m - 1
                 PROVE  /\ f.kind[t[i].node] = "Pages"
                        /\ t[i].next \in 2 .. Len(f.kids[t[i].node]) + 1
                        /\ t[i + 1].node = Child(f, f.kids[t[i].node][t[i].next - 1])
                        /\ b[i + 1] = b[i] \o Found(f, i, t[i].node, t[i].next - 2)
      BY <2>13 DEF Calls
    <3>1. i \in 1 .. Len(s) - 1 /\ i \in 1 .. m /\ i + 1 \in 1 .. m
      BY <1>1, <2>2
    <3>2. t[i] = s[i] /\ t[i + 1] = s[i + 1] /\ b[i] = before[i] /\ b[i + 1] = before[i + 1]
      BY <2>13, <2>14, <3>1
    <3> QED
      BY <3>1, <3>2 DEF Walk, Calls
  <2>17. b[1] = <<>> /\ t[1].node = f.objects[f.pages] /\ Len(t) \in 1 .. MaxDepth
    BY <1>3, <2>2, <2>13, <2>14 DEF Walk
  <2>18. Walk(f, t, b, all)
    BY <2>12, <2>13, <2>14, <2>15, <2>16, <2>17 DEF Walk
  <2> QED
    BY <1>8, <2>18 DEF b, t
<1> QED
  BY <1>7, <1>8

(* The list where an activation returns: where its node is a page, with it *)
(* at the end.                                                             *)
IsDone(f, s, before, pages) ==
    LET d == s[Len(s)].node
    IN  /\ f.kind[d] = "Page" => Append(pages, d) = AtReturn(f, s, before)
        /\ f.kind[d] # "Page" /\ ~(f.kind[d] = "Pages" /\ s[Len(s)].next <= Len(f.kids[d]))
              => pages = AtReturn(f, s, before)

LEMMA NodeDone ==
    ASSUME NEW f, Document(f), MaxDepth \in Nat \ {0},
           NEW s, NEW before, NEW pages, Walk(f, s, before, pages)
    PROVE  IsDone(f, s, before, pages)
<1> DEFINE d == s[Len(s)].node
           n == s[Len(s)].next
           first == before[Len(s)]
           leaves == Levels(f)[MaxDepth - Len(s) + 1][d]
<1>1. s \in Seq(Activations) /\ s # <<>> /\ Len(s) \in 1 .. MaxDepth
  BY EmptySeq DEF Walk
<1>2. s[Len(s)] \in Activations
  BY <1>1, StackParts
<1>3. d \in Dict /\ n \in Nat \ {0} /\ first \in Seq(Dict)
  <2>1. d \in Dict /\ n \in Nat \ {0}
    BY <1>2 DEF Activations
  <2>2. before \in [1 .. Len(s) -> Seq(Dict)]
    BY DEF Walk, Starts
  <2> QED
    BY <1>1, <2>1, <2>2
<1>4. /\ n \in 1 .. Len(f.kids[d]) + 1
      /\ f.kind[d] # "Pages" => n = 1
      /\ pages = first \o Found(f, Len(s), d, n - 1)
  BY DEF Walk, Innermost
<1>5. /\ Len(f.kids[d]) \in Nat
      /\ Found(f, Len(s), d, 0) = <<>>
      /\ leaves = IF f.kind[d] = "Page" THEN <<d>>
                  ELSE IF f.kind[d] = "Pages" THEN Found(f, Len(s), d, Len(f.kids[d]))
                  ELSE <<>>
  <2>1. Len(s) \in 1 .. MaxDepth /\ d \in Dict /\ MaxDepth \in Nat
    BY <1>1, <1>3
  <2>2. /\ Len(f.kids[d]) \in Nat
        /\ Found(f, Len(s), d, 0) = <<>>
        /\ Levels(f)[MaxDepth - Len(s) + 1][d] =
              IF f.kind[d] = "Page" THEN <<d>>
              ELSE IF f.kind[d] = "Pages" THEN Found(f, Len(s), d, Len(f.kids[d]))
              ELSE <<>>
    <3> HIDE DEF d
    <3> QED
      BY <2>1, FoundProperties, ZenonT(40)
  <2> QED
    BY <2>2
<1> HIDE DEF d, n, first, leaves
<1>6. CASE f.kind[d] = "Page"
  <2>1. n - 1 = 0
    BY <1>4, <1>6
  <2>2. pages = first
    BY <1>3, <1>4, <1>5, <2>1, ConcatEmptySeq
  <2>3. Append(first, d) = first \o <<d>>
    BY <1>3, AppendIsConcat
  <2>4. Append(pages, d) = first \o leaves
    BY <1>5, <1>6, <2>2, <2>3
  <2> QED
    BY <1>6, <2>4 DEF IsDone, AtReturn, first, leaves, d
<1>7. CASE f.kind[d] # "Page" /\ ~(f.kind[d] = "Pages" /\ n <= Len(f.kids[d]))
  <2>1. CASE f.kind[d] = "Pages"
    <3>1. n - 1 = Len(f.kids[d])
      <4>1. ~(n <= Len(f.kids[d])) /\ n \in 1 .. Len(f.kids[d]) + 1 /\ Len(f.kids[d]) \in Nat
        BY <1>4, <1>5, <1>7, <2>1
      <4> QED
        BY <4>1
    <3>2. pages = first \o leaves
      BY <1>4, <1>5, <1>7, <2>1, <3>1
    <3> QED
      BY <1>7, <3>2 DEF IsDone, AtReturn, first, leaves, d
  <2>2. CASE f.kind[d] # "Pages"
    <3>1. n - 1 = 0
      BY <1>4, <2>2
    <3>2. pages = first \o leaves
      BY <1>4, <1>5, <1>7, <2>2, <3>1
    <3> QED
      BY <1>7, <3>2 DEF IsDone, AtReturn, first, leaves, d
  <2> QED
    BY <2>1, <2>2, SMTT(30)
<1> QED
  BY <1>6, <1>7 DEF n, IsDone, AtReturn, first, leaves, d

-----------------------------------------------------------------------------
(* The walk does not overflow on a tree of at most MaxDepth levels, and    *)
(* finds a number for a page that is referred to.                          *)

Ranks(f, rank) ==
    /\ rank \in [Dict -> 1 .. MaxDepth]
    /\ \A d \in Dict : f.kind[d] = "Pages" => \A i \in 1 .. Len(f.kids[d]) :
          LET c == Child(f, f.kids[d][i]) IN c # NoDict => rank[c] < rank[d]
PagesReferred(f) ==
    \A d \in Dict : f.kind[d] = "Pages" => \A i \in 1 .. Len(f.kids[d]) :
          LET k == f.kids[d][i] IN k.num = 0 /\ k.dict # NoDict => f.kind[k.dict] # "Page"
PageTree(f) == (\E rank : Ranks(f, rank)) /\ PagesReferred(f)

(* Numbers under which the pages are found.                                *)
Numbered(f, pages, nums) ==
    /\ Len(nums) = Len(pages)
    /\ \A j \in 1 .. Len(pages) : nums[j] \in ObjNum /\ f.objects[nums[j]] = pages[j]

Untouched ==
    objects = doc.objects /\ kids = doc.kids /\ objNum = [d \in Dict |-> NumberOf(doc, d)]
Shallow ==
    \A rank : Ranks(doc, rank) =>
        \A i \in 1 .. Len(stack) : rank[stack[i].node] <= MaxDepth - i + 1
Walking ==
    \E before, pages : Walk(doc, stack, before, pages) /\ Numbered(doc, pages, pageObjNums)
PagesCached ==
    \A i \in DOMAIN pageCache :
        i < Len(Leaves(doc)) /\ pageCache[i] = Leaves(doc)[i + 1]

LeafAnswered ==
    /\ answer.op = "pageCount" => answer.value = Len(Leaves(doc))
    /\ answer.op = "getPage" =>
          answer.value = IF answer.index \in 0 .. (Len(Leaves(doc)) - 1)
                         THEN Leaves(doc)[answer.index + 1] ELSE NoDict

ListInv ==
    ~doc.edited /\ handle \in {"none", "open"} =>
        /\ Untouched /\ Shallow /\ PagesCached /\ LeafAnswered
        /\ want # NoWant \/ stack # <<>> => built
        /\ stack # <<>> => Walking
        /\ built /\ stack = <<>> => Numbered(doc, Leaves(doc), pageObjNums)

LEMMA DocIsDocument ==
    ASSUME TypeOK
    PROVE  /\ Document(doc) /\ MaxDepth \in Nat \ {0} /\ NoDict \notin Dict
           /\ Activations = [node : Dict, next : Nat \ {0}]
BY DocsAssumption DEF TypeOK, Document, Activations

LEMMA LeavesType ==
    ASSUME NEW f, Document(f), MaxDepth \in Nat \ {0}, NoDict \notin Dict
    PROVE  Leaves(f) \in Seq(Dict)
<1>1. CASE f.objects[f.pages] = NoDict
  BY <1>1, LeavesAreLevels, EmptySeq
<1>2. CASE f.objects[f.pages] # NoDict
  <2>1. f.objects[f.pages] \in Dict /\ MaxDepth \in 0 .. MaxDepth /\ MaxDepth \in Nat
    BY <1>2 DEF Document
  <2> QED
    BY <1>2, <2>1, LevelsType, LeavesAreLevels
<1> QED
  BY <1>1, <1>2

LEMMA InitList == Init => ListInv
<1> SUFFICES ASSUME Init PROVE ListInv
  OBVIOUS
<1>1. Len(stack) = 0 /\ stack = <<>>
  BY EmptySeq DEF Init
<1> QED
  BY <1>1 DEF Init, ListInv, Untouched, Shallow, PagesCached, LeafAnswered, NoWant, Answer

(* Where the walk stands at a kid.                                         *)
LEMMA WalkAtKid ==
    ASSUME TypeOK, Untouched, AtKid, NEW before, NEW pages, Walk(doc, stack, before, pages)
    PROVE  /\ AtKidOf(doc, stack, Top.node, Top.next)
           /\ Top.node \in Dict /\ Top.next \in 1 .. Len(doc.kids[Top.node])
           /\ NextKid = Child(doc, doc.kids[Top.node][Top.next])
           /\ Advanced = OneOn(stack)
<1>1. Top \in Activations
  BY StackParts DEF Walk, AtKid, Top
<1>2. Len(doc.kids[Top.node]) \in Nat
  BY <1>1, DocIsDocument, LenProperties DEF Document, Activations
<1>3. Top.node \in Dict /\ Top.next \in 1 .. Len(doc.kids[Top.node])
  BY <1>1, <1>2 DEF Activations, AtKid, Untouched
<1> QED
  BY <1>3 DEF AtKidOf, AtKid, Untouched, NextKid, Resolve, Child, Advanced, OneOn, Callers, Top

LEMMA SkipList ==
    ASSUME TypeOK, ListInv, SkipKid, ~doc.edited, handle \in {"none", "open"}
    PROVE  ListInv'
<1>1. Untouched /\ Walking /\ stack # <<>> /\ built
  BY DEF ListInv, SkipKid, AtKid
<1>2. PICK before, pages : Walk(doc, stack, before, pages) /\ Numbered(doc, pages, pageObjNums)
  BY <1>1 DEF Walking
<1>3. Walk(doc, OneOn(stack), before, pages) /\ stack' = OneOn(stack)
  BY <1>1, <1>2, WalkAtKid, WalkSkips, DocIsDocument DEF SkipKid
<1>4. Walking' /\ stack' # <<>>
  BY <1>2, <1>3, EmptySeq DEF SkipKid, Walking, tree, Walk
<1>5. Len(stack') = Len(stack) /\ \A i \in 1 .. Len(stack) : stack'[i].node = stack[i].node
  <2>1. stack \in Seq(Activations) /\ Top \in Activations
    BY <1>1, <1>2, StackParts DEF Walk, Top
  <2>2. [Top EXCEPT !.next = @ + 1] \in Activations /\ [Top EXCEPT !.next = @ + 1].node = Top.node
    BY <2>1 DEF Activations
  <2>3. /\ Len(stack) \in Nat /\ Len(stack') = Len(stack) /\ stack'[Len(stack)].node = Top.node
        /\ \A i \in 1 .. Len(stack) - 1 : stack'[i] = stack[i]
    BY <1>1, <2>1, <2>2, StackParts DEF SkipKid, Advanced, Callers, Top
  <2> QED
    BY <2>3 DEF Top
<1>6. Shallow'
  BY <1>5 DEF ListInv, Shallow, SkipKid
<1> QED
  BY <1>1, <1>4, <1>6 DEF SkipKid, ListInv, Untouched, PagesCached, LeafAnswered, tree

LEMMA EnterList ==
    ASSUME TypeOK, ListInv, EnterKid, ~doc.edited, handle \in {"none", "open"}
    PROVE  ListInv'
<1>1. Untouched /\ Walking /\ stack # <<>> /\ built
  BY DEF ListInv, EnterKid, AtKid
<1>2. PICK before, pages : Walk(doc, stack, before, pages) /\ Numbered(doc, pages, pageObjNums)
  BY <1>1 DEF Walking
<1>3. /\ AtKidOf(doc, stack, Top.node, Top.next)
      /\ Top.node \in Dict /\ Top.next \in 1 .. Len(doc.kids[Top.node])
      /\ NextKid = Child(doc, doc.kids[Top.node][Top.next])
      /\ Advanced = OneOn(stack)
  BY <1>1, <1>2, WalkAtKid DEF EnterKid
<1>4. NextKid \in Dict
  BY NextKidType DEF EnterKid
<1>5. stack' = Append(OneOn(stack), Activation(NextKid))
  BY <1>3 DEF EnterKid
<1> DEFINE b == [i \in 1 .. Len(stack) + 1 |-> IF i = Len(stack) + 1 THEN pages ELSE before[i]]
<1>6. Walk(doc, stack', b, pages)
  BY <1>2, <1>3, <1>4, <1>5, WalkEnters, DocIsDocument DEF EnterKid
<1>7. Walking' /\ stack' # <<>>
  <2> HIDE DEF b
  <2> QED
    BY <1>2, <1>6, EmptySeq DEF EnterKid, Walking, tree, Walk
<1>8. /\ Len(stack') = Len(stack) + 1 /\ Len(stack) \in Nat \ {0} /\ stack'[Len(stack) + 1].node = NextKid
      /\ \A i \in 1 .. Len(stack) : stack'[i].node = stack[i].node
  <2>1. stack \in Seq(Activations) /\ Top \in Activations
    BY <1>1, <1>2, StackParts DEF Walk, Top
  <2>2. [Top EXCEPT !.next = @ + 1] \in Activations /\ [Top EXCEPT !.next = @ + 1].node = Top.node
    BY <2>1 DEF Activations
  <2>3. /\ Len(stack) \in Nat \ {0} /\ OneOn(stack) \in Seq(Activations)
        /\ Len(OneOn(stack)) = Len(stack) /\ OneOn(stack)[Len(stack)].node = Top.node
        /\ \A i \in 1 .. Len(stack) - 1 : OneOn(stack)[i] = stack[i]
    BY <1>1, <2>1, <2>2, StackParts DEF OneOn, Top
  <2>4. Activation(NextKid) \in Activations /\ Activation(NextKid).node = NextKid
    BY <1>4 DEF Activation, Activations
  <2>5. /\ Len(stack') = Len(stack) + 1 /\ stack'[Len(stack) + 1] = Activation(NextKid)
        /\ \A i \in 1 .. Len(stack) : stack'[i] = OneOn(stack)[i]
    BY <1>5, <2>3, <2>4, AppendProperties
  <2> QED
    BY <2>3, <2>4, <2>5 DEF Top
<1>9. Shallow'
  <2> SUFFICES ASSUME NEW rank, Ranks(doc, rank), NEW i \in 1 .. Len(stack) + 1
               PROVE  rank[stack'[i].node] <= MaxDepth - i + 1
    BY <1>8 DEF Shallow, EnterKid
  <2>1. \A j \in 1 .. Len(stack) : rank[stack[j].node] <= MaxDepth - j + 1
    BY DEF ListInv, Shallow
  <2>2. CASE i \in 1 .. Len(stack)
    BY <1>8, <2>1, <2>2
  <2>3. CASE i = Len(stack) + 1
    <3>1. rank[Top.node] <= MaxDepth - Len(stack) + 1
      BY <1>8, <2>1 DEF Top
    <3>2. rank[NextKid] < rank[Top.node]
      BY <1>3, <1>4, DocIsDocument DEF Ranks, AtKidOf
    <3>3. rank[NextKid] \in Int /\ rank[Top.node] \in Int /\ MaxDepth \in Nat
      BY <1>3, <1>4, DocIsDocument DEF Ranks
    <3> QED
      BY <1>8, <2>3, <3>1, <3>2, <3>3
  <2> QED
    BY <1>8, <2>2, <2>3
<1> QED
  BY <1>1, <1>7, <1>9 DEF EnterKid, ListInv, Untouched, PagesCached, LeafAnswered, tree

LEMMA NeverOverflows ==
    ASSUME TypeOK, ListInv, Overflow, ~doc.edited, handle \in {"none", "open"}, PageTree(doc)
    PROVE  FALSE
<1>1. Untouched /\ Walking /\ stack # <<>>
  BY DEF ListInv, Overflow, AtKid
<1>2. PICK before, pages : Walk(doc, stack, before, pages)
  BY <1>1 DEF Walking
<1>3. /\ AtKidOf(doc, stack, Top.node, Top.next)
      /\ Top.node \in Dict /\ Top.next \in 1 .. Len(doc.kids[Top.node])
      /\ NextKid = Child(doc, doc.kids[Top.node][Top.next])
  BY <1>1, <1>2, WalkAtKid DEF Overflow
<1>4. NextKid \in Dict
  BY NextKidType DEF Overflow
<1>5. PICK rank : Ranks(doc, rank)
  BY DEF PageTree
<1>6. Len(stack) \in 1 .. Len(stack) /\ Len(stack) = MaxDepth
  BY <1>2, DocIsDocument DEF Overflow, Walk
<1>7. rank[Top.node] <= MaxDepth - Len(stack) + 1
  BY <1>5, <1>6, SMTT(30) DEF ListInv, Shallow, Top
<1>8. rank[NextKid] < rank[Top.node] /\ rank[NextKid] \in 1 .. MaxDepth /\ rank[Top.node] \in 1 .. MaxDepth
  BY <1>3, <1>4, <1>5, DocIsDocument DEF Ranks, AtKidOf
<1> QED
  BY <1>6, <1>7, <1>8, DocIsDocument

(* What is left to the callers when an activation returns.                 *)
LEMMA ReturnList ==
    ASSUME TypeOK, Untouched, Shallow, stack # <<>>,
           NEW before, NEW pages, Walk(doc, stack, before, pages),
           NEW all, all = AtReturn(doc, stack, before),
           Numbered(doc, all, pageObjNums'), stack' = Callers, doc' = doc
    PROVE  /\ Shallow'
           /\ stack' = <<>> => Numbered(doc, Leaves(doc), pageObjNums')
           /\ stack' # <<>> => Walking'
<1> DEFINE b == [i \in 1 .. Len(Callers) |-> before[i]]
<1>1. IF Callers = <<>> THEN all = Leaves(doc) ELSE Walk(doc, Callers, b, all)
  BY WalkReturns, DocIsDocument DEF Callers, Top
<1>2. stack' # <<>> => Walking'
  <2> HIDE DEF b
  <2> QED
    BY <1>1 DEF Walking
<1>3. Shallow'
  <2>1. /\ Len(stack) \in Nat /\ Len(stack') = Len(stack) - 1
        /\ \A i \in 1 .. Len(stack) - 1 : stack'[i] = stack[i]
    BY StackParts DEF Callers, Walk
  <2> QED
    BY <2>1 DEF Shallow
<1> QED
  BY <1>1, <1>2, <1>3

LEMMA LeaveList ==
    ASSUME TypeOK, ListInv, LeaveNode, ~doc.edited, handle \in {"none", "open"}
    PROVE  ListInv'
<1>1. Untouched /\ Walking /\ stack # <<>> /\ built
  BY DEF ListInv, LeaveNode
<1>2. PICK before, pages : Walk(doc, stack, before, pages) /\ Numbered(doc, pages, pageObjNums)
  BY <1>1 DEF Walking
<1>3. pages = AtReturn(doc, stack, before)
  <2>1. ~(doc.kind[Top.node] = "Pages" /\ Top.next <= Len(doc.kids[Top.node]))
        /\ doc.kind[Top.node] # "Page"
    BY <1>1 DEF LeaveNode, AtKid, Untouched
  <2>2. IsDone(doc, stack, before, pages)
    BY <1>2, NodeDone, DocIsDocument
  <2> QED
    BY <2>1, <2>2 DEF IsDone, Top
<1>4. /\ Shallow'
      /\ stack' = <<>> => Numbered(doc, Leaves(doc), pageObjNums')
      /\ stack' # <<>> => Walking'
  <2>1. Numbered(doc, AtReturn(doc, stack, before), pageObjNums')
    BY <1>2, <1>3 DEF LeaveNode, tree
  <2> QED
    BY <1>1, <1>2, <2>1, ReturnList DEF LeaveNode, ListInv
<1> QED
  BY <1>1, <1>4 DEF LeaveNode, ListInv, Untouched, PagesCached, LeafAnswered, tree

(* A page the walk comes to has a number, under which it is found.         *)
LEMMA PageHasNumber ==
    ASSUME TypeOK, Untouched, PageTree(doc), stack # <<>>, doc.kind[Top.node] = "Page",
           NEW before, NEW pages, Walk(doc, stack, before, pages)
    PROVE  /\ Top.node \in Dict /\ objNum[Top.node] \in ObjNum
           /\ doc.objects[objNum[Top.node]] = Top.node
<1>1. Top \in Activations /\ \A i \in 1 .. Len(stack) : stack[i] \in Activations
  BY StackParts, SMTT(30) DEF Walk, Top
<1>2. \E n \in ObjNum : doc.objects[n] = Top.node
  <2>1. CASE Len(stack) = 1
    BY <2>1, DocIsDocument, SMTT(30) DEF Walk, Top, Document
  <2>2. CASE Len(stack) # 1
    <3> DEFINE m == Len(stack) - 1
               d == stack[m].node
               k == doc.kids[d][stack[m].next - 1]
    <3>1. m \in 1 .. Len(stack) - 1 /\ m \in 1 .. Len(stack) /\ m + 1 = Len(stack)
      <4>1. Len(stack) \in 1 .. MaxDepth /\ MaxDepth \in Nat
        BY DocIsDocument DEF Walk
      <4>2. m = Len(stack) - 1
        OBVIOUS
      <4> HIDE DEF m
      <4> QED
        BY <2>2, <4>1, <4>2
    <3>2. d \in Dict
      BY <1>1, <3>1 DEF Activations
    <3>3. doc.kind[d] = "Pages" /\ stack[m].next \in 2 .. Len(doc.kids[d]) + 1
          /\ Top.node = Child(doc, k)
      BY <3>1, ZenonT(40) DEF Walk, Calls, Top
    <3>4. Len(doc.kids[d]) \in Nat
      BY <3>2, DocIsDocument, LenProperties DEF Document
    <3>5. stack[m].next - 1 \in 1 .. Len(doc.kids[d])
      <4> HIDE DEF m, d
      <4> QED
        BY <3>3, <3>4
    <3>6. k \in Kid
      BY <3>2, <3>5, ChildType, DocIsDocument
    <3>7. Top.node # NoDict
      BY <1>1, DocIsDocument DEF Activations
    <3>8. k.num = 0 /\ k.dict # NoDict => doc.kind[k.dict] # "Page"
      BY <3>2, <3>3, <3>5 DEF PageTree, PagesReferred
    <3>9. k.num # 0 /\ doc.objects[k.num] = Top.node
      BY <3>3, <3>7, <3>8 DEF Child
    <3> QED
      BY <3>6, <3>9 DEF Kid
  <2> QED
    BY <2>1, <2>2, SMTT(30)
<1> QED
  BY <1>1, <1>2 DEF Untouched, NumberOf, Activations

LEMMA LeafList ==
    ASSUME TypeOK, ListInv, PageLeaf, ~doc.edited, handle \in {"none", "open"}, PageTree(doc)
    PROVE  ListInv'
<1>1. Untouched /\ Walking /\ stack # <<>> /\ built
  BY DEF ListInv, PageLeaf
<1>2. PICK before, pages : Walk(doc, stack, before, pages) /\ Numbered(doc, pages, pageObjNums)
  BY <1>1 DEF Walking
<1>3. Append(pages, Top.node) = AtReturn(doc, stack, before)
  <2>1. IsDone(doc, stack, before, pages)
    BY <1>2, NodeDone, DocIsDocument
  <2> QED
    BY <2>1 DEF IsDone, Top, PageLeaf
<1>4. /\ Top.node \in Dict /\ objNum[Top.node] \in ObjNum
      /\ doc.objects[objNum[Top.node]] = Top.node
  BY <1>1, <1>2, PageHasNumber DEF PageLeaf
<1>5. Numbered(doc, Append(pages, Top.node), pageObjNums')
  <2> DEFINE n == objNum[Top.node]
             d == Top.node
  <2>1. /\ pages \in Seq(Dict) /\ pageObjNums \in Seq(ObjNum) /\ pageObjNums' = Append(pageObjNums, n)
        /\ n \in ObjNum /\ d \in Dict /\ doc.objects[n] = d
    BY <1>2, <1>4 DEF Walk, TypeOK, PageLeaf
  <2> HIDE DEF n, d
  <2>2. /\ Len(pages) \in Nat /\ Len(pageObjNums) = Len(pages)
        /\ Len(Append(pages, d)) = Len(pages) + 1 /\ Append(pages, d)[Len(pages) + 1] = d
        /\ \A j \in 1 .. Len(pages) : Append(pages, d)[j] = pages[j]
    BY <1>2, <2>1, AppendProperties, LenProperties DEF Numbered
  <2>3. /\ Len(pageObjNums') = Len(pages) + 1 /\ pageObjNums'[Len(pages) + 1] = n
        /\ \A j \in 1 .. Len(pages) : pageObjNums'[j] = pageObjNums[j]
    BY <2>1, <2>2, AppendProperties
  <2>4. ASSUME NEW j \in 1 .. Len(pages) + 1
        PROVE  pageObjNums'[j] \in ObjNum /\ doc.objects[pageObjNums'[j]] = Append(pages, d)[j]
    <3>1. CASE j \in 1 .. Len(pages)
      BY <1>2, <2>2, <2>3, <3>1 DEF Numbered
    <3>2. CASE j = Len(pages) + 1
      BY <2>1, <2>2, <2>3, <3>2
    <3> QED
      BY <2>2, <3>1, <3>2
  <2> QED
    BY <2>2, <2>3, <2>4 DEF Numbered, d
<1>6. /\ Shallow'
      /\ stack' = <<>> => Numbered(doc, Leaves(doc), pageObjNums')
      /\ stack' # <<>> => Walking'
  <2>1. Numbered(doc, AtReturn(doc, stack, before), pageObjNums')
    BY <1>3, <1>5
  <2> QED
    BY <1>1, <1>2, <2>1, ReturnList DEF PageLeaf, ListInv
<1> QED
  BY <1>1, <1>6 DEF PageLeaf, ListInv, Untouched, PagesCached, LeafAnswered, tree

-----------------------------------------------------------------------------
(* Requests and answers.                                                   *)

LEMMA RequestList ==
    ASSUME TypeOK, ListInv, NEW w, Request(w), ~doc.edited, handle \in {"none", "open"}
    PROVE  ListInv'
<1>1. Untouched /\ UNCHANGED <<doc, handle, objects, objNum, kids, pageCache, answer>>
  BY DEF ListInv, Request
<1>2. CASE built
  <2>1. UNCHANGED <<built, pageObjNums, stack>>
    BY <1>2 DEF Request, EnsurePageTree, tree
  <2> QED
    BY <1>1, <1>2, <2>1 DEF ListInv, Untouched, Shallow, Walking, PagesCached, LeafAnswered
<1>3. CASE ~built
  <2> DEFINE d == doc.objects[doc.pages]
  <2>1. /\ built' /\ pageObjNums' = <<>>
        /\ stack' = IF d \in Dict THEN <<Activation(d)>> ELSE <<>>
    BY <1>1, <1>3 DEF Request, EnsurePageTree, Untouched
  <2>2. Numbered(doc, <<>>, <<>>)
    BY EmptySeq DEF Numbered
  <2>3. CASE d \in Dict
    <3>1. Walk(doc, <<Activation(d)>>, << <<>> >>, <<>>)
      BY <2>3, WalkBegins, DocIsDocument
    <3>2. Walking' /\ stack' # <<>>
      BY <1>1, <2>1, <2>2, <2>3, <3>1 DEF Walking
    <3>3. Shallow'
      <4>1. Len(stack') = 1 /\ stack'[1].node = d
        BY <2>1, <2>3 DEF Activation
      <4> HIDE DEF d
      <4> QED
        BY <1>1, <2>3, <4>1, DocIsDocument DEF Shallow, Ranks
    <3> QED
      BY <1>1, <2>1, <3>2, <3>3 DEF ListInv, Untouched, PagesCached, LeafAnswered
  <2>4. CASE d \notin Dict
    <3>1. d = NoDict /\ stack' = <<>>
      BY <2>1, <2>4, DocIsDocument DEF Document
    <3>2. Leaves(doc) = <<>>
      BY <3>1, LeavesAreLevels
    <3>3. Shallow' /\ Numbered(doc, Leaves(doc), pageObjNums')
      BY <2>1, <2>2, <3>1, <3>2, EmptySeq DEF Shallow
    <3> QED
      BY <1>1, <2>1, <3>1, <3>3 DEF ListInv, Untouched, PagesCached, LeafAnswered
  <2> QED
    BY <2>3, <2>4
<1> QED
  BY <1>2, <1>3

(* With the list complete an answer is a leaf, or that there is none.      *)
LEMMA AnswerList ==
    ASSUME TypeOK, ListInv, ~doc.edited, handle \in {"none", "open"},
           ReturnCount \/ ReturnNoPage \/ ReturnCachedPage \/ ReturnLoadedPage
    PROVE  ListInv'
<1>1. /\ UNCHANGED <<doc, handle, objects, objNum, kids, built, pageObjNums, stack>>
      /\ want' = NoWant /\ stack = <<>> /\ built /\ want.index \in Int
  BY DEF ReturnCount, ReturnNoPage, ReturnCachedPage, ReturnLoadedPage, Returning, Finish,
         tree, ListInv, NoWant, TypeOK
<1> DEFINE n == Len(Leaves(doc))
<1>2. /\ Leaves(doc) \in Seq(Dict) /\ n \in Nat /\ Len(pageObjNums) = n
      /\ \A j \in 1 .. n : objects[pageObjNums[j]] = Leaves(doc)[j] /\ Leaves(doc)[j] \in Dict
  <2>1. Leaves(doc) \in Seq(Dict)
    BY LeavesType, DocIsDocument
  <2>2. Numbered(doc, Leaves(doc), pageObjNums) /\ objects = doc.objects
    BY <1>1 DEF ListInv, Untouched
  <2> QED
    BY <2>1, <2>2, LenProperties, ElementOfSeq DEF Numbered
<1> HIDE DEF n
<1>3. InRange(want.index) <=> want.index \in 0 .. n - 1
  BY <1>1, <1>2 DEF InRange
<1>4. InRange(want.index) => want.index + 1 \in 1 .. n /\ want.index \in Nat
  BY <1>1, <1>2, <1>3
<1>5. /\ answer'.op = "pageCount" => answer'.value = n
      /\ answer'.op = "getPage" =>
            answer'.value = IF answer'.index \in 0 .. n - 1 THEN Leaves(doc)[answer'.index + 1]
                            ELSE NoDict
      /\ PagesCached'
  <2>1. PagesCached
    BY DEF ListInv
  <2>2. CASE ReturnCount
    BY <1>1, <1>2, <2>1, <2>2 DEF ReturnCount, Returning, Finish, Answer, PagesCached
  <2>3. CASE ReturnNoPage
    BY <1>1, <1>3, <2>1, <2>3 DEF ReturnNoPage, Returning, Finish, Answer, PagesCached
  <2>4. CASE ReturnCachedPage
    BY <1>1, <1>3, <2>1, <2>4 DEF ReturnCachedPage, Returning, Finish, Answer, PagesCached
  <2>5. CASE ReturnLoadedPage
    <3>1. want.index \in 0 .. n - 1 /\ want.index + 1 \in 1 .. n /\ want.index < n
      BY <1>1, <1>2, <1>3, <1>4, <2>5 DEF ReturnLoadedPage, ToLoad
    <3>2. answer' = Answer(want, Leaves(doc)[want.index + 1]) /\ want.op = "getPage"
          /\ pageCache' = Cached(want.index, Leaves(doc)[want.index + 1])
      BY <1>2, <3>1, <2>5 DEF ReturnLoadedPage, Finish, Returning
    <3>3. PagesCached'
      BY <1>1, <2>1, <3>1, <3>2 DEF PagesCached, Cached, n
    <3> QED
      BY <3>1, <3>2, <3>3 DEF Answer
  <2> QED
    BY <2>2, <2>3, <2>4, <2>5
<1>6. LeafAnswered'
  BY <1>1, <1>5 DEF LeafAnswered, n
<1> QED
  BY <1>1, <1>5, <1>6 DEF ListInv, Untouched, Shallow

LEMMA ListStep ==
    ASSUME TypeOK, ListInv, [Next]_vars, ~doc.edited => PageTree(doc)
    PROVE  ListInv'
<1>1. CASE doc.edited
  <2>1. doc' = doc
    BY DEF Next, Work, Load, Request, PageLeaf, SkipKid, EnterKid, Overflow, LeaveNode,
           ReturnCount, ReturnNoPage, ReturnCachedPage, ReturnLoadedPage,
           ReplaceIndirectObject, DeleteIndirectObject, EditKids, Close, vars
  <2> QED
    BY <1>1, <2>1 DEF ListInv
<1>2. CASE handle \notin {"none", "open"}
  <2>1. handle' = handle
    BY <1>2 DEF Next, Work, Load, Request, PageLeaf, SkipKid, EnterKid, Overflow, LeaveNode,
           ReturnCount, ReturnNoPage, ReturnCachedPage, ReturnLoadedPage,
           ReplaceIndirectObject, DeleteIndirectObject, EditKids, Close, vars
  <2> QED
    BY <1>2, <2>1 DEF ListInv
<1>3. CASE ~doc.edited /\ handle \in {"none", "open"}
  <2>1. CASE Load
    BY <1>3, <2>1 DEF Load, ListInv, Untouched, Shallow, Walking, PagesCached, LeafAnswered, tree
  <2>2. CASE Close
    BY <2>2 DEF Close, ListInv
  <2>3. CASE UNCHANGED vars
    BY <2>3 DEF vars, ListInv, Untouched, Shallow, Walking, PagesCached, LeafAnswered
  <2>4. CASE Work
    BY <1>3, <2>4, LeafList, SkipList, EnterList, NeverOverflows, LeaveList, AnswerList DEF Work
  <2>5. ASSUME NEW w, Request(w) PROVE ListInv'
    BY <1>3, <2>5, RequestList
  <2> QED
    BY <1>3, <2>1, <2>2, <2>3, <2>4, <2>5
    DEF Next, ReplaceIndirectObject, DeleteIndirectObject, EditKids
<1> QED
  BY <1>1, <1>2, <1>3

(* The pages of a document that is not edited are the leaves of its page   *)
(* tree, in order, whichever request comes first and however often: for    *)
(* every tree of at most MaxDepth levels whose pages are referred to       *)
(* (pdf_document.dart:110-136, 140-170).  A page in place, or a circle,    *)
(* is where TLC refutes it.                                                *)
THEOREM PageListIsLeaves ==
    (\A f \in Docs : f.edited \/ PageTree(f)) => (Spec => []PagesAreLeaves)
<1> SUFFICES ASSUME \A f \in Docs : f.edited \/ PageTree(f)
             PROVE  Spec => []PagesAreLeaves
  OBVIOUS
<1> DEFINE Inv == TypeOK /\ ListInv
<1>1. Init => Inv
  BY InitType, InitList, DocsAssumption
<1>2. Inv /\ [Next]_vars => Inv'
  <2> SUFFICES ASSUME TypeOK, ListInv, [Next]_vars PROVE Inv'
    OBVIOUS
  <2>1. ~doc.edited => PageTree(doc)
    BY DEF TypeOK
  <2> QED
    BY <2>1, TypeStep, ListStep, DocsAssumption
<1>3. Inv => PagesAreLeaves
  BY DEF ListInv, LeafAnswered, PagesAreLeaves
<1> QED
  BY <1>1, <1>2, <1>3, PTL DEF Spec

-----------------------------------------------------------------------------
(* The attributes of a page and its ancestors.  The chain of /Parent may   *)
(* lead back: a dictionary that holds what is looked for, or the end, is   *)
(* then found before the chain repeats, or never.                          *)

Steps == Cardinality(Node)
LineUpto(p, m, g) ==
    [n \in 0 .. m |-> IF n = 0 THEN PageDict ELSE IF g[n - 1] = 0 THEN 0 ELSE p[g[n - 1]]]
LineOf(p) == CHOOSE g : g = LineUpto(p, Steps, g)

LEMMA LineIsLineOf == Line = LineOf(parent)
BY DEF Line, None, LineOf, LineUpto, Steps

LEMMA LineExists ==
    ASSUME NEW p, NEW n \in Nat
    PROVE  \E g : g = LineUpto(p, n, g)
<1> DEFINE Failing == {m \in Nat : ~ \E g : g = LineUpto(p, m, g)}
<1> SUFFICES ASSUME Failing # {} PROVE FALSE
  OBVIOUS
<1>1. PICK m \in Failing : \A k \in Failing : m <= k
  BY LeastNumber
<1>2. m \in Nat /\ ~ \E g : g = LineUpto(p, m, g)
  OBVIOUS
<1>3. CASE m = 0
  <2> DEFINE g == [n0 \in 0 .. 0 |-> PageDict]
  <2>1. g = LineUpto(p, 0, g)
    BY DEF LineUpto
  <2> QED
    BY <1>2, <1>3, <2>1
<1>4. CASE m > 0
  <2>1. m - 1 \in Nat /\ m - 1 \notin Failing
    BY <1>1, <1>2, <1>4
  <2>2. PICK l : l = LineUpto(p, m - 1, l)
    BY <2>1
  <2> DEFINE last == IF l[m - 1] = 0 THEN 0 ELSE p[l[m - 1]]
             h == [i \in 0 .. m |-> IF i = m THEN last ELSE l[i]]
  <2>3. ASSUME NEW i \in 0 .. m
        PROVE  h[i] = IF i = 0 THEN PageDict ELSE IF h[i - 1] = 0 THEN 0 ELSE p[h[i - 1]]
    <3>1. CASE i = m
      <4>1. i - 1 \in 0 .. m /\ i - 1 # m /\ i # 0
        BY <1>2, <1>4, <3>1
      <4> QED
        BY <3>1, <4>1
    <3>2. CASE i # m
      <4>1. i \in 0 .. m - 1 /\ (i # 0 => i - 1 \in 0 .. m /\ i - 1 # m)
        BY <1>2, <1>4, <3>2
      <4>2. l[i] = IF i = 0 THEN PageDict ELSE IF l[i - 1] = 0 THEN 0 ELSE p[l[i - 1]]
        BY <2>2, <4>1 DEF LineUpto
      <4> QED
        BY <3>2, <4>1, <4>2
    <3> QED
      BY <3>1, <3>2
  <2>4. h = [i \in 0 .. m |-> h[i]]
    OBVIOUS
  <2> HIDE DEF h
  <2>5. h = LineUpto(p, m, h)
    BY <2>3, <2>4 DEF LineUpto
  <2> QED
    BY <1>2, <2>5
<1> QED
  BY <1>2, <1>3, <1>4

LEMMA LineSteps ==
    ASSUME NEW p
    PROVE  /\ Steps \in Nat /\ LineOf(p)[0] = PageDict /\ DOMAIN LineOf(p) = 0 .. Steps
           /\ \A n \in 0 .. Steps - 1 :
                 LineOf(p)[n + 1] = IF LineOf(p)[n] = 0 THEN 0 ELSE p[LineOf(p)[n]]
<1>1. Steps \in Nat
  BY FS_CardinalityType, PageAssumption DEF Steps
<1>2. LineOf(p) = LineUpto(p, Steps, LineOf(p))
  BY <1>1, LineExists DEF LineOf
<1> DEFINE l == LineOf(p)
<1> HIDE DEF l
<1>3. l = [n \in 0 .. Steps |->
             IF n = 0 THEN PageDict ELSE IF l[n - 1] = 0 THEN 0 ELSE p[l[n - 1]]]
  BY <1>2 DEF l, LineUpto
<1>4. ASSUME NEW n \in 0 .. Steps - 1
      PROVE  l[n + 1] = IF l[n] = 0 THEN 0 ELSE p[l[n]]
  <2>1. n + 1 \in 0 .. Steps /\ n + 1 # 0 /\ (n + 1) - 1 = n
    BY <1>1
  <2> QED
    BY <1>3, <2>1
<1>5. l[0] = PageDict /\ DOMAIN l = 0 .. Steps
  BY <1>1, <1>3
<1> QED
  BY <1>1, <1>4, <1>5 DEF l

LEMMA LineTypes ==
    ASSUME NEW p \in Parents
    PROVE  \A n \in 0 .. Steps : LineOf(p)[n] \in Node \cup {0}
<1> DEFINE Failing == {m \in 0 .. Steps : LineOf(p)[m] \notin Node \cup {0}}
<1> SUFFICES ASSUME Failing # {} PROVE FALSE
  OBVIOUS
<1>1. Steps \in Nat
  BY LineSteps
<1>2. Failing \subseteq Nat
  OBVIOUS
<1>3. PICK m \in Failing : \A k \in Failing : m <= k
  BY <1>2, LeastNumber
<1>4. PageDict \in Node /\ p \in [Node -> Node \cup {0}]
  BY PageAssumption DEF None
<1>5. m # 0
  BY <1>4, LineSteps
<1>6. /\ m - 1 \in 0 .. Steps - 1 /\ m - 1 \in 0 .. Steps /\ (m - 1) + 1 = m
      /\ m - 1 \notin Failing
  BY <1>1, <1>3, <1>5
<1>7. LineOf(p)[m] = IF LineOf(p)[m - 1] = 0 THEN 0 ELSE p[LineOf(p)[m - 1]]
  BY <1>6, LineSteps
<1> QED
  BY <1>4, <1>6, <1>7

(* Above the last ancestor there is nothing.                               *)
LEMMA LineEnds ==
    ASSUME NEW p, NEW i \in 0 .. Steps, LineOf(p)[i] = 0
    PROVE  \A j \in i .. Steps : LineOf(p)[j] = 0
<1> DEFINE Failing == {j \in i .. Steps : LineOf(p)[j] # 0}
<1> SUFFICES ASSUME Failing # {} PROVE FALSE
  OBVIOUS
<1>1. Steps \in Nat
  BY LineSteps
<1>2. Failing \subseteq Nat
  OBVIOUS
<1>3. PICK m \in Failing : \A k \in Failing : m <= k
  BY <1>2, LeastNumber
<1>4. /\ m - 1 \in 0 .. Steps - 1 /\ m - 1 \in i .. Steps /\ (m - 1) + 1 = m
      /\ m - 1 \notin Failing
  BY <1>1, <1>3
<1> QED
  BY <1>4, LineSteps

(* A line that meets a dictionary again goes on as it did before.          *)
LEMMA LineRepeats ==
    ASSUME NEW p, NEW i \in 0 .. Steps, NEW j \in 0 .. Steps,
           i < j, LineOf(p)[i] = LineOf(p)[j]
    PROVE  \A n \in j .. Steps : LineOf(p)[n] = LineOf(p)[n - (j - i)]
<1> DEFINE Failing == {n \in j .. Steps : LineOf(p)[n] # LineOf(p)[n - (j - i)]}
<1> SUFFICES ASSUME Failing # {} PROVE FALSE
  OBVIOUS
<1>1. Steps \in Nat
  BY LineSteps
<1>2. Failing \subseteq Nat
  OBVIOUS
<1>3. PICK m \in Failing : \A k \in Failing : m <= k
  BY <1>2, LeastNumber
<1>4. m # j
  <2>1. j - (j - i) = i
    OBVIOUS
  <2> QED
    BY <2>1
<1> DEFINE o == m - 1 - (j - i)
<1>5. /\ m - 1 \in 0 .. Steps - 1 /\ m - 1 \in j .. Steps /\ (m - 1) + 1 = m
      /\ m - 1 \notin Failing /\ o \in 0 .. Steps - 1 /\ o + 1 = m - (j - i)
  BY <1>1, <1>3, <1>4
<1>6. LineOf(p)[m - 1] = LineOf(p)[o]
  BY <1>5
<1>7. LineOf(p)[m] = LineOf(p)[o + 1]
  <2>1. LineOf(p)[m] = IF LineOf(p)[m - 1] = 0 THEN 0 ELSE p[LineOf(p)[m - 1]]
    BY <1>5, LineSteps
  <2>2. LineOf(p)[o + 1] = IF LineOf(p)[o] = 0 THEN 0 ELSE p[LineOf(p)[o]]
    <3> HIDE DEF o
    <3> QED
      BY <1>5, LineSteps
  <2> QED
    BY <1>6, <2>1, <2>2
<1> QED
  BY <1>5, <1>7

-----------------------------------------------------------------------------
(* Where a walk stands: n steps up, with nothing found below.              *)
Stands(k, n) ==
    /\ n \in 0 .. Steps /\ at = LineOf(parent)[n]
    /\ \A m \in 0 .. n - 1 :
          LineOf(parent)[m] # 0 /\ own[k][LineOf(parent)[m]] = Absent

(* No dictionary on the line holds the attribute.                          *)
Nowhere(k) ==
    \A n \in 0 .. Steps :
        LineOf(parent)[n] # 0 => own[k][LineOf(parent)[n]] = Absent

LookupInv ==
    /\ parent \in Parents
    /\ ~NotAsked =>
          /\ asked \in Box \cup {"Resources"}
          /\ \/ key = asked
             \/ key = "MediaBox" /\ asked = "CropBox" /\ Nowhere("CropBox")
          /\ \E n \in Nat : Stands(key, n)
          /\ key = "Resources" => resources = Absent

LEMMA FoundIsNearest ==
    ASSUME NEW k, NEW default, NEW n \in Nat, Stands(k, n),
           at # 0, own[k][at] # Absent
    PROVE  Nearest(k, default) = own[k][at]
<1> DEFINE line == LineOf(parent)
           holders == {m \in DOMAIN line : line[m] # 0 /\ own[k][line[m]] # Absent}
<1>1. Nearest(k, default) =
         IF holders = {} THEN default ELSE own[k][line[Min(holders)]]
  BY LineIsLineOf DEF Nearest, None
<1>2. DOMAIN line = 0 .. Steps /\ Steps \in Nat
  BY LineSteps
<1>3. n \in holders
  BY <1>2 DEF Stands
<1>4. ASSUME NEW m \in holders PROVE n <= m
  BY <1>2, <1>4 DEF Stands
<1>5. ASSUME NEW m \in holders, m <= n PROVE m = n
  BY <1>2, <1>4, <1>5
<1> HIDE DEF holders
<1>6. Min(holders) = n
  BY <1>3, <1>4, <1>5 DEF Min
<1> QED
  BY <1>1, <1>3, <1>6 DEF Stands

LEMMA NowhereIsDefault ==
    ASSUME NEW k, NEW default, Nowhere(k)
    PROVE  Nearest(k, default) = default
BY LineIsLineOf, LineSteps DEF Nearest, None, Nowhere

LEMMA EndIsNowhere ==
    ASSUME NEW k, NEW n \in Nat, Stands(k, n), at = 0
    PROVE  Nowhere(k)
<1>1. Steps \in Nat /\ n \in 0 .. Steps /\ LineOf(parent)[n] = 0
  BY LineSteps DEF Stands
<1>2. ASSUME NEW m \in 0 .. Steps, LineOf(parent)[m] # 0
      PROVE  own[k][LineOf(parent)[m]] = Absent
  <2>1. ~(n <= m)
    BY <1>1, <1>2, LineEnds
  <2>2. m \in 0 .. n - 1
    BY <1>1, <2>1
  <2> QED
    BY <2>2 DEF Stands
<1> QED
  BY <1>2 DEF Nowhere

(* One step up: to the next place, or back to one below.                   *)
LEMMA WalkStands ==
    ASSUME parent \in Parents, NEW k, NEW n \in Nat, Stands(k, n),
           at # 0, own[k][at] = Absent, at' = parent[at],
           own' = own, parent' = parent
    PROVE  \E m \in Nat : Stands(k, m)'
<1> DEFINE line == LineOf(parent)
<1>1. /\ Steps \in Nat /\ IsFiniteSet(Node) /\ n \in 0 .. Steps /\ at = line[n]
      /\ \A m \in 0 .. n : line[m] # 0 /\ own[k][line[m]] = Absent
  BY LineSteps, PageAssumption DEF Stands
<1>2. CASE n < Steps
  <2>1. at' = line[n + 1]
    BY <1>1, <1>2, LineSteps
  <2> HIDE DEF line
  <2>2. n + 1 \in 0 .. Steps /\ (n + 1) - 1 = n
    BY <1>1, <1>2
  <2>3. Stands(k, n + 1)'
    BY <1>1, <2>1, <2>2 DEF Stands, line
  <2> QED
    BY <2>3
<1>3. CASE n = Steps
  <2> DEFINE f == [i \in 0 .. Steps |-> line[i]]
  <2>1. f \in [0 .. Steps -> Node]
    BY <1>1, <1>3, LineTypes
  <2>2. IsFiniteSet(0 .. Steps) /\ Cardinality(Node) < Cardinality(0 .. Steps)
    BY <1>1, FS_Interval DEF Steps
  <2>3. \E i, j \in 0 .. Steps : i # j /\ f[i] = f[j]
    <3> HIDE DEF f
    <3> QED
      BY <1>1, <2>1, <2>2, FS_PigeonHole
  <2>4. PICK i \in 0 .. Steps, j \in 0 .. Steps : i < j /\ line[i] = line[j]
    BY <1>1, <2>3
  <2> DEFINE o == n - (j - i)
  <2>5. j \in 0 .. n /\ o \in 0 .. Steps - 1 /\ o + 1 \in 0 .. n /\ n \in j .. Steps
    BY <1>1, <1>3, <2>4
  <2>6. line[n] = line[o]
    BY <2>4, <2>5, LineRepeats
  <2>7. line[o + 1] = parent[line[o]]
    BY <1>1, <2>5, <2>6, LineSteps
  <2> HIDE DEF line, o
  <2>8. Stands(k, o + 1)'
    BY <1>1, <2>5, <2>6, <2>7 DEF Stands, line
  <2> QED
    BY <1>1, <2>5, <2>8
<1> QED
  BY <1>1, <1>2, <1>3

LEMMA InitLookup == PageInit => LookupInv
BY DEF PageInit, LookupInv, NotAsked

(* A walk begins at the page.                                              *)
LEMMA LookupBegins ==
    ASSUME at' = PageDict
    PROVE  Stands(key, 0)'
<1>1. Steps \in Nat /\ LineOf(parent')[0] = PageDict
  BY LineSteps
<1>2. 0 \in 0 .. Steps /\ 0 .. 0 - 1 = {}
  BY <1>1
<1> QED
  BY <1>1, <1>2 DEF Stands

LEMMA LookupStep ==
    ASSUME LookupInv, [PageNext]_pageVars
    PROVE  LookupInv'
<1> USE DEF NotAsked
<1>1. ASSUME NEW k \in Key \ {"Rotate"}, Ask(k) PROVE LookupInv'
  <2>1. /\ asked' = k /\ key' = k /\ at' = PageDict /\ parent' = parent
        /\ resources' = resources /\ (k = "Resources" => resources = Absent)
    BY <1>1 DEF Ask
  <2>2. Stands(key, 0)'
    BY <2>1, LookupBegins
  <2>3. k \in Box \cup {"Resources"}
    BY DEF Key
  <2> QED
    BY <2>1, <2>2, <2>3 DEF LookupInv
<1>2. CASE WalkUp
  <2>1. /\ asked' = asked /\ key' = key /\ parent' = parent /\ own' = own
        /\ resources' = resources /\ at' = parent[at] /\ at # 0
        /\ own[key][at] = Absent /\ asked # "none"
    BY <1>2 DEF WalkUp, Searching, Holding, None
  <2>2. PICK n \in Nat : Stands(key, n)
    BY <2>1 DEF LookupInv
  <2>3. PICK m \in Nat : Stands(key, m)'
    <3>1. PICK k : k = key
      OBVIOUS
    <3>2. Stands(k, n)
      BY <2>2, <3>1
    <3>3. PICK m \in Nat : Stands(k, m)'
      BY <2>1, <3>1, <3>2, WalkStands DEF LookupInv
    <3> QED
      BY <2>1, <3>1, <3>3 DEF Stands
  <2>4. Nowhere("CropBox") => Nowhere("CropBox")'
    BY <2>1 DEF Nowhere
  <2> QED
    BY <2>1, <2>3, <2>4 DEF LookupInv
<1>3. CASE CropBoxIsMediaBox
  <2>1. /\ key = "CropBox" /\ at = 0 /\ asked # "none" /\ asked' = asked
        /\ key' = "MediaBox" /\ at' = PageDict /\ UNCHANGED <<parent, own, resources>>
    BY <1>3 DEF CropBoxIsMediaBox, NotFound, None
  <2>2. asked = "CropBox"
    BY <2>1 DEF LookupInv
  <2>3. Nowhere("CropBox")
    BY <2>1, EndIsNowhere DEF LookupInv
  <2>4. Nowhere("CropBox")'
    BY <2>1, <2>3 DEF Nowhere
  <2>5. Stands(key, 0)'
    BY <2>1, LookupBegins
  <2> QED
    BY <2>1, <2>2, <2>4, <2>5 DEF LookupInv, Box
<1>4. CASE asked' = "none" /\ parent' = parent
  BY <1>4 DEF LookupInv
<1>5. CASE \/ ReturnFound \/ MediaBoxIsLetter \/ NoResources
  BY <1>4, <1>5 DEF ReturnFound, MediaBoxIsLetter, NoResources,
                    Return
<1>6. CASE AskCachedResources \/ AskRotation
  BY <1>4, <1>6 DEF AskCachedResources, AskRotation
<1>7. ASSUME NEW k, NEW d, NEW v, Edit(k, d, v) PROVE LookupInv'
  BY <1>4, <1>7 DEF Edit
<1>8. CASE UNCHANGED pageVars
  BY <1>8 DEF pageVars, LookupInv, Stands, Nowhere
<1> QED
  BY <1>1, <1>2, <1>3, <1>5, <1>6, <1>7, <1>8 DEF PageNext, StepUp

(* What a walk that ends answers is the attribute as it is inherited.      *)
LEMMA WalkAnswers ==
    ASSUME LookupInv,
           ReturnFound \/ MediaBoxIsLetter \/ NoResources
    PROVE  /\ answered' = Answered(asked, Inherited(asked))
           /\ asked \in Box \cup {"Resources"}
           /\ asked = "Resources" => resources = Absent
           /\ resources # Absent => resources' = resources
<1>1. /\ asked \in Box \cup {"Resources"}
      /\ \/ key = asked
         \/ key = "MediaBox" /\ asked = "CropBox" /\ Nowhere("CropBox")
      /\ key = "Resources" => resources = Absent
  BY DEF LookupInv, NotAsked, ReturnFound, Searching,
         MediaBoxIsLetter, NoResources, NotFound
<1>2. PICK n \in Nat : Stands(key, n)
  BY DEF LookupInv, NotAsked, ReturnFound, Searching,
         MediaBoxIsLetter, NoResources, NotFound
<1>3. PICK v : /\ answered' = Answered(asked, v)
               /\ \/ v = own[key][at] /\ at # 0 /\ own[key][at] # Absent
                  \/ v = Letter /\ at = 0 /\ key = "MediaBox"
                  \/ v = Absent /\ at = 0 /\ key = "Resources"
  BY DEF ReturnFound, Searching, Holding, MediaBoxIsLetter,
         NoResources, NotFound, Return, None
<1>4. ASSUME NEW k, k = key, k = "CropBox" => at # 0, NEW d, d = v \/ at # 0
      PROVE  Nearest(k, d) = v
  <2>1. Stands(k, n)
    BY <1>2, <1>4
  <2>2. CASE at # 0
    BY <1>3, <1>4, <2>1, <2>2, FoundIsNearest
  <2>3. CASE at = 0
    <3>1. Nowhere(k)
      BY <2>1, <2>3, EndIsNowhere
    <3> QED
      BY <1>4, <2>3, <3>1, NowhereIsDefault
  <2> QED
    BY <2>2, <2>3
<1>5. Inherited(asked) = v
  <2>1. CASE key = "MediaBox"
    <3>1. Nearest("MediaBox", Letter) = v
      BY <1>3, <1>4, <2>1
    <3>2. CASE asked = "MediaBox"
      BY <3>1, <3>2 DEF Inherited
    <3>3. CASE asked = "CropBox"
      <4>1. Nowhere("CropBox")
        BY <1>1, <2>1, <3>3
      <4> QED
        BY <3>1, <3>3, <4>1, NowhereIsDefault DEF Inherited
    <3> QED
      BY <1>1, <2>1, <3>2, <3>3
  <2>2. CASE key = "CropBox"
    <3>1. at # 0 /\ asked = "CropBox"
      BY <1>1, <1>3, <2>2
    <3>2. Nearest("CropBox", Nearest("MediaBox", Letter)) = v
      BY <1>4, <2>2, <3>1
    <3> QED
      BY <3>1, <3>2 DEF Inherited
  <2>3. CASE key = "Resources"
    <3>1. Nearest("Resources", Absent) = v
      BY <1>3, <1>4, <2>3
    <3> QED
      BY <1>1, <2>3, <3>1 DEF Inherited
  <2> QED
    BY <1>1, <2>1, <2>2, <2>3 DEF Box
<1>6. resources # Absent => resources' = resources
  BY <1>1 DEF ReturnFound, MediaBoxIsLetter, NoResources
<1>7. asked = "Resources" => resources = Absent
  BY <1>1
<1> QED
  BY <1>1, <1>3, <1>5, <1>6, <1>7

LEMMA AnswerStep ==
    ASSUME LookupInv, [PageNext]_pageVars
    PROVE  /\ \A k \in Box :
                 answered' # answered /\ answered'.key = k =>
                     answered'.value = Inherited(k)
           /\ resources # Absent => resources' = resources
           /\ answered' # answered /\ answered'.key = "Resources" =>
                 answered'.value = IF resources # Absent THEN resources
                                     ELSE Inherited("Resources")
<1>1. CASE ReturnFound \/ MediaBoxIsLetter \/ NoResources
  BY <1>1, WalkAnswers DEF Answered
<1>2. CASE AskCachedResources
  BY <1>2 DEF AskCachedResources, Answered, Box
<1>3. CASE AskRotation
  BY <1>3 DEF AskRotation, Answered, Box
<1>4. ASSUME NEW k, Ask(k) PROVE answered' = answered /\ resources' = resources
  BY <1>4 DEF Ask
<1>5. ASSUME NEW k, NEW d, NEW v, Edit(k, d, v)
      PROVE  answered' = answered /\ resources' = resources
  BY <1>5 DEF Edit
<1>6. CASE WalkUp \/ CropBoxIsMediaBox \/ UNCHANGED pageVars
  BY <1>6 DEF WalkUp, CropBoxIsMediaBox, pageVars
<1> QED
  BY <1>1, <1>2, <1>3, <1>4, <1>5, <1>6 DEF PageNext, StepUp

(* A box that a page answers is that of the nearest dictionary, the page   *)
(* or one of its ancestors, that has one (PdfPage.mediaBox, cropBox).      *)
THEOREM BoxesAreInherited == PageSpec => BoxesInherited
<1>1. PageInit => LookupInv
  BY InitLookup
<1>2. LookupInv /\ [PageNext]_pageVars => LookupInv'
  BY LookupStep
<1>3. LookupInv /\ [PageNext]_pageVars =>
         [\A k \in Box :
             answered' # answered /\ answered'.key = k =>
                 answered'.value = Inherited(k)]_pageVars
  BY AnswerStep
<1> QED
  BY <1>1, <1>2, <1>3, PTL DEF PageSpec, BoxesInherited

(* The resources a page answers are those inherited at the moment they     *)
(* were first found (PdfPage.resources).                                   *)
THEOREM ResourcesAreFixed == PageSpec => ResourcesFixed
<1>1. PageInit => LookupInv
  BY InitLookup
<1>2. LookupInv /\ [PageNext]_pageVars => LookupInv'
  BY LookupStep
<1>3. LookupInv /\ [PageNext]_pageVars =>
         [/\ resources # Absent => resources' = resources
          /\ answered' # answered /\ answered'.key = "Resources" =>
                answered'.value = IF resources # Absent THEN resources
                                    ELSE Inherited("Resources")]_pageVars
  BY AnswerStep
<1> QED
  BY <1>1, <1>2, <1>3, PTL DEF PageSpec, ResourcesFixed
=============================================================================
