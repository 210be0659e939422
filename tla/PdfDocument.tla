---------------------------- MODULE PdfDocument ----------------------------
(***************************************************************************)
(* PdfDocument (lib/src/pdfium/fpdfapi/parser/pdf_document.dart): opening, *)
(* the page list built on the first request, the page cache, edits through *)
(* the document, close.                                                    *)
(*                                                                         *)
(* Objects come from an IndirectObjectHolder, used here as its abstract    *)
(* specification (PdfParser implements it).  Dictionaries are mutable and  *)
(* have an identity; objNum is a field of the dictionary, written when it  *)
(* is loaded or put under a number.  The page tree is walked recursively   *)
(* with no guard against circles; MaxDepth stands for the depth at which   *)
(* the Dart stack overflows, an Error that unwinds to the caller.          *)
(***************************************************************************)
EXTENDS Integers, Sequences, SequencesExt

CONSTANTS
    ObjNum,     \* object numbers, 0 included
    Dict,       \* dictionary identities, not 0
    Docs,       \* the documents that may be opened, and whether they are
                \* edited afterwards
    KidsEdits,  \* Kids arrays callers may give a node
    Replaceable,\* numbers callers replace or delete
    MaxIndex,   \* bound on the page indices asked for
    MaxDepth    \* depth at which the recursion overflows the stack

NoDict == 0  \* null, or an object that is not a dictionary

(* An element of Kids: a reference (num), or a dictionary in place.        *)
Kid == [num : ObjNum, dict : Dict \cup {NoDict}]

ASSUME DocsAssumption ==
    /\ NoDict \in ObjNum /\ NoDict \notin Dict
    /\ KidsEdits \subseteq Seq(Kid)
    /\ Replaceable \subseteq ObjNum \ {0}
    /\ MaxIndex \in Int
    /\ MaxDepth \in Nat \ {0}
    /\ \A f \in Docs :
         /\ f.parses \in BOOLEAN /\ f.root \in BOOLEAN /\ f.edited \in BOOLEAN
         /\ f.pages \in ObjNum
         /\ f.objects \in [ObjNum -> Dict \cup {NoDict}]
         /\ f.kind \in [Dict -> {"Pages", "Page", "other"}]
         /\ f.kids \in [Dict -> Seq(Kid)]

VARIABLES
    doc,         \* the document's file
    handle,      \* what the caller of fromFile has
    objects,     \* the holder's table
    objNum,      \* PdfObject.objNum of each dictionary
    kids,        \* the Kids array of each dictionary
    built,       \* _pageObjNums is not null
    pageObjNums, \* _pageObjNums
    pageCache,   \* _pageCache: index to the page's dictionary
    stack,       \* activations of _traversePageTree, innermost last
    want,        \* the request being answered
    answer       \* what the last request returned

vars == <<doc, handle, objects, objNum, kids, built, pageObjNums, pageCache,
          stack, want, answer>>
tree == <<built, pageObjNums>>

Count == [op |-> "pageCount", index |-> 0]
Page(i) == [op |-> "getPage", index |-> i]
NoWant == [op |-> "none", index |-> 0]

Answer(w, v) == [op |-> w.op, index |-> w.index, value |-> v]

Holder == INSTANCE IndirectObjectHolder WITH
    Value <- Dict, Given <- Dict, Null <- NoDict, NoAnswer <- NoDict,
    asked <- 0, answer <- NoDict, last <- 0

Idle == handle \in {"open", "closed"} /\ want = NoWant

-----------------------------------------------------------------------------
(* A dictionary loaded under a number carries that number.                 *)
NumberOf(f, d) ==
    IF \E n \in ObjNum : f.objects[n] = d
    THEN CHOOSE n \in ObjNum : f.objects[n] = d ELSE 0

Init ==
    /\ doc \in Docs
    /\ handle = "none"
    /\ objects = doc.objects
    /\ objNum = [d \in Dict |-> NumberOf(doc, d)]
    /\ kids = doc.kids
    /\ built = FALSE
    /\ pageObjNums = <<>>
    /\ pageCache = [i \in {} |-> NoDict]
    /\ stack = <<>>
    /\ want = NoWant
    /\ answer = Answer(NoWant, 0)

(* fromFile, fromFileSync, fromMemory: parse, then load the catalog.       *)
Load ==
    /\ handle = "none"
    /\ handle' = IF doc.parses /\ doc.root THEN "open" ELSE "failed"
    /\ UNCHANGED <<doc, objects, objNum, kids, tree, pageCache, stack, want, answer>>

-----------------------------------------------------------------------------
(* _ensurePageTree and _traversePageTree.                                  *)

Resolve(k) == IF k.num # 0 THEN objects[k.num] ELSE k.dict
Activation(d) == [node |-> d, next |-> 1]
Top == stack[Len(stack)]
Callers == SubSeq(stack, 1, Len(stack) - 1)
Advanced == Append(Callers, [Top EXCEPT !.next = @ + 1])
NextKid == Resolve(kids[Top.node][Top.next])
AtKid ==
    /\ stack # <<>>
    /\ doc.kind[Top.node] = "Pages"
    /\ Top.next <= Len(kids[Top.node])

(* Mutant: the list is built for every request.                            *)
EnsurePageTreeAgain ==
    /\ built' = TRUE
    /\ pageObjNums' = <<>>
    /\ stack' = IF objects[doc.pages] \in Dict
                THEN <<Activation(objects[doc.pages])>> ELSE <<>>

EnsurePageTree ==
    IF built
    THEN UNCHANGED <<tree, stack>>
    ELSE /\ built' = TRUE
         /\ pageObjNums' = <<>>
         /\ stack' = IF objects[doc.pages] \in Dict
                     THEN <<Activation(objects[doc.pages])>> ELSE <<>>

Request(w) ==
    /\ Idle
    /\ want' = w
    /\ EnsurePageTree
    /\ UNCHANGED <<doc, handle, objects, objNum, kids, pageCache, answer>>

PageLeaf ==
    /\ stack # <<>>
    /\ doc.kind[Top.node] = "Page"
    /\ pageObjNums' = Append(pageObjNums, objNum[Top.node])
    /\ stack' = Callers
    /\ UNCHANGED <<doc, handle, objects, objNum, kids, built, pageCache, want, answer>>

SkipKid ==
    /\ AtKid
    /\ NextKid = NoDict
    /\ stack' = Advanced
    /\ UNCHANGED <<doc, handle, objects, objNum, kids, tree, pageCache, want, answer>>

EnterKid ==
    /\ AtKid
    /\ NextKid # NoDict
    /\ Len(stack) < MaxDepth
    /\ stack' = Append(Advanced, Activation(NextKid))
    /\ UNCHANGED <<doc, handle, objects, objNum, kids, tree, pageCache, want, answer>>

(* StackOverflowError: the request fails, the list stays as far as it got. *)
Overflow ==
    /\ AtKid
    /\ NextKid # NoDict
    /\ Len(stack) = MaxDepth
    /\ stack' = <<>>
    /\ want' = NoWant
    /\ answer' = [op |-> "error", index |-> want.index, value |-> 0]
    /\ UNCHANGED <<doc, handle, objects, objNum, kids, tree, pageCache>>

(* Mutant: only a node whose kids are all done is left.                    *)
LeaveNodeExhausted ==
    /\ stack # <<>>
    /\ doc.kind[Top.node] = "Pages"
    /\ ~AtKid
    /\ stack' = Callers
    /\ UNCHANGED <<doc, handle, objects, objNum, kids, tree, pageCache, want, answer>>

LeaveNode ==
    /\ stack # <<>>
    /\ doc.kind[Top.node] # "Page"
    /\ ~AtKid
    /\ stack' = Callers
    /\ UNCHANGED <<doc, handle, objects, objNum, kids, tree, pageCache, want, answer>>

-----------------------------------------------------------------------------
(* The request goes on when the list is there.                             *)
Returning(op) == want.op = op /\ stack = <<>>
Finish(v) == answer' = Answer(want, v) /\ want' = NoWant

ReturnCount ==
    /\ Returning("pageCount")
    /\ Finish(Len(pageObjNums))
    /\ UNCHANGED <<doc, handle, objects, objNum, kids, tree, pageCache, stack>>

(* Mutant: index and list positions confused.                              *)
InRangeOne(i) == i > 0 /\ i <= Len(pageObjNums)

InRange(i) == i >= 0 /\ i < Len(pageObjNums)

ReturnNoPage ==
    /\ Returning("getPage")
    /\ ~InRange(want.index)
    /\ Finish(NoDict)
    /\ UNCHANGED <<doc, handle, objects, objNum, kids, tree, pageCache, stack>>

ReturnCachedPage ==
    /\ Returning("getPage")
    /\ InRange(want.index)
    /\ want.index \in DOMAIN pageCache
    /\ Finish(pageCache[want.index])
    /\ UNCHANGED <<doc, handle, objects, objNum, kids, tree, pageCache, stack>>

(* Mutant: the cache is not asked.                                         *)
ToLoadAlways(i) == InRange(i)

ToLoad(i) == InRange(i) /\ i \notin DOMAIN pageCache

(* Mutant: a page that could not be loaded is remembered too.              *)
CachedAnyway(i, d) ==
    [j \in DOMAIN pageCache \cup {i} |-> IF j = i THEN d ELSE pageCache[j]]

Cached(i, d) ==
    IF d = NoDict THEN pageCache
    ELSE [j \in DOMAIN pageCache \cup {i} |-> IF j = i THEN d ELSE pageCache[j]]

ReturnLoadedPage ==
    /\ Returning("getPage")
    /\ ToLoad(want.index)
    /\ LET d == objects[pageObjNums[want.index + 1]]
       IN  Finish(d) /\ pageCache' = Cached(want.index, d)
    /\ UNCHANGED <<doc, handle, objects, objNum, kids, tree, stack>>

-----------------------------------------------------------------------------
(* Edits through the document.                                             *)

ReplaceIndirectObject(n, d) ==
    /\ Idle /\ doc.edited
    /\ objects' = Holder!Put(n, d)
    /\ objNum' = [objNum EXCEPT ![d] = n]
    /\ UNCHANGED <<doc, handle, kids, tree, pageCache, stack, want, answer>>

DeleteIndirectObject(n) ==
    /\ Idle /\ doc.edited
    /\ objects' = Holder!Removed(n)
    /\ UNCHANGED <<doc, handle, objNum, kids, tree, pageCache, stack, want, answer>>

(* A caller changes the Kids array of a dictionary it holds.               *)
EditKids(d, ks) ==
    /\ Idle /\ doc.edited
    /\ kids' = [kids EXCEPT ![d] = ks]
    /\ UNCHANGED <<doc, handle, objects, objNum, tree, pageCache, stack, want, answer>>

(* Mutant: the pages survive the document.                                 *)
CloseKeepsPages ==
    /\ Idle
    /\ handle = "open"
    /\ handle' = "closed"
    /\ objects' = Holder!Cleared
    /\ UNCHANGED <<doc, objNum, kids, tree, pageCache, stack, want, answer>>

Close ==
    /\ Idle
    /\ handle = "open"
    /\ handle' = "closed"
    /\ pageCache' = [i \in {} |-> NoDict]
    /\ objects' = Holder!Cleared
    /\ UNCHANGED <<doc, objNum, kids, tree, stack, want, answer>>

-----------------------------------------------------------------------------
Work ==
    \/ PageLeaf
    \/ SkipKid
    \/ EnterKid
    \/ Overflow
    \/ LeaveNode
    \/ ReturnCount
    \/ ReturnNoPage
    \/ ReturnCachedPage
    \/ ReturnLoadedPage

Next ==
    \/ Load
    \/ Request(Count)
    \/ \E i \in -1..MaxIndex : Request(Page(i))
    \/ Work
    \/ \E n \in Replaceable, d \in Dict : ReplaceIndirectObject(n, d)
    \/ \E n \in Replaceable : DeleteIndirectObject(n)
    \/ \E d \in Dict, ks \in KidsEdits : EditKids(d, ks)
    \/ Close

(* A request runs to its end: the library is sequential.                   *)
Spec == Init /\ [][Next]_vars /\ WF_vars(Work)

-----------------------------------------------------------------------------
(* Properties.                                                             *)

TypeOK ==
    /\ doc \in Docs
    /\ handle \in {"none", "failed", "open", "closed"}
    /\ objects \in [ObjNum -> Dict \cup {NoDict}]
    /\ objNum \in [Dict -> ObjNum]
    /\ kids \in [Dict -> Seq(Kid)]
    /\ built \in BOOLEAN
    /\ pageObjNums \in Seq(ObjNum)
    /\ DOMAIN pageCache \subseteq Nat
    /\ \A i \in DOMAIN pageCache : pageCache[i] \in Dict
    /\ stack \in Seq([node : Dict, next : Nat \ {0}])
    /\ want \in [op : {"none", "pageCount", "getPage"}, index : Int]

(* The leaves of a document's page tree, depth first and left to right.    *)
Leaves(f) ==
    LET Child(k) == IF k.num # 0 THEN f.objects[k.num] ELSE k.dict
        leaves[h \in 0..MaxDepth] ==
            [d \in Dict |->
                IF f.kind[d] = "Page" THEN <<d>>
                ELSE IF f.kind[d] = "Pages" /\ h > 0
                THEN FlattenSeq([i \in 1..Len(f.kids[d]) |->
                        LET c == Child(f.kids[d][i])
                        IN  IF c = NoDict THEN <<>> ELSE leaves[h - 1][c]])
                ELSE <<>>]
    IN  IF f.objects[f.pages] = NoDict THEN <<>>
        ELSE leaves[MaxDepth][f.objects[f.pages]]

(* "Get the number of pages", "Get a page by index (0-based)"              *)
(* (pdf_document.dart:110, 116): in a document that is not edited, the     *)
(* pages are the leaves of the page tree in order, whichever request comes *)
(* first and however often.                                                *)
PagesAreLeaves ==
    handle = "open" /\ ~doc.edited =>
        /\ answer.op = "pageCount" => answer.value = Len(Leaves(doc))
        /\ answer.op = "getPage" =>
              answer.value = IF answer.index \in 0..(Len(Leaves(doc)) - 1)
                             THEN Leaves(doc)[answer.index + 1] ELSE NoDict

(* Requests are answered, page trees in circles included.                  *)
RequestsReturn == want # NoWant ~> want = NoWant

(* The number of pages a document has answered with is its number of pages *)
(* from then on, whatever is edited, and after close.                      *)
CountNeverChanges ==
    [][built /\ stack = <<>> => UNCHANGED tree]_vars

(* One page object per index: what is handed out for an index does not     *)
(* change, even if its object is replaced or deleted ...                   *)
PagesStay ==
    [][handle' = "open" => \A i \in DOMAIN pageCache :
          i \in DOMAIN pageCache' /\ pageCache'[i] = pageCache[i]]_vars

(* ... and a closed document has no pages to hand out, unless somebody     *)
(* puts objects into it again.                                             *)
NoPageAfterClose ==
    [][handle = "closed" /\ ~doc.edited /\ answer' # answer /\ answer'.op = "getPage"
          => answer'.value = NoDict]_vars

(* "Replace an indirect object" (pdf_object.dart:99): from then on the     *)
(* page under that number is the new object.                               *)
PageIsCurrent ==
    [][handle = "open" /\ answer' # answer /\ answer'.op = "getPage"
       /\ InRange(answer'.index)
          => answer'.value = objects[pageObjNums[answer'.index + 1]]]_vars

(* "Get the number of pages" (pdf_document.dart:110): a page that stands   *)
(* in the tree once is counted once.                                       *)
PagesCountedOnce ==
    built /\ stack = <<>> =>
        \A i, j \in 1..Len(pageObjNums) : pageObjNums[i] = pageObjNums[j] => i = j
=============================================================================
