--------------------------- MODULE PageAttributes ---------------------------
(***************************************************************************)
(* The attributes of a PdfPage that its ancestors may hold                 *)
(* (lib/src/pdfium/fpdfapi/page/pdf_page.dart:52-116, 159-195): MediaBox,  *)
(* CropBox, Resources and Rotate are looked up in the page dictionary and  *)
(* then up the chain of /Parent, one dictionary at a time.  Callers may    *)
(* change the dictionaries between two requests.                           *)
(*                                                                         *)
(* An attribute is a number; only Rotate is ever counted with.             *)
(*                                                                         *)
(* The proofs have this module beside PdfDocument, hence names of its own. *)
(***************************************************************************)
EXTENDS Integers, FiniteSets, FiniteSetsExt

CONSTANTS
    Node,     \* dictionary identities
    PageDict, \* the page's dictionary
    Parents,  \* the possible /Parent functions
    Value,    \* attribute values; for Rotate, 0 stands for no rotation
    Editable  \* the attributes callers change, as <<key, dictionary>>

None == 0      \* no /Parent
Absent == -1   \* no usable value under the key
Letter == -2   \* US Letter, for boxes

Box == {"MediaBox", "CropBox"}
Key == Box \cup {"Resources", "Rotate"}

ASSUME PageAssumption ==
    /\ IsFiniteSet(Node) /\ Node \subseteq Nat \ {None} /\ PageDict \in Node
    /\ Parents \subseteq [Node -> Node \cup {None}]
    /\ 0 \in Value /\ Value \subseteq Nat
    /\ Editable \subseteq Key \X Node

VARIABLES
    parent,     \* /Parent of each dictionary
    own,        \* the attributes a dictionary holds itself
    resources,  \* PdfPage._resources, Absent while null
    asked,      \* the attribute asked for, or "none"
    key,        \* the attribute being looked up for it
    at,         \* the dictionary looked at, None past the last one
    answered    \* the last request and its result

pageVars == <<parent, own, resources, asked, key, at, answered>>

NotAsked == asked = "none"
Answered(k, v) == [key |-> k, value |-> v]

PageInit ==
    /\ parent \in Parents
    /\ own = [k \in Key |-> [d \in Node |-> Absent]]
    /\ resources = Absent
    /\ asked = "none" /\ key = "none" /\ at = None
    /\ answered = Answered("none", Absent)

(* Mutant: resources already found are looked up again.                    *)
AskAnyway(k) ==
    /\ NotAsked
    /\ asked' = k
    /\ key' = k
    /\ at' = PageDict
    /\ UNCHANGED <<parent, own, resources, answered>>

(* _pageDict.getRect, _pageDict.getDict.                                   *)
Ask(k) ==
    /\ NotAsked
    /\ k = "Resources" => resources = Absent
    /\ asked' = k
    /\ key' = k
    /\ at' = PageDict
    /\ UNCHANGED <<parent, own, resources, answered>>

AskCachedResources ==
    /\ NotAsked
    /\ resources # Absent
    /\ answered' = Answered("Resources", resources)
    /\ UNCHANGED <<parent, own, resources, asked, key, at>>

(* getInt gives 0 for a page without /Rotate, and 0 is not null: the       *)
(* right-hand sides of ?? are never reached.                               *)
OwnRotation == IF own["Rotate"][PageDict] # Absent THEN own["Rotate"][PageDict] ELSE 0

AskRotation ==
    /\ NotAsked
    /\ answered' = Answered("Rotate", OwnRotation)
    /\ UNCHANGED <<parent, own, resources, asked, key, at>>

-----------------------------------------------------------------------------
Holding == own[key][at]
Searching == ~NotAsked /\ at # None

(* Mutant: the walk looks at the page's parent only.                       *)
WalkUpOnce ==
    /\ Searching
    /\ Holding = Absent
    /\ at' = IF at = PageDict THEN parent[at] ELSE None
    /\ UNCHANGED <<parent, own, resources, asked, key, answered>>

(* parent = parent.getDict('Parent')                                       *)
WalkUp ==
    /\ Searching
    /\ Holding = Absent
    /\ at' = parent[at]
    /\ UNCHANGED <<parent, own, resources, asked, key, answered>>

Return(v) ==
    /\ answered' = Answered(asked, v)
    /\ asked' = "none" /\ key' = "none" /\ at' = None

ReturnFound ==
    /\ Searching
    /\ Holding # Absent
    /\ Return(Holding)
    /\ resources' = IF key = "Resources" THEN Holding ELSE resources
    /\ UNCHANGED <<parent, own>>

NotFound == ~NotAsked /\ at = None

(* Mutant: cropBox starts over instead of asking for mediaBox.             *)
CropBoxAgain ==
    /\ NotFound
    /\ key = "CropBox"
    /\ at' = PageDict
    /\ UNCHANGED <<parent, own, resources, asked, key, answered>>

(* cropBox is the mediaBox when no ancestor has one.                       *)
CropBoxIsMediaBox ==
    /\ NotFound
    /\ key = "CropBox"
    /\ key' = "MediaBox"
    /\ at' = PageDict
    /\ UNCHANGED <<parent, own, resources, asked, answered>>

MediaBoxIsLetter ==
    /\ NotFound
    /\ key = "MediaBox"
    /\ Return(Letter)
    /\ UNCHANGED <<parent, own, resources>>

(* _resources stays null: the next request looks again.                    *)
NoResources ==
    /\ NotFound
    /\ key = "Resources"
    /\ Return(Absent)
    /\ UNCHANGED <<parent, own, resources>>

(* A caller sets or removes an attribute of a dictionary.                  *)
Edit(k, d, v) ==
    /\ NotAsked
    /\ own' = [own EXCEPT ![k][d] = v]
    /\ UNCHANGED <<parent, resources, asked, key, at, answered>>

StepUp ==
    \/ WalkUp
    \/ ReturnFound
    \/ CropBoxIsMediaBox
    \/ MediaBoxIsLetter
    \/ NoResources

PageNext ==
    \/ \E k \in Key \ {"Rotate"} : Ask(k)
    \/ AskCachedResources
    \/ AskRotation
    \/ StepUp
    \/ \E e \in Editable, v \in Value \cup {Absent} : Edit(e[1], e[2], v)

(* A getter runs to its end: the library is sequential.                    *)
PageSpec == PageInit /\ [][PageNext]_pageVars /\ WF_pageVars(StepUp)

-----------------------------------------------------------------------------
(* Properties.                                                             *)

PageTypeOK ==
    /\ parent \in Parents
    /\ own \in [Key -> [Node -> Value \cup {Absent}]]
    /\ resources \in Value \cup {Absent}
    /\ asked \in Key \cup {"none"} /\ key \in Key \cup {"none"}
    /\ at \in Node \cup {None}
    /\ answered.key \in Box => answered.value \in Value \cup {Letter}
    /\ answered.key = "Resources" => answered.value \in Value \cup {Absent}
    /\ answered.key = "Rotate" => answered.value \in Value

(* The page and its ancestors: Line[n] is n steps up.                      *)
Line ==
    LET line[n \in 0..Cardinality(Node)] ==
            IF n = 0 THEN PageDict
            ELSE IF line[n - 1] = None THEN None ELSE parent[line[n - 1]]
    IN  line

Nearest(k, default) ==
    LET line == Line
        holders == {n \in DOMAIN line : line[n] # None /\ own[k][line[n]] # Absent}
    IN  IF holders = {} THEN default ELSE own[k][line[Min(holders)]]

Inherited(k) ==
    CASE k = "MediaBox"  -> Nearest("MediaBox", Letter)
      [] k = "CropBox"   -> Nearest("CropBox", Nearest("MediaBox", Letter))
      [] k = "Resources" -> Nearest("Resources", Absent)
      [] k = "Rotate"    -> Nearest("Rotate", 0)

(* "Helper methods for inherited attributes" (pdf_page.dart:159): a box is *)
(* that of the nearest dictionary that has one, as it is now; resources    *)
(* are those of the moment they were first found.                          *)
BoxesInherited ==
    [][\A k \in Box :
          answered' # answered /\ answered'.key = k => answered'.value = Inherited(k)]_pageVars

ResourcesFixed ==
    [][/\ resources # Absent => resources' = resources
       /\ answered' # answered /\ answered'.key = "Resources"
             => answered'.value = IF resources # Absent THEN resources
                                  ELSE Inherited("Resources")]_pageVars

(* Every request is answered.                                              *)
PageRequestsReturn == asked # "none" ~> asked = "none"

(* "Get page rotation (0, 90, 180, 270)" (pdf_page.dart:96), with          *)
(* _getInheritedInt to find it.                                            *)
RotationInherited ==
    [][answered' # answered /\ answered'.key = "Rotate"
          => answered'.value = Inherited("Rotate")]_pageVars
=============================================================================
