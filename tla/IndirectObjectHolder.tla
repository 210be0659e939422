------------------------ MODULE IndirectObjectHolder ------------------------
(***************************************************************************)
(* What an IndirectObjectHolder promises its callers                       *)
(* (lib/src/pdfium/fpdfapi/parser/pdf_object.dart:86-104): a table from    *)
(* object numbers to objects.  A request is answered with the object that  *)
(* stands under the number at that moment; adding, replacing and deleting  *)
(* touch one number each.  Nothing here is lazy: there is no cache, no     *)
(* file cursor and no object stream, so an answer cannot depend on the     *)
(* order in which objects were asked for.  PdfParser implements this.      *)
(***************************************************************************)
EXTENDS Naturals

CONSTANTS
    ObjNum,    \* object numbers
    Value,     \* objects that can stand under a number
    Given,     \* those among them that callers add or put in place of others
    Null,      \* "no object", returned for a free or unknown number
    NoAnswer   \* no answer has been given yet

VARIABLES
    objects,   \* the object under each number
    asked,     \* the number asked for and not yet answered, or 0
    answer,    \* what the last finished request returned
    last       \* the last call and the number it was about

vars == <<objects, asked, answer, last>>

Called(op, n) == [op |-> op, num |-> n]

(* The table after a change.                                               *)
Put(n, v) == [objects EXCEPT ![n] = v]
Removed(n) == Put(n, Null)
Cleared == [n \in ObjNum |-> Null]

Init ==
    /\ objects \in [ObjNum -> Value \cup {Null}]
    /\ asked = 0
    /\ answer = NoAnswer
    /\ last = Called("parse", 0)

(* getIndirectObjectFor is called ...                                      *)
Ask(n) ==
    /\ asked = 0
    /\ asked' = n
    /\ answer' = NoAnswer
    /\ last' = Called("get", n)
    /\ UNCHANGED objects

(* ... and returns.                                                        *)
Answer ==
    /\ asked # 0
    /\ answer' = objects[asked]
    /\ asked' = 0
    /\ UNCHANGED <<objects, last>>

(* addIndirectObject puts the object under a number that held nothing.     *)
Add(v) ==
    /\ asked = 0
    /\ \E n \in ObjNum :
          /\ objects[n] = Null
          /\ objects' = Put(n, v)
          /\ last' = Called("add", n)
    /\ UNCHANGED <<asked, answer>>

Replace(n, v) ==
    /\ asked = 0
    /\ objects' = Put(n, v)
    /\ last' = Called("replace", n)
    /\ UNCHANGED <<asked, answer>>

Delete(n) ==
    /\ asked = 0
    /\ objects' = Removed(n)
    /\ last' = Called("delete", n)
    /\ UNCHANGED <<asked, answer>>

(* PdfParser.close: the holder forgets every object.                       *)
Close ==
    /\ asked = 0
    /\ objects' = Cleared
    /\ last' = Called("close", 0)
    /\ UNCHANGED <<asked, answer>>

Next ==
    \/ \E n \in ObjNum \ {0} : Ask(n) \/ Delete(n)
    \/ \E n \in ObjNum, v \in Given : Replace(n, v)
    \/ \E v \in Given : Add(v)
    \/ Answer
    \/ Close

Safety == Init /\ [][Next]_vars
Spec == Safety /\ WF_vars(Answer)
=============================================================================
