-------------------------- MODULE InteractiveForm ---------------------------
(***************************************************************************)
(* PdfInteractiveForm (lib/src/pdfium/fpdfdoc/pdf_form.dart): the walk     *)
(* over the field tree of an AcroForm, which makes a PdfFormField for      *)
(* every field and a PdfFormControl for every widget and files the fields  *)
(* by name.  One step is one kid looked at; the recursion is a stack.      *)
(*                                                                         *)
(* A dictionary is [t, ft, subtype, kids]: its partial name or NoName,     *)
(* whether it has /FT and /Subtype, and its /Kids or NoKids, in which      *)
(* NoDict stands for what is no dictionary.                                *)
(***************************************************************************)
EXTENDS Naturals, Sequences

CONSTANTS
    Dict, NoDict,
    Name, NoName,
    NoKids,
    Forms,   \* the forms to load: [dicts, roots]
    MaxDepth \* how deep a recursion may go before the stack overflows

ASSUME MaxDepthAssumption == MaxDepth \in Nat \ {0}
ASSUME FormsAssumption ==
    \A f \in Forms :
        /\ f.dicts \in [Dict -> [t : Name \cup {NoName}, ft : BOOLEAN, subtype : BOOLEAN,
                                 kids : {NoKids} \cup Seq(Dict \cup {NoDict})]]
        /\ f.roots \in Seq(Dict \cup {NoDict})

VARIABLES
    form,         \* the AcroForm
    phase,        \* "loading", "loaded", or "overflow" for an exception
    nextRoot,     \* index in /Fields
    stack,        \* the calls of _loadFieldTree: [field, next] with the next kid
    made,         \* all PdfFormFields: [dict, at, parent, controls], with the
                  \* place among the kids of the parent, 0 for no parent
    fields,       \* _fields: indices in made
    fieldsByName  \* _fieldsByName

vars == <<form, phase, nextRoot, stack, made, fields, fieldsByName>>

Dicts == form.dicts
NameOf(i) == Dicts[made[i].dict].t
HasChild(i) == \E j \in DOMAIN made : made[j].parent = i

(* fullName, without the dots; the parent of a field is made before it.    *)
FullName(i) ==
    LET name[j \in 0 .. i] ==
            IF j = 0 THEN <<>>
            ELSE IF NameOf(j) = NoName THEN name[made[j].parent]
            ELSE Append(name[made[j].parent], NameOf(j))
    IN name[i]

Init ==
    /\ form \in Forms
    /\ phase = "loading"
    /\ nextRoot = 1
    /\ stack = <<>> /\ made = <<>> /\ fields = <<>>
    /\ fieldsByName = [n \in {} |-> 0]

-----------------------------------------------------------------------------
Top == stack[Len(stack)]
KidsOf(i) == Dicts[made[i].dict].kids
Deeper == Len(stack) < MaxDepth

(* A kid is a field or else a widget annotation.                           *)
IsField(d) == Dicts[d].ft \/ (~Dicts[d].subtype /\ Dicts[d].t # NoName)

(* _loadFieldTree is called: without /Kids the field is its own widget.    *)
(* Mutant: also with /Kids.                                                *)
EnterOwnWidget(d, at, parent) ==
    /\ made' = Append(made, [dict |-> d, at |-> at, parent |-> parent, controls |-> <<d>>])
    /\ stack' = Append(stack, [field |-> Len(made) + 1, next |-> 1])

Enter(d, at, parent) ==
    /\ made' = Append(made, [dict |-> d, at |-> at, parent |-> parent,
                             controls |-> IF Dicts[d].kids = NoKids THEN <<d>> ELSE <<>>])
    /\ stack' = Append(stack, [field |-> Len(made) + 1, next |-> 1])

Passed == [stack EXCEPT ![Len(stack)].next = @ + 1]

LoadRoot ==
    /\ phase = "loading" /\ stack = <<>> /\ nextRoot <= Len(form.roots)
    /\ IF form.roots[nextRoot] = NoDict THEN UNCHANGED <<made, stack>>
       ELSE Enter(form.roots[nextRoot], nextRoot, 0)
    /\ nextRoot' = nextRoot + 1
    /\ UNCHANGED <<form, phase, fields, fieldsByName>>

HasKid == phase = "loading" /\ stack # <<>> /\ KidsOf(Top.field) # NoKids
          /\ Top.next <= Len(KidsOf(Top.field))
Kid == KidsOf(Top.field)[Top.next]

LoadField ==
    /\ HasKid /\ Kid # NoDict /\ IsField(Kid)
    /\ \/ Deeper /\ Enter(Kid, Top.next, Top.field) /\ UNCHANGED phase
       \/ ~Deeper /\ phase' = "overflow" /\ UNCHANGED <<made, stack>>
    /\ UNCHANGED <<form, nextRoot, fields, fieldsByName>>

(* Mutant: what is no dictionary is not passed.                            *)
AddControlStuck ==
    /\ HasKid /\ (Kid # NoDict => ~IsField(Kid))
    /\ made' = IF Kid = NoDict THEN made
               ELSE [made EXCEPT ![Top.field].controls = Append(@, Kid)]
    /\ stack' = IF Kid = NoDict THEN stack ELSE Passed
    /\ UNCHANGED <<form, phase, nextRoot, fields, fieldsByName>>

AddControl ==
    /\ HasKid /\ (Kid # NoDict => ~IsField(Kid))
    /\ made' = IF Kid = NoDict THEN made
               ELSE [made EXCEPT ![Top.field].controls = Append(@, Kid)]
    /\ stack' = Passed
    /\ UNCHANGED <<form, phase, nextRoot, fields, fieldsByName>>

(* "Only add root-level and leaf fields"; the caller goes on.              *)
(* Mutant: leaves are told by their /Kids.                                 *)
ListedByKids(i) == KidsOf(i) = NoKids \/ made[i].parent = 0

Listed(i) == ~HasChild(i) \/ made[i].parent = 0

Popped ==
    LET n == Len(stack) - 1
        s == SubSeq(stack, 1, n)
    IN IF n = 0 THEN s ELSE [s EXCEPT ![n].next = @ + 1]

(* Mutant: fields are filed by partial name.                               *)
FiledByPartialName(i) ==
    LET name == IF NameOf(i) = NoName THEN <<>> ELSE <<NameOf(i)>>
    IN [n \in DOMAIN fieldsByName \cup {name} |->
           IF n = name THEN i ELSE fieldsByName[n]]

Filed(i) ==
    LET name == FullName(i)
    IN [n \in DOMAIN fieldsByName \cup {name} |->
           IF n = name THEN i ELSE fieldsByName[n]]

Return ==
    /\ phase = "loading" /\ stack # <<>> /\ ~HasKid
    /\ IF Listed(Top.field)
       THEN fields' = Append(fields, Top.field) /\ fieldsByName' = Filed(Top.field)
       ELSE UNCHANGED <<fields, fieldsByName>>
    /\ stack' = Popped
    /\ UNCHANGED <<form, phase, nextRoot, made>>

Done ==
    /\ phase = "loading" /\ stack = <<>> /\ nextRoot > Len(form.roots)
    /\ phase' = "loaded"
    /\ UNCHANGED <<form, nextRoot, stack, made, fields, fieldsByName>>

Next == LoadRoot \/ LoadField \/ AddControl \/ Return \/ Done

Spec == Init /\ [][Next]_vars /\ WF_vars(Next)

-----------------------------------------------------------------------------
(* Properties.                                                             *)

TypeOK ==
    /\ phase \in {"loading", "loaded", "overflow"}
    /\ nextRoot \in 1 .. Len(form.roots) + 1
    /\ stack \in Seq([field : DOMAIN made, next : Nat \ {0}]) /\ Len(stack) <= MaxDepth
    /\ \A i \in DOMAIN made :
          made[i] \in [dict : Dict, at : Nat, parent : 0 .. i - 1, controls : Seq(Dict)]
    /\ fields \in Seq(DOMAIN made)
    /\ \A n \in DOMAIN fieldsByName : n \in Seq(Name) /\ fieldsByName[n] \in DOMAIN made

(* Places in the form: a root, then a kid of it that is a field, and so    *)
(* on.                                                                     *)
DictAt(path) ==
    LET d[n \in 1 .. Len(path)] ==
            IF n = 1 THEN form.roots[path[1]] ELSE Dicts[d[n - 1]].kids[path[n]]
    IN d[Len(path)]
FieldKids(path) ==
    LET kids == Dicts[DictAt(path)].kids
    IN IF kids = NoKids THEN {}
       ELSE {Append(path, k) : k \in {j \in DOMAIN kids : kids[j] # NoDict /\ IsField(kids[j])}}
Roots == {<<r>> : r \in {r \in DOMAIN form.roots : form.roots[r] # NoDict}}
Places ==
    LET level[n \in 1 .. MaxDepth] ==
            IF n = 1 THEN Roots ELSE UNION {FieldKids(p) : p \in level[n - 1]}
    IN UNION {level[n] : n \in 1 .. MaxDepth}
PlaceOf(i) ==
    LET place[j \in 0 .. i] ==
            IF j = 0 THEN <<>> ELSE Append(place[made[j].parent], made[j].at)
    IN place[i]

(* "Only add root-level and leaf fields" (pdf_form.dart:680): each place   *)
(* of a root or of a field without child fields is listed, once.           *)
RootsAndLeavesListed ==
    phase = "loaded" =>
        /\ {PlaceOf(fields[k]) : k \in DOMAIN fields}
              = {p \in Places : p \in Roots \/ FieldKids(p) = {}}
        /\ \A k, l \in DOMAIN fields : k # l => PlaceOf(fields[k]) # PlaceOf(fields[l])

(* "Get field by full name" (pdf_form.dart:603): where fields that are     *)
(* siblings have different names, each listed field is found by its own.   *)
Siblings(p, q) == Len(p) = Len(q) /\ \A n \in 1 .. Len(p) - 1 : p[n] = q[n]
NamesDiffer ==
    \A p \in Places :
        /\ Dicts[DictAt(p)].t # NoName
        /\ \A q \in Places : Siblings(p, q) /\ p # q => Dicts[DictAt(p)].t # Dicts[DictAt(q)].t
NamesFind ==
    phase = "loaded" /\ NamesDiffer =>
        \A k \in DOMAIN fields :
            LET name == FullName(fields[k])
            IN name \in DOMAIN fieldsByName /\ fieldsByName[name] = fields[k]

(* The controls are those of the first n kids that are widgets, each once  *)
(* and in their order.                                                     *)
WidgetsAmong(kids, n) == {k \in 1 .. n : kids[k] # NoDict /\ ~IsField(kids[k])}
Taken(controls, kids, n) ==
    \E from \in [DOMAIN controls -> 1 .. n] :
        /\ \A k, l \in DOMAIN controls : k < l => from[k] < from[l]
        /\ {from[k] : k \in DOMAIN controls} = WidgetsAmong(kids, n)
        /\ \A k \in DOMAIN controls : controls[k] = kids[from[k]]

(* Each dictionary of a kid that is no field is a control of the field     *)
(* whose kid it is, in the order of the kids.                              *)
ControlsAreWidgets ==
    phase = "loaded" =>
        \A i \in DOMAIN made :
            LET d    == DictAt(PlaceOf(i))
                kids == Dicts[d].kids
            IN IF kids = NoKids THEN made[i].controls = <<d>>
               ELSE Taken(made[i].controls, kids, Len(kids))

(* Loading ends.                                                           *)
LoadingEnds == <>(phase = "loaded")

(* A kid with a partial name is a field, also one that is its own widget   *)
(* and inherits /FT.  Refuted: it becomes a control of its parent.         *)
NamedKidsAreFields ==
    phase = "loaded" =>
        \A i \in DOMAIN made : \A k \in DOMAIN made[i].controls :
            made[i].controls[k] # made[i].dict => Dicts[made[i].controls[k]].t = NoName
=============================================================================
