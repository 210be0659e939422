------------------------ MODULE InteractiveFormProofs -----------------------
(***************************************************************************)
(* Proofs about InteractiveForm.                                           *)
(*                                                                         *)
(* The three invariants speak of a form that is loaded.  The inductive     *)
(* invariant says of every state of the walk how far it is: a field whose  *)
(* call has returned has all its kids behind it, one with a call in        *)
(* progress those before its next kid, and the caller of a call in         *)
(* progress stands at the kid the call is for.  The places and the names   *)
(* of the fields made so far are two functions that grow with each field,  *)
(* so that the recursion which defines them matters for the result only.   *)
(*                                                                         *)
(* f is a form, a the fields made, s the calls, r the next root, l the     *)
(* fields listed and b those filed by name; g is where the fields stand    *)
(* and m their full names.                                                 *)
(***************************************************************************)
EXTENDS InteractiveForm, SequenceTheorems, WellFoundedInduction, TLAPS

Fields == [dict : Dict, at : Nat, parent : Nat, controls : Seq(Dict)]
Calls == [field : Nat \ {0}, next : Nat \ {0}]

FormOK(f) ==
    /\ f.dicts \in [Dict -> [t : Name \cup {NoName}, ft : BOOLEAN, subtype : BOOLEAN,
                             kids : {NoKids} \cup Seq(Dict \cup {NoDict})]]
    /\ f.roots \in Seq(Dict \cup {NoDict})

KidsIn(f, d) == IF f.dicts[d].kids = NoKids THEN <<>> ELSE f.dicts[d].kids
IsFieldIn(f, d) == f.dicts[d].ft \/ (~f.dicts[d].subtype /\ f.dicts[d].t # NoName)
FieldAt(f, d, k) ==
    k \in 1 .. Len(KidsIn(f, d)) /\ KidsIn(f, d)[k] # NoDict /\ IsFieldIn(f, KidsIn(f, d)[k])

Open(s, i) == \E n \in 1 .. Len(s) : s[n].field = i
MadeAt(a, i, k) == \E j \in 1 .. Len(a) : a[j].parent = i /\ a[j].at = k
ListedIn(a, i) == (\A j \in 1 .. Len(a) : a[j].parent # i) \/ a[i].parent = 0

(* Fields are made where they stand in the form, once.                     *)
Tree(f, a) ==
    /\ a \in Seq(Fields)
    /\ \A i \in 1 .. Len(a) :
          /\ a[i].parent \in 0 .. i - 1
          /\ a[i].parent = 0 =>
                /\ a[i].at \in 1 .. Len(f.roots)
                /\ f.roots[a[i].at] # NoDict /\ f.roots[a[i].at] = a[i].dict
          /\ a[i].parent # 0 =>
                /\ FieldAt(f, a[a[i].parent].dict, a[i].at)
                /\ KidsIn(f, a[a[i].parent].dict)[a[i].at] = a[i].dict
    /\ \A i, j \in 1 .. Len(a) : a[i].parent = a[j].parent /\ a[i].at = a[j].at => i = j

Placed(a, g) ==
    /\ g \in [0 .. Len(a) -> Seq(Nat)]
    /\ g[0] = <<>>
    /\ \A i \in 1 .. Len(a) : g[i] = Append(g[a[i].parent], a[i].at) /\ Len(g[i]) <= MaxDepth

Called(f, a, m, i) ==
    IF f.dicts[a[i].dict].t = NoName THEN m[a[i].parent]
    ELSE Append(m[a[i].parent], f.dicts[a[i].dict].t)
Named(f, a, m) ==
    /\ m \in [0 .. Len(a) -> Seq(Name)]
    /\ m[0] = <<>>
    /\ \A i \in 1 .. Len(a) : m[i] = Called(f, a, m, i)

(* Each call is for the kid its caller stands at.                          *)
Chain(f, a, s, g) ==
    /\ s \in Seq(Calls)
    /\ \A n \in 1 .. Len(s) :
          /\ s[n].field \in 1 .. Len(a)
          /\ Len(g[s[n].field]) = n
          /\ s[n].next <= Len(KidsIn(f, a[s[n].field].dict)) + 1
          /\ n = 1 => a[s[n].field].parent = 0
          /\ n > 1 => /\ a[s[n].field].parent = s[n - 1].field
                      /\ a[s[n].field].at = s[n - 1].next

(* What is behind a call has been made, and nothing else.                  *)
RootsDone(f, a, r) ==
    /\ \A k \in 1 .. r - 1 : f.roots[k] # NoDict => MadeAt(a, 0, k)
    /\ \A j \in 1 .. Len(a) : a[j].parent = 0 => a[j].at < r

KidsDone(f, a, s) ==
    /\ \A i \in 1 .. Len(a) :
          ~Open(s, i) => \A k \in Nat : FieldAt(f, a[i].dict, k) => MadeAt(a, i, k)
    /\ \A n \in 1 .. Len(s) :
          /\ \A k \in 1 .. s[n].next - 1 :
                FieldAt(f, a[s[n].field].dict, k) => MadeAt(a, s[n].field, k)
          /\ \A j \in 1 .. Len(a) : a[j].parent = s[n].field =>
                a[j].at <= s[n].next /\ (n = Len(s) => a[j].at < s[n].next)

(* The controls are the widgets among the kids behind.                     *)
WidgetsIn(f, kids, n) == {k \in 1 .. n : kids[k] # NoDict /\ ~IsFieldIn(f, kids[k])}
TakenIn(f, c, kids, n) ==
    \E from \in [DOMAIN c -> 1 .. n] :
        /\ \A i, j \in DOMAIN c : i < j => from[i] < from[j]
        /\ {from[i] : i \in DOMAIN c} = WidgetsIn(f, kids, n)
        /\ \A i \in DOMAIN c : c[i] = kids[from[i]]
ControlsOf(f, a, s, i) ==
    /\ f.dicts[a[i].dict].kids = NoKids => a[i].controls = <<a[i].dict>>
    /\ f.dicts[a[i].dict].kids # NoKids =>
          /\ ~Open(s, i) => TakenIn(f, a[i].controls, KidsIn(f, a[i].dict),
                                    Len(KidsIn(f, a[i].dict)))
          /\ \A n \in 1 .. Len(s) : s[n].field = i
                => TakenIn(f, a[i].controls, KidsIn(f, a[i].dict), s[n].next - 1)
ControlsTaken(f, a, s) == \A i \in 1 .. Len(a) : ControlsOf(f, a, s, i)

(* The fields listed and filed are those whose calls have returned.        *)
ReturnedListed(a, s, l) ==
    /\ l \in Seq(Nat)
    /\ \A k \in 1 .. Len(l) : l[k] \in 1 .. Len(a) /\ ~Open(s, l[k]) /\ ListedIn(a, l[k])
    /\ \A i \in 1 .. Len(a) : ~Open(s, i) /\ ListedIn(a, i) => \E k \in 1 .. Len(l) : l[k] = i
    /\ \A k, n \in 1 .. Len(l) : l[k] = l[n] => k = n

ListedFiled(l, b, m) ==
    /\ \A k \in 1 .. Len(l) : m[l[k]] \in DOMAIN b
    /\ \A n \in DOMAIN b : \E k \in 1 .. Len(l) : b[n] = l[k] /\ m[l[k]] = n

Walked(f, a, s, r, l, b, g, m) ==
    /\ FormOK(f) /\ r \in 1 .. Len(f.roots) + 1
    /\ Tree(f, a) /\ Placed(a, g) /\ Named(f, a, m) /\ Chain(f, a, s, g)
    /\ RootsDone(f, a, r) /\ KidsDone(f, a, s) /\ ControlsTaken(f, a, s)
    /\ ReturnedListed(a, s, l) /\ ListedFiled(l, b, m)

IndInv ==
    /\ form \in Forms /\ phase \in {"loading", "loaded", "overflow"}
    /\ phase = "loaded" => stack = <<>> /\ nextRoot = Len(form.roots) + 1
    /\ \E g, m : Walked(form, made, stack, nextRoot, fields, fieldsByName, g, m)

-----------------------------------------------------------------------------
LEMMA LeastNumber ==
    ASSUME NEW S, S \subseteq Nat, S # {}
    PROVE  \E m \in S : \A k \in S : m <= k
<1>1. PICK m \in S : \A k \in S : <<k, m>> \notin OpToRel(<, Nat)
  BY WFMin, NatLessThanWellFounded, Zenon
<1>2. \A k \in S : ~(k < m)
  BY <1>1 DEF OpToRel
<1>3. ASSUME NEW k \in S
      PROVE  m <= k
  <2>1. m \in Nat /\ k \in Nat /\ ~(k < m)
    BY <1>2
  <2> QED
    BY <2>1
<1> QED
  BY <1>3

LEMMA KidsTypes ==
    ASSUME NEW f, FormOK(f), NEW d \in Dict
    PROVE  /\ KidsIn(f, d) \in Seq(Dict \cup {NoDict}) /\ Len(KidsIn(f, d)) \in Nat
           /\ f.dicts[d].t \in Name \cup {NoName}
           /\ \A k : FieldAt(f, d, k) => KidsIn(f, d)[k] \in Dict
<1>1. f.dicts[d].t \in Name \cup {NoName} /\ f.dicts[d].kids \in {NoKids} \cup Seq(Dict \cup {NoDict})
  BY DEF FormOK
<1>2. <<>> \in Seq(Dict \cup {NoDict})
  BY EmptySeq
<1>3. KidsIn(f, d) \in Seq(Dict \cup {NoDict})
  BY <1>1, <1>2 DEF KidsIn
<1>4. Len(KidsIn(f, d)) \in Nat
  BY <1>3, LenProperties
<1>5. ASSUME NEW k, FieldAt(f, d, k)
      PROVE  KidsIn(f, d)[k] \in Dict
  <2>1. k \in 1 .. Len(KidsIn(f, d)) /\ KidsIn(f, d)[k] # NoDict
    BY <1>5, Zenon DEF FieldAt
  <2>2. KidsIn(f, d)[k] \in Dict \cup {NoDict}
    BY <1>3, <2>1, ElementOfSeq, Zenon
  <2> QED
    BY <2>1, <2>2
<1> QED
  BY <1>1, <1>3, <1>4, <1>5

(* What is appended is the last element.                                   *)
LEMMA Pushed ==
    ASSUME NEW S, NEW q \in Seq(S), NEW e \in S, NEW p, p = Append(q, e)
    PROVE  /\ p \in Seq(S) /\ Len(q) \in Nat /\ Len(p) = Len(q) + 1
           /\ \A i \in 1 .. Len(q) : p[i] = q[i]
           /\ p[Len(q) + 1] = e
           /\ \A i \in 1 .. Len(p) : i \in 1 .. Len(q) \/ i = Len(q) + 1
           /\ 1 .. Len(q) \subseteq 1 .. Len(p) /\ Len(q) + 1 \in 1 .. Len(p)
<1>1. Len(q) \in Nat
  BY LenProperties
<1>2. /\ p \in Seq(S) /\ Len(p) = Len(q) + 1
      /\ \A i \in 1 .. Len(q) : p[i] = q[i]
      /\ p[Len(q) + 1] = e
  BY AppendProperties
<1>3. \A i \in 1 .. Len(p) : i \in 1 .. Len(q) \/ i = Len(q) + 1
  BY <1>1, <1>2
<1>4. 1 .. Len(q) \subseteq 1 .. Len(p) /\ Len(q) + 1 \in 1 .. Len(p)
  BY <1>1, <1>2
<1> QED
  BY <1>1, <1>2, <1>3, <1>4

-----------------------------------------------------------------------------
(* A field is made: e is appended to a, and its call to s.                 *)
MadeTypes(a, e, b) == a \in Seq(Fields) /\ e \in Fields /\ b = Append(a, e)
CallOf(a, s) == Append(s, [field |-> Len(a) + 1, next |-> 1])

LEMMA MadeLast ==
    ASSUME NEW a, NEW e, NEW b, MadeTypes(a, e, b)
    PROVE  /\ b \in Seq(Fields) /\ Len(a) \in Nat /\ Len(b) = Len(a) + 1
           /\ \A i \in 1 .. Len(a) : b[i] = a[i]
           /\ b[Len(a) + 1] = e
           /\ \A i \in 1 .. Len(b) : i \in 1 .. Len(a) \/ i = Len(a) + 1
           /\ 1 .. Len(a) \subseteq 1 .. Len(b) /\ Len(a) + 1 \in 1 .. Len(b)
<1> DEFINE S == Fields
<1>1. a \in Seq(S) /\ e \in S /\ b = Append(a, e)
  BY DEF MadeTypes
<1> HIDE DEF S
<1>2. /\ b \in Seq(S) /\ Len(a) \in Nat /\ Len(b) = Len(a) + 1
      /\ \A i \in 1 .. Len(a) : b[i] = a[i]
      /\ b[Len(a) + 1] = e
      /\ \A i \in 1 .. Len(b) : i \in 1 .. Len(a) \/ i = Len(a) + 1
      /\ 1 .. Len(a) \subseteq 1 .. Len(b) /\ Len(a) + 1 \in 1 .. Len(b)
  BY <1>1, Pushed
<1> QED
  BY <1>2 DEF S

LEMMA MadeMore ==
    ASSUME NEW a, NEW e, NEW b, MadeTypes(a, e, b)
    PROVE  \A i, k : MadeAt(b, i, k) <=> MadeAt(a, i, k) \/ (e.parent = i /\ e.at = k)
<1>1. /\ Len(a) \in Nat
      /\ \A i \in 1 .. Len(a) : b[i] = a[i]
      /\ b[Len(a) + 1] = e
      /\ \A i \in 1 .. Len(b) : i \in 1 .. Len(a) \/ i = Len(a) + 1
      /\ 1 .. Len(a) \subseteq 1 .. Len(b) /\ Len(a) + 1 \in 1 .. Len(b)
  BY MadeLast
<1> QED
  BY <1>1, Zenon DEF MadeAt

LEMMA TreeGrows ==
    ASSUME NEW f, NEW a, NEW e, NEW b, MadeTypes(a, e, b), Tree(f, a),
           e.parent \in 0 .. Len(a),
           e.parent = 0 => /\ e.at \in 1 .. Len(f.roots)
                           /\ f.roots[e.at] # NoDict /\ f.roots[e.at] = e.dict,
           e.parent # 0 => /\ FieldAt(f, a[e.parent].dict, e.at)
                           /\ KidsIn(f, a[e.parent].dict)[e.at] = e.dict,
           ~MadeAt(a, e.parent, e.at)
    PROVE  Tree(f, b)
<1>1. /\ b \in Seq(Fields) /\ Len(a) \in Nat /\ Len(b) = Len(a) + 1
      /\ \A i \in 1 .. Len(a) : b[i] = a[i]
      /\ b[Len(a) + 1] = e
      /\ \A i \in 1 .. Len(b) : i \in 1 .. Len(a) \/ i = Len(a) + 1
      /\ 1 .. Len(a) \subseteq 1 .. Len(b) /\ Len(a) + 1 \in 1 .. Len(b)
  BY MadeLast
<1>2. \A i \in 1 .. Len(a) : a[i].parent \in 0 .. i - 1 /\ (a[i].parent # 0 => a[i].parent \in 1 .. Len(a))
  BY <1>1 DEF Tree
<1>3. ASSUME NEW i \in 1 .. Len(b)
      PROVE  /\ b[i].parent \in 0 .. i - 1
             /\ b[i].parent = 0 =>
                   /\ b[i].at \in 1 .. Len(f.roots)
                   /\ f.roots[b[i].at] # NoDict /\ f.roots[b[i].at] = b[i].dict
             /\ b[i].parent # 0 =>
                   /\ FieldAt(f, b[b[i].parent].dict, b[i].at)
                   /\ KidsIn(f, b[b[i].parent].dict)[b[i].at] = b[i].dict
  <2>1. CASE i \in 1 .. Len(a)
    <3>1. b[i] = a[i]
      BY <1>1, <2>1
    <3>2. a[i].parent # 0 => b[a[i].parent] = a[a[i].parent]
      BY <1>1, <1>2, <2>1
    <3> QED
      BY <2>1, <3>1, <3>2, Zenon DEF Tree
  <2>2. CASE i = Len(a) + 1
    <3>1. b[i] = e /\ i - 1 = Len(a)
      BY <1>1, <2>2
    <3>2. e.parent # 0 => b[e.parent] = a[e.parent]
      BY <1>1
    <3> QED
      BY <3>1, <3>2
  <2> QED
    BY <1>1, <2>1, <2>2
<1>4. ASSUME NEW i \in 1 .. Len(b), NEW j \in 1 .. Len(b), b[i].parent = b[j].parent, b[i].at = b[j].at
      PROVE  i = j
  <2>1. CASE i \in 1 .. Len(a) /\ j \in 1 .. Len(a)
    BY <1>1, <1>4, <2>1, Zenon DEF Tree
  <2>2. ASSUME NEW k \in 1 .. Len(a), a[k].parent = e.parent, a[k].at = e.at
        PROVE  FALSE
    BY <2>2 DEF MadeAt
  <2>3. CASE i = Len(a) + 1 /\ j \in 1 .. Len(a)
    BY <1>1, <1>4, <2>2, <2>3, Zenon
  <2>4. CASE i \in 1 .. Len(a) /\ j = Len(a) + 1
    BY <1>1, <1>4, <2>2, <2>4, Zenon
  <2> QED
    BY <1>1, <2>1, <2>3, <2>4, Zenon
<1> QED
  BY <1>1, <1>3, <1>4, Zenon DEF Tree

(* The place of the new field, and its name.                               *)
PlacesWith(g, e, b) ==
    [i \in 0 .. Len(b) |-> IF i = Len(b) THEN Append(g[e.parent], e.at) ELSE g[i]]
NamesWith(f, m, e, b) ==
    [i \in 0 .. Len(b) |->
        IF i # Len(b) THEN m[i]
        ELSE IF f.dicts[e.dict].t = NoName THEN m[e.parent]
        ELSE Append(m[e.parent], f.dicts[e.dict].t)]

LEMMA PlacedGrows ==
    ASSUME NEW f, NEW a, NEW e, NEW b, MadeTypes(a, e, b), Tree(f, a), NEW g, Placed(a, g),
           e.parent \in 0 .. Len(a), Len(g[e.parent]) + 1 <= MaxDepth,
           NEW h, h = PlacesWith(g, e, b)
    PROVE  /\ Placed(b, h)
           /\ \A i \in 0 .. Len(a) : h[i] = g[i]
           /\ Len(h[Len(b)]) = Len(g[e.parent]) + 1
<1> USE DEF PlacesWith
<1>1. /\ b \in Seq(Fields) /\ Len(a) \in Nat /\ Len(b) = Len(a) + 1
      /\ \A i \in 1 .. Len(a) : b[i] = a[i]
      /\ b[Len(a) + 1] = e
      /\ \A i \in 1 .. Len(b) : i \in 1 .. Len(a) \/ i = Len(a) + 1
  BY MadeLast
<1>2. \A i \in 0 .. Len(a) : h[i] = g[i] /\ g[i] \in Seq(Nat)
  <2>1. \A i \in 0 .. Len(a) : i \in 0 .. Len(b) /\ i # Len(b)
    BY <1>1
  <2>2. g \in [0 .. Len(a) -> Seq(Nat)]
    BY DEF Placed
  <2> QED
    BY <2>1, <2>2
<1>3. e.at \in Nat
  BY DEF MadeTypes, Fields
<1>4. h[Len(b)] = Append(g[e.parent], e.at)
  BY <1>1
<1>5. h[Len(b)] \in Seq(Nat) /\ Len(h[Len(b)]) = Len(g[e.parent]) + 1
  <2>1. g[e.parent] \in Seq(Nat)
    BY <1>2
  <2> QED
    BY <1>3, <1>4, <2>1, AppendProperties
<1>6. h \in [0 .. Len(b) -> Seq(Nat)]
  <2>1. \A i \in 0 .. Len(b) : i \in 0 .. Len(a) \/ i = Len(b)
    BY <1>1
  <2>2. \A i \in 0 .. Len(b) : h[i] \in Seq(Nat)
    BY <1>2, <1>5, <2>1, Zenon
  <2>3. h = [i \in 0 .. Len(b) |-> h[i]]
    OBVIOUS
  <2> QED
    BY <2>2, <2>3, Zenon
<1>7. h[0] = <<>>
  BY <1>1, <1>2 DEF Placed
<1>8. ASSUME NEW i \in 1 .. Len(b)
      PROVE  h[i] = Append(h[b[i].parent], b[i].at) /\ Len(h[i]) <= MaxDepth
  <2>1. CASE i \in 1 .. Len(a)
    <3>1. a[i].parent \in 0 .. Len(a) /\ i \in 0 .. Len(a)
      BY <1>1, <2>1 DEF Tree
    <3>2. g[i] = Append(g[a[i].parent], a[i].at) /\ Len(g[i]) <= MaxDepth
      BY <2>1 DEF Placed
    <3> QED
      BY <1>1, <1>2, <2>1, <3>1, <3>2, Zenon
  <2>2. CASE i = Len(a) + 1
    <3>1. i = Len(b) /\ b[i] = e
      BY <1>1, <2>2
    <3> QED
      BY <1>2, <1>4, <1>5, <3>1
  <2> QED
    BY <1>1, <2>1, <2>2
<1> QED
  BY <1>2, <1>5, <1>6, <1>7, <1>8, Zenon DEF Placed

LEMMA NamedGrows ==
    ASSUME NEW f, FormOK(f), NEW a, NEW e, NEW b, MadeTypes(a, e, b), Tree(f, a),
           NEW m, Named(f, a, m), e.parent \in 0 .. Len(a),
           NEW w, w = NamesWith(f, m, e, b)
    PROVE  Named(f, b, w) /\ \A i \in 0 .. Len(a) : w[i] = m[i]
<1> USE DEF NamesWith
<1>1. /\ b \in Seq(Fields) /\ Len(a) \in Nat /\ Len(b) = Len(a) + 1
      /\ \A i \in 1 .. Len(a) : b[i] = a[i]
      /\ b[Len(a) + 1] = e
      /\ \A i \in 1 .. Len(b) : i \in 1 .. Len(a) \/ i = Len(a) + 1
  BY MadeLast
<1>2. \A i \in 0 .. Len(a) : w[i] = m[i] /\ m[i] \in Seq(Name)
  <2>1. \A i \in 0 .. Len(a) : i \in 0 .. Len(b) /\ i # Len(b)
    BY <1>1
  <2>2. m \in [0 .. Len(a) -> Seq(Name)]
    BY DEF Named
  <2> QED
    BY <2>1, <2>2
<1>3. f.dicts[e.dict].t \in Name \cup {NoName}
  BY KidsTypes DEF MadeTypes, Fields
<1>4. w[Len(b)] = IF f.dicts[e.dict].t = NoName THEN m[e.parent]
                  ELSE Append(m[e.parent], f.dicts[e.dict].t)
  BY <1>1
<1>5. w[Len(b)] \in Seq(Name)
  <2>1. m[e.parent] \in Seq(Name)
    BY <1>2
  <2>2. f.dicts[e.dict].t # NoName => Append(m[e.parent], f.dicts[e.dict].t) \in Seq(Name)
    BY <1>3, <2>1, AppendProperties
  <2> QED
    BY <1>4, <2>1, <2>2
<1>6. w \in [0 .. Len(b) -> Seq(Name)]
  <2>1. \A i \in 0 .. Len(b) : i \in 0 .. Len(a) \/ i = Len(b)
    BY <1>1
  <2>2. \A i \in 0 .. Len(b) : w[i] \in Seq(Name)
    BY <1>2, <1>5, <2>1, Zenon
  <2>3. w = [i \in 0 .. Len(b) |-> w[i]]
    OBVIOUS
  <2> QED
    BY <2>2, <2>3, Zenon
<1>7. w[0] = <<>>
  BY <1>1, <1>2 DEF Named
<1>8. ASSUME NEW i \in 1 .. Len(b)
      PROVE  w[i] = Called(f, b, w, i)
  <2>1. CASE i \in 1 .. Len(a)
    <3>1. a[i].parent \in 0 .. Len(a) /\ i \in 0 .. Len(a)
      BY <1>1, <2>1 DEF Tree
    <3>2. m[i] = Called(f, a, m, i)
      BY <2>1 DEF Named
    <3>3. w[i] = m[i] /\ w[a[i].parent] = m[a[i].parent] /\ b[i] = a[i]
      BY <1>1, <1>2, <2>1, <3>1, Zenon
    <3> QED
      BY <3>2, <3>3 DEF Called
  <2>2. CASE i = Len(a) + 1
    <3>1. i = Len(b) /\ b[i] = e
      BY <1>1, <2>2
    <3> QED
      BY <1>2, <1>4, <3>1 DEF Called
  <2> QED
    BY <1>1, <2>1, <2>2
<1> QED
  BY <1>2, <1>6, <1>7, <1>8, Zenon DEF Named

(* The call for the new field stands on that of its parent.                *)
Entering(s, e) ==
    /\ s = <<>> => e.parent = 0
    /\ s # <<>> => e.parent = s[Len(s)].field /\ e.at = s[Len(s)].next

LEMMA CalledLast ==
    ASSUME NEW a, NEW e, NEW b, MadeTypes(a, e, b), NEW s \in Seq(Calls), NEW t, t = CallOf(a, s)
    PROVE  /\ t \in Seq(Calls) /\ Len(s) \in Nat /\ Len(t) = Len(s) + 1
           /\ \A n \in 1 .. Len(s) : t[n] = s[n]
           /\ t[Len(s) + 1].field = Len(b) /\ t[Len(s) + 1].next = 1
           /\ \A n \in 1 .. Len(t) : n \in 1 .. Len(s) \/ n = Len(s) + 1
           /\ 1 .. Len(s) \subseteq 1 .. Len(t) /\ Len(s) + 1 \in 1 .. Len(t)
           /\ \A i : Open(t, i) <=> Open(s, i) \/ i = Len(b)
<1> DEFINE S == Calls
           c == [field |-> Len(a) + 1, next |-> 1]
<1>1. /\ Len(a) \in Nat /\ Len(b) = Len(a) + 1
  BY MadeLast
<1>2. c \in S /\ c.field = Len(b) /\ c.next = 1
  BY <1>1 DEF Calls
<1>3. s \in Seq(S) /\ t = Append(s, c)
  BY DEF CallOf
<1> HIDE DEF S, c
<1>4. /\ t \in Seq(S) /\ Len(s) \in Nat /\ Len(t) = Len(s) + 1
      /\ \A n \in 1 .. Len(s) : t[n] = s[n]
      /\ t[Len(s) + 1] = c
      /\ \A n \in 1 .. Len(t) : n \in 1 .. Len(s) \/ n = Len(s) + 1
      /\ 1 .. Len(s) \subseteq 1 .. Len(t) /\ Len(s) + 1 \in 1 .. Len(t)
  BY <1>2, <1>3, Pushed
<1>5. \A i : Open(t, i) <=> Open(s, i) \/ i = Len(b)
  BY <1>2, <1>4, Zenon DEF Open
<1>6. t \in Seq(Calls)
  BY <1>4 DEF S
<1> QED
  BY <1>2, <1>4, <1>5, <1>6, Zenon

(* The calls have different fields, all made.                              *)
LEMMA CallsDiffer ==
    ASSUME NEW f, NEW a, NEW s, NEW g, Chain(f, a, s, g)
    PROVE  /\ \A i : Open(s, i) => i \in 1 .. Len(a)
           /\ \A n, k \in 1 .. Len(s) : s[n].field = s[k].field => n = k
<1>1. \A n \in 1 .. Len(s) : s[n].field \in 1 .. Len(a) /\ Len(g[s[n].field]) = n
  BY Zenon DEF Chain
<1>2. \A i : Open(s, i) => i \in 1 .. Len(a)
  BY <1>1, Zenon DEF Open
<1>3. ASSUME NEW n \in 1 .. Len(s), NEW k \in 1 .. Len(s), s[n].field = s[k].field
      PROVE  n = k
  BY <1>1, <1>3, Zenon
<1> QED
  BY <1>2, <1>3, Zenon

LEMMA ChainGrows ==
    ASSUME NEW f, FormOK(f), NEW a, NEW e, NEW b, MadeTypes(a, e, b),
           NEW s, NEW g, Chain(f, a, s, g), NEW t, t = CallOf(a, s), Entering(s, e),
           NEW h, \A i \in 0 .. Len(a) : h[i] = g[i], Len(h[Len(b)]) = Len(s) + 1
    PROVE  Chain(f, b, t, h)
<1>0. s \in Seq(Calls)
  BY DEF Chain
<1>1. /\ t \in Seq(Calls) /\ Len(s) \in Nat /\ Len(t) = Len(s) + 1
      /\ \A n \in 1 .. Len(s) : t[n] = s[n]
      /\ t[Len(s) + 1].field = Len(b) /\ t[Len(s) + 1].next = 1
      /\ \A n \in 1 .. Len(t) : n \in 1 .. Len(s) \/ n = Len(s) + 1
  BY <1>0, CalledLast
<1>2. /\ b \in Seq(Fields) /\ Len(a) \in Nat /\ Len(b) = Len(a) + 1
      /\ \A i \in 1 .. Len(a) : b[i] = a[i]
      /\ b[Len(a) + 1] = e
      /\ 1 .. Len(a) \subseteq 1 .. Len(b) /\ Len(a) + 1 \in 1 .. Len(b)
  BY MadeLast
<1>3. ASSUME NEW n \in 1 .. Len(t)
      PROVE  /\ t[n].field \in 1 .. Len(b)
             /\ Len(h[t[n].field]) = n
             /\ t[n].next <= Len(KidsIn(f, b[t[n].field].dict)) + 1
             /\ n = 1 => b[t[n].field].parent = 0
             /\ n > 1 => /\ b[t[n].field].parent = t[n - 1].field
                         /\ b[t[n].field].at = t[n - 1].next
  <2>1. CASE n \in 1 .. Len(s)
    <3>1. /\ s[n].field \in 1 .. Len(a)
          /\ Len(g[s[n].field]) = n
          /\ s[n].next <= Len(KidsIn(f, a[s[n].field].dict)) + 1
          /\ n = 1 => a[s[n].field].parent = 0
          /\ n > 1 => /\ a[s[n].field].parent = s[n - 1].field
                      /\ a[s[n].field].at = s[n - 1].next
      BY <2>1, Zenon DEF Chain
    <3>2. s[n].field \in 0 .. Len(a) /\ s[n].field \in 1 .. Len(b)
      BY <1>2, <3>1
    <3>3. n > 1 => n - 1 \in 1 .. Len(s)
      BY <1>1, <2>1
    <3>4. t[n] = s[n] /\ b[s[n].field] = a[s[n].field] /\ h[s[n].field] = g[s[n].field]
      BY <1>1, <1>2, <2>1, <3>1, <3>2, Zenon
    <3>5. n > 1 => t[n - 1] = s[n - 1]
      BY <1>1, <3>3, Zenon
    <3> QED
      BY <3>1, <3>2, <3>4, <3>5, Zenon
  <2>2. CASE n = Len(s) + 1
    <3>1. t[n].field = Len(b) /\ t[n].next = 1 /\ Len(b) \in 1 .. Len(b) /\ b[Len(b)] = e
      BY <1>1, <1>2, <2>2
    <3>2. Len(KidsIn(f, e.dict)) \in Nat
      BY KidsTypes DEF MadeTypes, Fields
    <3>3. n = 1 => s = <<>>
      BY <1>0, <1>1, <2>2, EmptySeq
    <3>4. n > 1 => s # <<>> /\ n - 1 = Len(s) /\ t[n - 1] = s[Len(s)]
      BY <1>0, <1>1, <2>2, EmptySeq
    <3> QED
      BY <2>2, <3>1, <3>2, <3>3, <3>4 DEF Entering
  <2> QED
    BY <1>1, <2>1, <2>2
<1> QED
  BY <1>1, <1>3, Zenon DEF Chain

LEMMA RootsDoneGrows ==
    ASSUME NEW f, NEW a, NEW e, NEW b, MadeTypes(a, e, b), NEW r \in Nat \ {0}, RootsDone(f, a, r),
           NEW q, \/ e.parent = 0 /\ e.at = r /\ q = r + 1
                  \/ e.parent # 0 /\ q = r
    PROVE  RootsDone(f, b, q)
<1>1. /\ Len(a) \in Nat /\ Len(b) = Len(a) + 1
      /\ \A i \in 1 .. Len(a) : b[i] = a[i]
      /\ b[Len(a) + 1] = e
      /\ \A i \in 1 .. Len(b) : i \in 1 .. Len(a) \/ i = Len(a) + 1
  BY MadeLast
<1>2. \A i, k : MadeAt(b, i, k) <=> MadeAt(a, i, k) \/ (e.parent = i /\ e.at = k)
  BY MadeMore
<1>3. \A k \in 1 .. q - 1 : k \in 1 .. r - 1 \/ (k = r /\ e.parent = 0 /\ e.at = r)
  OBVIOUS
<1>4. \A k \in 1 .. q - 1 : f.roots[k] # NoDict => MadeAt(b, 0, k)
  BY <1>2, <1>3, Zenon DEF RootsDone
<1>5. ASSUME NEW j \in 1 .. Len(b), b[j].parent = 0
      PROVE  b[j].at < q
  <2>1. CASE j \in 1 .. Len(a)
    <3>1. a[j].at < r /\ b[j] = a[j]
      BY <1>1, <1>5, <2>1 DEF RootsDone
    <3>2. a[j] \in Fields
      BY <2>1, ElementOfSeq DEF MadeTypes
    <3> QED
      BY <3>1, <3>2 DEF Fields
  <2>2. CASE j = Len(a) + 1
    BY <1>1, <1>5, <2>2
  <2> QED
    BY <1>1, <2>1, <2>2
<1> QED
  BY <1>4, <1>5, Zenon DEF RootsDone

LEMMA KidsDoneGrows ==
    ASSUME NEW f, NEW a, NEW e, NEW b, MadeTypes(a, e, b), Tree(f, a), e.parent \in 0 .. Len(a),
           NEW s, NEW g, Chain(f, a, s, g), NEW t, t = CallOf(a, s), Entering(s, e),
           KidsDone(f, a, s)
    PROVE  KidsDone(f, b, t)
<1>0. s \in Seq(Calls)
  BY DEF Chain
<1>1. /\ t \in Seq(Calls) /\ Len(s) \in Nat /\ Len(t) = Len(s) + 1
      /\ \A n \in 1 .. Len(s) : t[n] = s[n]
      /\ t[Len(s) + 1].field = Len(b) /\ t[Len(s) + 1].next = 1
      /\ \A n \in 1 .. Len(t) : n \in 1 .. Len(s) \/ n = Len(s) + 1
      /\ \A i : Open(t, i) <=> Open(s, i) \/ i = Len(b)
  BY <1>0, CalledLast, SMTT(20)
<1>2. /\ b \in Seq(Fields) /\ Len(a) \in Nat /\ Len(b) = Len(a) + 1
      /\ \A i \in 1 .. Len(a) : b[i] = a[i]
      /\ b[Len(a) + 1] = e
      /\ \A i \in 1 .. Len(b) : i \in 1 .. Len(a) \/ i = Len(a) + 1
  BY MadeLast
<1>3. \A i, k : MadeAt(b, i, k) <=> MadeAt(a, i, k) \/ (e.parent = i /\ e.at = k)
  BY MadeMore
<1>4. ASSUME NEW i \in 1 .. Len(b), ~Open(t, i), NEW k \in Nat, FieldAt(f, b[i].dict, k)
      PROVE  MadeAt(b, i, k)
  <2>1. i \in 1 .. Len(a) /\ ~Open(s, i) /\ b[i] = a[i]
    BY <1>1, <1>2, <1>4
  <2> QED
    BY <1>3, <1>4, <2>1, Zenon DEF KidsDone
<1>5. ASSUME NEW n \in 1 .. Len(s)
      PROVE  /\ \A k \in 1 .. t[n].next - 1 :
                   FieldAt(f, b[t[n].field].dict, k) => MadeAt(b, t[n].field, k)
             /\ \A j \in 1 .. Len(b) : b[j].parent = t[n].field =>
                   b[j].at <= t[n].next /\ (n = Len(t) => b[j].at < t[n].next)
  <2>1. s[n].field \in 1 .. Len(a) /\ t[n] = s[n]
    BY <1>1, CallsDiffer, Zenon DEF Chain
  <2>2. b[s[n].field] = a[s[n].field] /\ n # Len(t)
    BY <1>1, <1>2, <2>1
  <2>3. \A k \in 1 .. t[n].next - 1 :
            FieldAt(f, b[t[n].field].dict, k) => MadeAt(b, t[n].field, k)
    BY <1>3, <2>1, <2>2, Zenon DEF KidsDone
  <2>4. ASSUME NEW j \in 1 .. Len(b), b[j].parent = t[n].field
        PROVE  b[j].at <= t[n].next
    <3>1. CASE j \in 1 .. Len(a)
      BY <1>2, <2>1, <2>4, <3>1, Zenon DEF KidsDone
    <3>2. CASE j = Len(a) + 1
      <4>1. s # <<>> /\ Len(s) \in 1 .. Len(s)
        BY <1>0, <1>1, EmptySeq
      <4>2. e.parent = s[n].field /\ e.parent = s[Len(s)].field /\ e.at = s[Len(s)].next
        BY <1>2, <2>1, <2>4, <3>2, <4>1 DEF Entering
      <4>3. n = Len(s)
        BY <4>1, <4>2, CallsDiffer, Zenon
      <4>4. s[n] \in Calls
        BY <1>0, ElementOfSeq
      <4> QED
        BY <1>2, <2>1, <3>2, <4>2, <4>3, <4>4 DEF Calls
    <3> QED
      BY <1>2, <3>1, <3>2
  <2> QED
    BY <2>2, <2>3, <2>4, Zenon
<1>6. ASSUME NEW n, n = Len(s) + 1
      PROVE  /\ \A k \in 1 .. t[n].next - 1 :
                   FieldAt(f, b[t[n].field].dict, k) => MadeAt(b, t[n].field, k)
             /\ \A j \in 1 .. Len(b) : b[j].parent = t[n].field =>
                   b[j].at <= t[n].next /\ (n = Len(t) => b[j].at < t[n].next)
  <2>1. t[n].field = Len(b) /\ t[n].next = 1
    BY <1>1, <1>6
  <2>2. 1 .. t[n].next - 1 = {}
    BY <2>1
  <2>3. \A j \in 1 .. Len(b) : b[j].parent # Len(b)
    <3>1. ASSUME NEW j \in 1 .. Len(a)
          PROVE  a[j].parent # Len(b)
      <4>1. a[j].parent \in 0 .. j - 1
        BY DEF Tree
      <4> QED
        BY <1>2, <4>1
    <3> QED
      BY <1>2, <3>1
  <2> QED
    BY <2>1, <2>2, <2>3, Zenon
<1> QED
  BY <1>1, <1>4, <1>5, <1>6, Zenon DEF KidsDone

LEMMA NothingTaken ==
    ASSUME NEW f, NEW kids
    PROVE  TakenIn(f, <<>>, kids, 0)
<1>1. DOMAIN <<>> = {} /\ 1 .. 0 = {}
  OBVIOUS
<1> DEFINE from == [i \in {} |-> 0]
<1>2. from \in [DOMAIN <<>> -> 1 .. 0]
  BY <1>1
<1>3. {from[i] : i \in DOMAIN <<>>} = {}
  BY <1>1
<1>4. WidgetsIn(f, kids, 0) = {}
  BY <1>1 DEF WidgetsIn
<1> QED
  BY <1>1, <1>2, <1>3, <1>4 DEF TakenIn

LEMMA ControlsGrow ==
    ASSUME NEW f, NEW a, NEW e, NEW b, MadeTypes(a, e, b),
           NEW s, NEW g, Chain(f, a, s, g), NEW t, t = CallOf(a, s),
           ControlsTaken(f, a, s),
           e.controls = IF f.dicts[e.dict].kids = NoKids THEN <<e.dict>> ELSE <<>>
    PROVE  ControlsTaken(f, b, t)
<1>0. s \in Seq(Calls)
  BY DEF Chain
<1>1. /\ Len(s) \in Nat /\ Len(t) = Len(s) + 1
      /\ \A n \in 1 .. Len(s) : t[n] = s[n]
      /\ t[Len(s) + 1].field = Len(b) /\ t[Len(s) + 1].next = 1
      /\ \A n \in 1 .. Len(t) : n \in 1 .. Len(s) \/ n = Len(s) + 1
      /\ \A i : Open(t, i) <=> Open(s, i) \/ i = Len(b)
  BY <1>0, CalledLast
<1>2. /\ b \in Seq(Fields) /\ Len(a) \in Nat /\ Len(b) = Len(a) + 1
      /\ \A i \in 1 .. Len(a) : b[i] = a[i]
      /\ b[Len(a) + 1] = e
      /\ \A i \in 1 .. Len(b) : i \in 1 .. Len(a) \/ i = Len(a) + 1
  BY MadeLast
<1>3. \A i \in 1 .. Len(a) : i # Len(b)
  BY <1>2
<1>4. ASSUME NEW i \in 1 .. Len(a)
      PROVE  ControlsOf(f, b, t, i)
  <2>1. b[i] = a[i] /\ (Open(t, i) <=> Open(s, i))
    BY <1>1, <1>2, <1>3, Zenon
  <2>2. \A n \in 1 .. Len(t) : t[n].field = i => n \in 1 .. Len(s) /\ t[n] = s[n] /\ s[n].field = i
    BY <1>1, <1>3, Zenon
  <2> QED
    BY <2>1, <2>2, Zenon DEF ControlsTaken, ControlsOf
<1>5. ASSUME NEW i, i = Len(b)
      PROVE  ControlsOf(f, b, t, i)
  <2>1. b[i] = e /\ Open(t, i)
    BY <1>1, <1>2, <1>5, Zenon
  <2>2. \A n \in 1 .. Len(t) : t[n].field = i => t[n].next - 1 = 0
    <3>1. \A n \in 1 .. Len(s) : s[n].field \in 1 .. Len(a)
      BY Zenon DEF Chain
    <3>2. \A n \in 1 .. Len(t) : t[n].field = i => n = Len(s) + 1
      BY <1>1, <1>3, <1>5, <3>1, Zenon
    <3>3. t[Len(s) + 1].next - 1 = 0
      BY <1>1
    <3> QED
      BY <3>2, <3>3, Zenon
  <2> QED
    BY <2>1, <2>2, NothingTaken, Zenon DEF ControlsOf
<1> QED
  BY <1>2, <1>4, <1>5, Zenon DEF ControlsTaken

LEMMA ListedGrows ==
    ASSUME NEW f, NEW a, NEW e, NEW b, MadeTypes(a, e, b), Tree(f, a),
           NEW s, NEW g, Chain(f, a, s, g), NEW t, t = CallOf(a, s), Entering(s, e),
           NEW l, ReturnedListed(a, s, l)
    PROVE  ReturnedListed(b, t, l)
<1>0. s \in Seq(Calls)
  BY DEF Chain
<1>1. /\ Len(s) \in Nat
      /\ \A i : Open(t, i) <=> Open(s, i) \/ i = Len(b)
  BY <1>0, CalledLast
<1>2. /\ b \in Seq(Fields) /\ Len(a) \in Nat /\ Len(b) = Len(a) + 1
      /\ \A i \in 1 .. Len(a) : b[i] = a[i]
      /\ b[Len(a) + 1] = e
      /\ \A i \in 1 .. Len(b) : i \in 1 .. Len(a) \/ i = Len(a) + 1
      /\ 1 .. Len(a) \subseteq 1 .. Len(b) /\ Len(a) + 1 \in 1 .. Len(b)
  BY MadeLast
<1>3. \A i \in 1 .. Len(a) : i # Len(b) /\ i # 0
  BY <1>2
<1>4. e.parent # 0 => Open(s, e.parent)
  <2>1. s # <<>> => Len(s) \in 1 .. Len(s)
    BY <1>0, <1>1, EmptySeq
  <2> QED
    BY <2>1 DEF Entering, Open
<1>5. ASSUME NEW i \in 1 .. Len(a), ~Open(s, i)
      PROVE  ListedIn(b, i) <=> ListedIn(a, i)
  <2>1. e.parent # i
    BY <1>3, <1>4, <1>5
  <2>2. (\A j \in 1 .. Len(b) : b[j].parent # i) <=> (\A j \in 1 .. Len(a) : a[j].parent # i)
    BY <1>2, <2>1, Zenon
  <2> QED
    BY <1>2, <2>2, Zenon DEF ListedIn
<1>6. \A k \in 1 .. Len(l) : l[k] \in 1 .. Len(b) /\ ~Open(t, l[k]) /\ ListedIn(b, l[k])
  BY <1>1, <1>2, <1>3, <1>5, Zenon DEF ReturnedListed
<1>7. ASSUME NEW i \in 1 .. Len(b), ~Open(t, i), ListedIn(b, i)
      PROVE  \E k \in 1 .. Len(l) : l[k] = i
  <2>1. i \in 1 .. Len(a) /\ ~Open(s, i)
    BY <1>1, <1>2, <1>7
  <2> QED
    BY <1>5, <1>7, <2>1, Zenon DEF ReturnedListed
<1> QED
  BY <1>6, <1>7, Zenon DEF ReturnedListed

LEMMA FiledGrows ==
    ASSUME NEW a, NEW s, NEW l, ReturnedListed(a, s, l), NEW b, NEW m, ListedFiled(l, b, m),
           NEW w, \A i \in 1 .. Len(a) : w[i] = m[i]
    PROVE  ListedFiled(l, b, w)
<1>1. \A k \in 1 .. Len(l) : w[l[k]] = m[l[k]]
  BY Zenon DEF ReturnedListed
<1> QED
  BY <1>1, Zenon DEF ListedFiled

(* Together: a field is made and its call begun.                           *)
LEMMA EnterWalked ==
    ASSUME NEW f, NEW a, NEW s, NEW r, NEW l, NEW c, NEW g, NEW m,
           Walked(f, a, s, r, l, c, g, m),
           NEW e, NEW b, MadeTypes(a, e, b), NEW t, t = CallOf(a, s), Entering(s, e),
           e.parent \in 0 .. Len(a), Len(s) < MaxDepth,
           e.parent = 0 => /\ s = <<>> /\ e.at = r /\ r <= Len(f.roots)
                           /\ f.roots[r] # NoDict /\ f.roots[r] = e.dict,
           e.parent # 0 => /\ FieldAt(f, a[e.parent].dict, e.at)
                           /\ KidsIn(f, a[e.parent].dict)[e.at] = e.dict,
           e.controls = IF f.dicts[e.dict].kids = NoKids THEN <<e.dict>> ELSE <<>>,
           NEW q, q = IF e.parent = 0 THEN r + 1 ELSE r
    PROVE  \E h, w : Walked(f, b, t, q, l, c, h, w)
<1>0. PICK h, w : h = PlacesWith(g, e, b) /\ w = NamesWith(f, m, e, b)
  OBVIOUS
<1>1. /\ FormOK(f) /\ r \in 1 .. Len(f.roots) + 1
      /\ Tree(f, a) /\ Placed(a, g) /\ Named(f, a, m) /\ Chain(f, a, s, g)
      /\ RootsDone(f, a, r) /\ KidsDone(f, a, s) /\ ControlsTaken(f, a, s)
      /\ ReturnedListed(a, s, l) /\ ListedFiled(l, c, m)
  BY DEF Walked
<1>2. s \in Seq(Calls) /\ Len(s) \in Nat /\ (s # <<>> => Len(s) \in 1 .. Len(s))
  <2>1. s \in Seq(Calls) /\ Len(s) \in Nat
    BY <1>1, LenProperties DEF Chain
  <2> QED
    BY <2>1, EmptySeq
<1>3. Len(f.roots) \in Nat /\ r \in Nat \ {0}
  BY <1>1, LenProperties DEF FormOK
<1>4. s # <<>> => e.parent = s[Len(s)].field /\ e.at = s[Len(s)].next /\ e.parent \in 1 .. Len(a)
  BY <1>1, <1>2 DEF Entering, Chain
<1>5. e.parent = 0 <=> s = <<>>
  BY <1>4 DEF Entering
<1>6. ~MadeAt(a, e.parent, e.at)
  <2>1. CASE s = <<>>
    <3>1. \A j \in 1 .. Len(a) : a[j].parent = 0 => a[j].at < r
      BY <1>1, Zenon DEF RootsDone
    <3>2. ~(r < r)
      BY <1>3
    <3> QED
      BY <1>5, <2>1, <3>1, <3>2, Zenon DEF MadeAt
  <2>2. CASE s # <<>>
    <3>1. \A j \in 1 .. Len(a) : a[j].parent = s[Len(s)].field => a[j].at < s[Len(s)].next
      BY <1>1, <1>2, <2>2, Zenon DEF KidsDone
    <3>2. s[Len(s)] \in Calls
      BY <1>2, <2>2, ElementOfSeq
    <3>3. ~(s[Len(s)].next < s[Len(s)].next)
      BY <3>2 DEF Calls
    <3> QED
      BY <1>4, <2>2, <3>1, <3>3, Zenon DEF MadeAt
  <2> QED
    BY <2>1, <2>2
<1>7. Len(g[e.parent]) = Len(s)
  <2>1. CASE s = <<>>
    BY <1>1, <1>5, <2>1, EmptySeq DEF Placed
  <2>2. CASE s # <<>>
    BY <1>1, <1>2, <1>4, <2>2, Zenon DEF Chain
  <2> QED
    BY <2>1, <2>2
<1>8. Len(g[e.parent]) + 1 <= MaxDepth
  BY <1>2, <1>7, MaxDepthAssumption
<1>9. Tree(f, b)
  BY <1>1, <1>3, <1>6, TreeGrows
<1>10. /\ Placed(b, h)
       /\ \A i \in 0 .. Len(a) : h[i] = g[i]
       /\ Len(h[Len(b)]) = Len(s) + 1
  BY <1>0, <1>1, <1>7, <1>8, PlacedGrows
<1>11. Named(f, b, w) /\ \A i \in 0 .. Len(a) : w[i] = m[i]
  BY <1>0, <1>1, NamedGrows
<1>12. Chain(f, b, t, h)
  BY <1>1, <1>10, ChainGrows
<1>13. RootsDone(f, b, q)
  BY <1>1, <1>3, RootsDoneGrows
<1>14. KidsDone(f, b, t)
  BY <1>1, KidsDoneGrows
<1>15. ControlsTaken(f, b, t)
  BY <1>1, ControlsGrow
<1>16. ReturnedListed(b, t, l)
  BY <1>1, ListedGrows
<1>17. ListedFiled(l, c, w)
  <2>1. \A i \in 1 .. Len(a) : w[i] = m[i]
    BY <1>11, MadeLast
  <2> QED
    BY <1>1, <2>1, FiledGrows
<1>18. q \in 1 .. Len(f.roots) + 1
  BY <1>1, <1>3
<1> QED
  BY <1>1, <1>9, <1>10, <1>11, <1>12, <1>13, <1>14, <1>15, <1>16, <1>17, <1>18, Zenon DEF Walked

-----------------------------------------------------------------------------
(* A kid that is no field is passed: a widget is taken, nothing else.      *)
LEMMA WidgetsNext ==
    ASSUME NEW f, NEW kids, NEW n \in Nat
    PROVE  WidgetsIn(f, kids, n + 1)
              = WidgetsIn(f, kids, n)
                \cup (IF kids[n + 1] # NoDict /\ ~IsFieldIn(f, kids[n + 1]) THEN {n + 1} ELSE {})
<1>1. 1 .. n + 1 = (1 .. n) \cup {n + 1}
  OBVIOUS
<1> QED
  BY <1>1 DEF WidgetsIn

LEMMA NoWidgetTaken ==
    ASSUME NEW f, NEW c, NEW kids, NEW n \in Nat, TakenIn(f, c, kids, n),
           kids[n + 1] = NoDict \/ IsFieldIn(f, kids[n + 1])
    PROVE  TakenIn(f, c, kids, n + 1)
<1>1. PICK from \in [DOMAIN c -> 1 .. n] :
          /\ \A i, j \in DOMAIN c : i < j => from[i] < from[j]
          /\ {from[i] : i \in DOMAIN c} = WidgetsIn(f, kids, n)
          /\ \A i \in DOMAIN c : c[i] = kids[from[i]]
  BY Zenon DEF TakenIn
<1>2. WidgetsIn(f, kids, n + 1) = WidgetsIn(f, kids, n)
  <2>1. ~(kids[n + 1] # NoDict /\ ~IsFieldIn(f, kids[n + 1]))
    BY Zenon
  <2>2. WidgetsIn(f, kids, n + 1) = WidgetsIn(f, kids, n) \cup {}
    BY <2>1, WidgetsNext, Zenon
  <2> QED
    BY <2>2, Zenon
<1>3. 1 .. n \subseteq 1 .. n + 1
  OBVIOUS
<1>4. from \in [DOMAIN c -> 1 .. n + 1]
  BY <1>3
<1> QED
  BY <1>1, <1>2, <1>4, Zenon DEF TakenIn

LEMMA WidgetTaken ==
    ASSUME NEW f, NEW S, NEW c \in Seq(S), NEW kids, NEW n \in Nat, TakenIn(f, c, kids, n),
           NEW kid \in S, kid = kids[n + 1], kid # NoDict, ~IsFieldIn(f, kid)
    PROVE  TakenIn(f, Append(c, kid), kids, n + 1)
<1>1. PICK from \in [DOMAIN c -> 1 .. n] :
          /\ \A i, j \in DOMAIN c : i < j => from[i] < from[j]
          /\ {from[i] : i \in DOMAIN c} = WidgetsIn(f, kids, n)
          /\ \A i \in DOMAIN c : c[i] = kids[from[i]]
  BY Zenon DEF TakenIn
<1>2. PICK b : b = Append(c, kid)
  OBVIOUS
<1>3. /\ b \in Seq(S) /\ Len(c) \in Nat /\ Len(b) = Len(c) + 1
      /\ \A i \in 1 .. Len(c) : b[i] = c[i]
      /\ b[Len(c) + 1] = kid
      /\ \A i \in 1 .. Len(b) : i \in 1 .. Len(c) \/ i = Len(c) + 1
      /\ 1 .. Len(c) \subseteq 1 .. Len(b) /\ Len(c) + 1 \in 1 .. Len(b)
  BY <1>2, Pushed
<1>4. DOMAIN c = 1 .. Len(c) /\ DOMAIN b = 1 .. Len(b)
  BY <1>3, LenProperties
<1>5. PICK to : to = [i \in 1 .. Len(b) |-> IF i = Len(b) THEN n + 1 ELSE from[i]]
  OBVIOUS
<1>6. \A i \in 1 .. Len(c) : i # Len(b) /\ from[i] \in 1 .. n
  BY <1>1, <1>3, <1>4
<1>7. /\ \A i \in 1 .. Len(c) : to[i] = from[i]
      /\ to[Len(b)] = n + 1
  BY <1>3, <1>5, <1>6
<1>8. to \in [DOMAIN b -> 1 .. n + 1]
  <2>1. \A i \in 1 .. Len(b) : to[i] \in 1 .. n + 1
    BY <1>3, <1>6, <1>7
  <2> QED
    BY <1>4, <1>5, <2>1
<1>9. ASSUME NEW i \in DOMAIN b, NEW j \in DOMAIN b, i < j
      PROVE  to[i] < to[j]
  <2>1. i \in 1 .. Len(c)
    BY <1>3, <1>4, <1>9
  <2>2. CASE j \in 1 .. Len(c)
    BY <1>1, <1>4, <1>7, <1>9, <2>1, <2>2, Zenon
  <2>3. CASE j = Len(b)
    BY <1>6, <1>7, <2>1, <2>3
  <2> QED
    BY <1>3, <1>4, <2>2, <2>3
<1>10. {to[i] : i \in DOMAIN b} = WidgetsIn(f, kids, n + 1)
  <2>1. {to[i] : i \in DOMAIN b} = {from[i] : i \in DOMAIN c} \cup {n + 1}
    <3>1. \A i \in DOMAIN b : (i \in DOMAIN c /\ to[i] = from[i]) \/ to[i] = n + 1
      BY <1>3, <1>4, <1>7
    <3>2. \A i \in DOMAIN c : i \in DOMAIN b /\ to[i] = from[i]
      BY <1>3, <1>4, <1>7
    <3>3. Len(b) \in DOMAIN b /\ to[Len(b)] = n + 1
      BY <1>3, <1>4, <1>7
    <3> QED
      BY <3>1, <3>2, <3>3
  <2>2. WidgetsIn(f, kids, n + 1) = WidgetsIn(f, kids, n) \cup {n + 1}
    BY WidgetsNext
  <2> QED
    BY <1>1, <2>1, <2>2
<1>11. \A i \in DOMAIN b : b[i] = kids[to[i]]
  BY <1>1, <1>3, <1>4, <1>7
<1> QED
  BY <1>2, <1>8, <1>9, <1>10, <1>11, Zenon DEF TakenIn

(* The fields differ in their controls only.                               *)
SameTree(a, b) ==
    /\ a \in Seq(Fields) /\ b \in Seq(Fields) /\ Len(b) = Len(a)
    /\ \A i \in 1 .. Len(a) : b[i].dict = a[i].dict /\ b[i].at = a[i].at /\ b[i].parent = a[i].parent

LEMMA SameTreeKeeps ==
    ASSUME NEW f, NEW a, NEW b, SameTree(a, b), NEW g, NEW m, NEW s, NEW r, NEW l,
           Tree(f, a), Placed(a, g), Named(f, a, m), Chain(f, a, s, g),
           RootsDone(f, a, r), KidsDone(f, a, s), ReturnedListed(a, s, l)
    PROVE  /\ Tree(f, b) /\ Placed(b, g) /\ Named(f, b, m) /\ Chain(f, b, s, g)
           /\ RootsDone(f, b, r) /\ KidsDone(f, b, s) /\ ReturnedListed(b, s, l)
<1>1. /\ b \in Seq(Fields) /\ Len(b) = Len(a) /\ Len(a) \in Nat
      /\ \A i \in 1 .. Len(a) : b[i].dict = a[i].dict /\ b[i].at = a[i].at /\ b[i].parent = a[i].parent
  BY LenProperties DEF SameTree
<1>2. \A i, k : MadeAt(b, i, k) <=> MadeAt(a, i, k)
  BY <1>1, Zenon DEF MadeAt
<1>3. Tree(f, b)
  <2>1. \A i \in 1 .. Len(a) : a[i].parent # 0 => a[i].parent \in 1 .. Len(a)
    BY <1>1 DEF Tree
  <2>2. ASSUME NEW i \in 1 .. Len(a)
        PROVE  /\ b[i].parent \in 0 .. i - 1
               /\ b[i].parent = 0 =>
                     /\ b[i].at \in 1 .. Len(f.roots)
                     /\ f.roots[b[i].at] # NoDict /\ f.roots[b[i].at] = b[i].dict
               /\ b[i].parent # 0 =>
                     /\ FieldAt(f, b[b[i].parent].dict, b[i].at)
                     /\ KidsIn(f, b[b[i].parent].dict)[b[i].at] = b[i].dict
    <3>1. b[i].dict = a[i].dict /\ b[i].at = a[i].at /\ b[i].parent = a[i].parent
      BY <1>1
    <3>2. a[i].parent # 0 => b[a[i].parent].dict = a[a[i].parent].dict
      BY <1>1, <2>1
    <3> QED
      BY <3>1, <3>2, Zenon DEF Tree
  <2>3. \A i, j \in 1 .. Len(b) : b[i].parent = b[j].parent /\ b[i].at = b[j].at => i = j
    BY <1>1, Zenon DEF Tree
  <2> QED
    BY <1>1, <2>2, <2>3, Zenon DEF Tree
<1>4. Placed(b, g)
  BY <1>1, Zenon DEF Placed
<1>5. Named(f, b, m)
  <2>1. \A i \in 1 .. Len(a) : Called(f, b, m, i) = Called(f, a, m, i)
    BY <1>1, Zenon DEF Called
  <2> QED
    BY <1>1, <2>1, Zenon DEF Named
<1>6. \A n \in 1 .. Len(s) : s[n].field \in 1 .. Len(a)
  BY Zenon DEF Chain
<1>7. \A n \in 1 .. Len(s) : /\ b[s[n].field].dict = a[s[n].field].dict
                             /\ b[s[n].field].at = a[s[n].field].at
                             /\ b[s[n].field].parent = a[s[n].field].parent
  BY <1>1, <1>6, Zenon
<1>8. Chain(f, b, s, g)
  BY <1>1, <1>7, Zenon DEF Chain
<1>9. RootsDone(f, b, r)
  BY <1>1, <1>2, Zenon DEF RootsDone
<1>10. KidsDone(f, b, s)
  <2>1. \A i \in 1 .. Len(b) :
            ~Open(s, i) => \A k \in Nat : FieldAt(f, b[i].dict, k) => MadeAt(b, i, k)
    BY <1>1, <1>2, Zenon DEF KidsDone
  <2>2. ASSUME NEW n \in 1 .. Len(s)
        PROVE  /\ \A k \in 1 .. s[n].next - 1 :
                     FieldAt(f, b[s[n].field].dict, k) => MadeAt(b, s[n].field, k)
               /\ \A j \in 1 .. Len(b) : b[j].parent = s[n].field =>
                     b[j].at <= s[n].next /\ (n = Len(s) => b[j].at < s[n].next)
    BY <1>1, <1>2, <1>7, Zenon DEF KidsDone
  <2> QED
    BY <2>1, <2>2, Zenon DEF KidsDone
<1>11. ReturnedListed(b, s, l)
  <2>1. \A i \in 1 .. Len(a) : ListedIn(b, i) <=> ListedIn(a, i)
    BY <1>1, Zenon DEF ListedIn
  <2> QED
    BY <1>1, <2>1, Zenon DEF ReturnedListed
<1> QED
  BY <1>3, <1>4, <1>5, <1>8, <1>9, <1>10, <1>11

(* The last call goes on to the next kid.                                  *)
OneOn(s) == [s EXCEPT ![Len(s)].next = @ + 1]

LEMMA NextKid ==
    ASSUME NEW c \in Calls, NEW d, d = [c EXCEPT !.next = @ + 1]
    PROVE  d \in Calls /\ d.field = c.field /\ d.next = c.next + 1
BY DEF Calls

LEMMA WentOn ==
    ASSUME NEW s \in Seq(Calls), s # <<>>, NEW t, t = OneOn(s)
    PROVE  /\ t \in Seq(Calls) /\ Len(t) = Len(s) /\ Len(s) \in Nat /\ Len(s) \in 1 .. Len(s)
           /\ \A n \in 1 .. Len(s) : t[n].field = s[n].field
           /\ \A n \in 1 .. Len(s) : n # Len(s) => t[n] = s[n]
           /\ s[Len(s)] \in Calls /\ t[Len(s)].next = s[Len(s)].next + 1
           /\ \A i : Open(t, i) <=> Open(s, i)
<1> DEFINE c == [s[Len(s)] EXCEPT !.next = @ + 1]
<1>1. Len(s) \in Nat /\ Len(s) \in 1 .. Len(s) /\ DOMAIN s = 1 .. Len(s)
  BY EmptySeq, LenProperties
<1>2. s[Len(s)] \in Calls
  BY <1>1, ElementOfSeq, Zenon
<1>3. c \in Calls /\ c.field = s[Len(s)].field /\ c.next = s[Len(s)].next + 1
  <2>1. c = [s[Len(s)] EXCEPT !.next = @ + 1]
    OBVIOUS
  <2> HIDE DEF c
  <2> QED
    BY <1>2, <2>1, NextKid, Zenon
<1>4. t = [s EXCEPT ![Len(s)] = c]
  BY DEF OneOn
<1> HIDE DEF c
<1>5. t \in Seq(Calls) /\ Len(t) = Len(s)
  BY <1>1, <1>3, <1>4, ExceptSeq
<1>6. \A n \in 1 .. Len(s) : t[n] = IF n = Len(s) THEN c ELSE s[n]
  BY <1>1, <1>4
<1>7. /\ \A n \in 1 .. Len(s) : t[n].field = s[n].field
      /\ \A n \in 1 .. Len(s) : n # Len(s) => t[n] = s[n]
      /\ t[Len(s)].next = s[Len(s)].next + 1
  BY <1>1, <1>3, <1>6
<1>8. \A i : Open(t, i) <=> Open(s, i)
  BY <1>5, <1>7, Zenon DEF Open
<1> QED
  BY <1>1, <1>2, <1>5, <1>7, <1>8

LEMMA WentOnKeeps ==
    ASSUME NEW f, FormOK(f), NEW a, NEW s, NEW g, NEW l,
           Tree(f, a), Chain(f, a, s, g), KidsDone(f, a, s), ReturnedListed(a, s, l),
           s # <<>>, NEW d, d = a[s[Len(s)].field].dict,
           s[Len(s)].next <= Len(KidsIn(f, d)), ~FieldAt(f, d, s[Len(s)].next),
           NEW t, t = OneOn(s)
    PROVE  Chain(f, a, t, g) /\ KidsDone(f, a, t) /\ ReturnedListed(a, t, l)
<1>0. s \in Seq(Calls)
  BY DEF Chain
<1>1. /\ t \in Seq(Calls) /\ Len(t) = Len(s) /\ Len(s) \in Nat /\ Len(s) \in 1 .. Len(s)
      /\ \A n \in 1 .. Len(s) : t[n].field = s[n].field
      /\ \A n \in 1 .. Len(s) : n # Len(s) => t[n] = s[n]
      /\ s[Len(s)] \in Calls /\ t[Len(s)].next = s[Len(s)].next + 1
      /\ \A i : Open(t, i) <=> Open(s, i)
  BY <1>0, WentOn
<1>2. s[Len(s)].next \in Nat \ {0}
  BY <1>1 DEF Calls
<1>3. \A n \in 1 .. Len(s) : s[n].field \in 1 .. Len(a)
  BY Zenon DEF Chain
<1>4. Chain(f, a, t, g)
  <2>1. ASSUME NEW n \in 1 .. Len(s)
        PROVE  t[n].next <= Len(KidsIn(f, a[t[n].field].dict)) + 1
    <3>1. CASE n = Len(s)
      <4>1. d \in Dict
        <5>1. a[s[Len(s)].field] \in Fields
          BY <1>1, <1>3, ElementOfSeq DEF Tree
        <5> QED
          BY <5>1 DEF Fields
      <4>2. Len(KidsIn(f, d)) \in Nat
        BY <4>1, KidsTypes
      <4> QED
        BY <1>1, <1>2, <3>1, <4>2
    <3>2. CASE n # Len(s)
      BY <1>1, <3>2, Zenon DEF Chain
    <3> QED
      BY <3>1, <3>2
  <2>2. ASSUME NEW n \in 1 .. Len(s), n > 1
        PROVE  a[t[n].field].parent = t[n - 1].field /\ a[t[n].field].at = t[n - 1].next
    <3>1. n - 1 \in 1 .. Len(s) /\ n - 1 # Len(s)
      BY <1>1, <2>2
    <3>2. t[n - 1] = s[n - 1] /\ t[n].field = s[n].field
      BY <1>1, <3>1, Zenon
    <3> QED
      BY <2>2, <3>2, Zenon DEF Chain
  <2>3. \A n \in 1 .. Len(s) : /\ t[n].field \in 1 .. Len(a) /\ Len(g[t[n].field]) = n
                               /\ n = 1 => a[t[n].field].parent = 0
    BY <1>1, Zenon DEF Chain
  <2> QED
    BY <1>1, <2>1, <2>2, <2>3, Zenon DEF Chain
<1>5. KidsDone(f, a, t)
  <2>1. ASSUME NEW n \in 1 .. Len(s), NEW k \in 1 .. t[n].next - 1,
               FieldAt(f, a[t[n].field].dict, k)
        PROVE  MadeAt(a, t[n].field, k)
    <3>1. t[n].field = s[n].field
      BY <1>1
    <3>2. k \in 1 .. s[n].next - 1
      <4>1. CASE n = Len(s)
        <5>1. k # s[Len(s)].next
          BY <2>1, <3>1, <4>1, Zenon
        <5>2. k \in 1 .. s[Len(s)].next
          BY <1>1, <1>2, <4>1
        <5> QED
          BY <1>2, <4>1, <5>1, <5>2
      <4>2. CASE n # Len(s)
        BY <1>1, <4>2
      <4> QED
        BY <4>1, <4>2
    <3> QED
      BY <2>1, <3>1, <3>2, Zenon DEF KidsDone
  <2>2. ASSUME NEW n \in 1 .. Len(s), NEW j \in 1 .. Len(a), a[j].parent = t[n].field
        PROVE  a[j].at <= t[n].next /\ (n = Len(t) => a[j].at < t[n].next)
    <3>1. a[j].at <= s[n].next /\ (n = Len(s) => a[j].at < s[n].next)
      BY <1>1, <2>2, Zenon DEF KidsDone
    <3>2. CASE n = Len(s)
      <4>1. a[j] \in Fields
        BY ElementOfSeq DEF Tree
      <4>2. a[j].at \in Nat
        BY <4>1 DEF Fields
      <4>3. a[j].at < s[Len(s)].next
        BY <3>1, <3>2
      <4>4. a[j].at <= t[Len(s)].next /\ a[j].at < t[Len(s)].next
        BY <1>1, <1>2, <4>2, <4>3
      <4> QED
        BY <3>2, <4>4
    <3>3. CASE n # Len(s)
      BY <1>1, <3>1, <3>3
    <3> QED
      BY <3>2, <3>3
  <2>3. \A i \in 1 .. Len(a) :
            ~Open(t, i) => \A k \in Nat : FieldAt(f, a[i].dict, k) => MadeAt(a, i, k)
    BY <1>1, Zenon DEF KidsDone
  <2> QED
    BY <1>1, <2>1, <2>2, <2>3, Zenon DEF KidsDone
<1>6. ReturnedListed(a, t, l)
  BY <1>1, Zenon DEF ReturnedListed
<1> QED
  BY <1>4, <1>5, <1>6

(* The last call, for the field x, stands at the kid n of its kids.        *)
StandsAt(f, a, s, x, kids, n) ==
    /\ s # <<>> /\ x = s[Len(s)].field /\ n = s[Len(s)].next
    /\ kids = f.dicts[a[x].dict].kids /\ kids # NoKids /\ n <= Len(kids)
WithControl(a, x, kid) ==
    IF kid = NoDict THEN a ELSE [a EXCEPT ![x].controls = Append(@, kid)]

LEMMA ControlTaken ==
    ASSUME NEW f, FormOK(f), NEW a, a \in Seq(Fields), NEW s, NEW g, Chain(f, a, s, g),
           ControlsTaken(f, a, s),
           NEW x, NEW kids, NEW n, StandsAt(f, a, s, x, kids, n),
           NEW kid, kid = kids[n], kid # NoDict => ~IsFieldIn(f, kid),
           NEW b, b = WithControl(a, x, kid),
           NEW t, t = OneOn(s)
    PROVE  SameTree(a, b) /\ ControlsTaken(f, b, t)
<1>0. s \in Seq(Calls) /\ s # <<>>
  BY DEF Chain, StandsAt
<1>a. /\ s # <<>> /\ x = s[Len(s)].field /\ n = s[Len(s)].next
      /\ kids = f.dicts[a[x].dict].kids /\ kids # NoKids /\ n <= Len(kids)
  BY DEF StandsAt
<1>1. /\ t \in Seq(Calls) /\ Len(t) = Len(s) /\ Len(s) \in Nat /\ Len(s) \in 1 .. Len(s)
      /\ \A i \in 1 .. Len(s) : t[i].field = s[i].field
      /\ \A i \in 1 .. Len(s) : i # Len(s) => t[i] = s[i]
      /\ s[Len(s)] \in Calls /\ t[Len(s)].next = s[Len(s)].next + 1
      /\ \A i : Open(t, i) <=> Open(s, i)
  BY <1>0, WentOn
<1>2. n \in Nat \ {0} /\ n - 1 \in Nat /\ (n - 1) + 1 = n /\ t[Len(s)].next - 1 = n
  <2>1. n = s[Len(s)].next /\ s[Len(s)] \in Calls /\ t[Len(s)].next = n + 1
    BY <1>1, <1>a, Zenon
  <2>2. n \in Nat \ {0}
    BY <2>1 DEF Calls
  <2> QED
    BY <2>1, <2>2
<1>3. x \in 1 .. Len(a) /\ DOMAIN a = 1 .. Len(a)
  BY <1>1, <1>a, LenProperties DEF Chain
<1>4. \A i \in 1 .. Len(a) : a[i] \in Fields /\ a[i].dict \in Dict
  <2>1. \A i \in 1 .. Len(a) : a[i] \in Fields
    BY ElementOfSeq
  <2> QED
    BY <2>1 DEF Fields
<1>5. kids \in Seq(Dict \cup {NoDict}) /\ KidsIn(f, a[x].dict) = kids
  BY <1>3, <1>4, <1>a DEF FormOK, KidsIn
<1>6. kid \in Dict \cup {NoDict}
  <2>1. Len(kids) \in Nat
    BY <1>5, LenProperties
  <2>2. n \in Nat \ {0} /\ n <= Len(kids)
    BY <1>2, <1>a, Zenon
  <2>3. n \in 1 .. Len(kids)
    BY <2>1, <2>2
  <2> QED
    BY <1>5, <2>3, ElementOfSeq, Zenon
<1>7. a[x].controls \in Seq(Dict)
  BY <1>3, <1>4 DEF Fields
<1>8. TakenIn(f, a[x].controls, kids, n - 1)
  BY <1>1, <1>3, <1>5, <1>a, Zenon DEF ControlsTaken, ControlsOf
<1>9. SameTree(a, b) /\ \A i \in 1 .. Len(a) : i # x => b[i] = a[i]
  <2>1. CASE kid = NoDict
    BY <2>1 DEF SameTree, WithControl
  <2>2. CASE kid # NoDict
    <3> DEFINE e == [a[x] EXCEPT !.controls = Append(@, kid)]
    <3>1. Append(a[x].controls, kid) \in Seq(Dict)
      BY <1>6, <1>7, <2>2, AppendProperties
    <3>2. e \in Fields /\ e.dict = a[x].dict /\ e.at = a[x].at /\ e.parent = a[x].parent
      BY <1>3, <1>4, <3>1 DEF Fields
    <3>3. b = [a EXCEPT ![x] = e]
      BY <2>2 DEF WithControl
    <3> HIDE DEF e
    <3>4. b \in Seq(Fields) /\ Len(b) = Len(a)
      BY <1>3, <3>2, <3>3, ExceptSeq
    <3>5. \A i \in 1 .. Len(a) : b[i] = IF i = x THEN e ELSE a[i]
      BY <1>3, <3>3
    <3> QED
      BY <3>2, <3>4, <3>5 DEF SameTree
  <2> QED
    BY <2>1, <2>2
<1>10. TakenIn(f, b[x].controls, kids, n)
  <2>1. CASE kid = NoDict
    <3>1. b[x].controls = a[x].controls
      BY <2>1 DEF WithControl
    <3>2. kids[(n - 1) + 1] = NoDict
      BY <1>2, <2>1
    <3>3. TakenIn(f, a[x].controls, kids, (n - 1) + 1)
      BY <1>2, <1>8, <3>2, NoWidgetTaken
    <3> QED
      BY <1>2, <3>1, <3>3
  <2>2. CASE kid # NoDict
    <3>1. b[x].controls = Append(a[x].controls, kid)
      BY <1>3, <1>4, <2>2 DEF Fields, WithControl
    <3>2. kid \in Dict /\ ~IsFieldIn(f, kid)
      BY <1>6, <2>2
    <3>3. TakenIn(f, Append(a[x].controls, kid), kids, (n - 1) + 1)
      BY <1>2, <1>7, <1>8, <2>2, <3>2, WidgetTaken
    <3> QED
      BY <1>2, <3>1, <3>3
  <2> QED
    BY <2>1, <2>2
<1>11. ControlsTaken(f, b, t)
  <2>1. ASSUME NEW i \in 1 .. Len(a), i # x
        PROVE  ControlsOf(f, b, t, i)
    <3>1. b[i] = a[i]
      BY <1>9, <2>1
    <3>2. \A j \in 1 .. Len(t) : t[j].field = i => t[j] = s[j] /\ s[j].field = i /\ j \in 1 .. Len(s)
      BY <1>1, <1>a, <2>1, Zenon
    <3> QED
      BY <1>1, <3>1, <3>2, Zenon DEF ControlsTaken, ControlsOf
  <2>2. ControlsOf(f, b, t, x)
    <3>1. b[x].dict = a[x].dict
      BY <1>3, <1>9 DEF SameTree
    <3>2. Open(s, x)
      BY <1>1, <1>a DEF Open
    <3>3. \A j \in 1 .. Len(t) : t[j].field = x => j = Len(s)
      BY <1>1, <1>a, CallsDiffer, Zenon
    <3>4. \A j \in 1 .. Len(t) : t[j].field = x => t[j].next - 1 = n
      BY <1>2, <3>3, Zenon
    <3>5. f.dicts[b[x].dict].kids # NoKids /\ KidsIn(f, b[x].dict) = kids
      BY <1>5, <1>a, <3>1, Zenon
    <3>6. Open(t, x)
      BY <1>1, <3>2, Zenon
    <3> QED
      BY <1>10, <3>4, <3>5, <3>6, Zenon DEF ControlsOf
  <2>3. Len(b) = Len(a)
    BY <1>9 DEF SameTree
  <2> QED
    BY <2>1, <2>2, <2>3, Zenon DEF ControlsTaken
<1> QED
  BY <1>9, <1>11

(* Together: a kid that is no field is passed.                             *)
LEMMA PassWalked ==
    ASSUME NEW f, NEW a, NEW s, NEW r, NEW l, NEW c, NEW g, NEW m,
           Walked(f, a, s, r, l, c, g, m),
           NEW x, NEW kids, NEW n, StandsAt(f, a, s, x, kids, n),
           NEW kid, kid = kids[n], kid # NoDict => ~IsFieldIn(f, kid),
           NEW b, b = WithControl(a, x, kid),
           NEW t, t = OneOn(s)
    PROVE  Walked(f, b, t, r, l, c, g, m)
<1>1. /\ FormOK(f) /\ r \in 1 .. Len(f.roots) + 1
      /\ Tree(f, a) /\ Placed(a, g) /\ Named(f, a, m) /\ Chain(f, a, s, g)
      /\ RootsDone(f, a, r) /\ KidsDone(f, a, s) /\ ControlsTaken(f, a, s)
      /\ ReturnedListed(a, s, l) /\ ListedFiled(l, c, m)
  BY DEF Walked
<1>2. a \in Seq(Fields)
  BY <1>1 DEF Tree
<1>a. /\ s # <<>> /\ x = s[Len(s)].field /\ n = s[Len(s)].next
      /\ kids = f.dicts[a[x].dict].kids /\ kids # NoKids /\ n <= Len(kids)
  BY DEF StandsAt
<1>3. KidsIn(f, a[x].dict) = kids
  BY <1>a DEF KidsIn
<1>4. ~FieldAt(f, a[x].dict, n)
  BY <1>3, Zenon DEF FieldAt
<1>5. Chain(f, a, t, g) /\ KidsDone(f, a, t) /\ ReturnedListed(a, t, l)
  BY <1>1, <1>3, <1>4, <1>a, WentOnKeeps
<1>6. SameTree(a, b) /\ ControlsTaken(f, b, t)
  BY <1>1, <1>2, ControlTaken
<1>7. /\ Tree(f, b) /\ Placed(b, g) /\ Named(f, b, m) /\ Chain(f, b, t, g)
      /\ RootsDone(f, b, r) /\ KidsDone(f, b, t) /\ ReturnedListed(b, t, l)
  BY <1>1, <1>5, <1>6, SameTreeKeeps
<1> QED
  BY <1>1, <1>6, <1>7, Zenon DEF Walked

-----------------------------------------------------------------------------
(* A call returns and its caller goes on.                                  *)
Without(s) == SubSeq(s, 1, Len(s) - 1)
Returned(s) == IF Len(s) - 1 = 0 THEN Without(s) ELSE OneOn(Without(s))

LEMMA CallReturned ==
    ASSUME NEW f, NEW a, NEW s, NEW g, Chain(f, a, s, g), s # <<>>, NEW t, t = Returned(s)
    PROVE  /\ t \in Seq(Calls) /\ Len(s) \in Nat \ {0} /\ Len(t) = Len(s) - 1
           /\ \A n \in 1 .. Len(s) : s[n] \in Calls
           /\ \A n \in 1 .. Len(t) : n \in 1 .. Len(s) /\ n # Len(s) /\ t[n].field = s[n].field
           /\ \A n \in 1 .. Len(t) : n # Len(t) => t[n] = s[n]
           /\ \A n \in 1 .. Len(t) : n = Len(t) => t[n].next = s[n].next + 1
           /\ \A i : Open(t, i) <=> Open(s, i) /\ i # s[Len(s)].field
<1>0. s \in Seq(Calls)
  BY DEF Chain
<1>1. Len(s) \in Nat \ {0} /\ Len(s) \in 1 .. Len(s)
  BY <1>0, EmptySeq, LenProperties
<1>2. \A n \in 1 .. Len(s) : s[n] \in Calls
  BY <1>0, ElementOfSeq
<1>3. PICK u : u = Without(s)
  OBVIOUS
<1>4. /\ u \in Seq(Calls) /\ Len(u) = Len(s) - 1
      /\ \A n \in 1 .. Len(u) : n \in 1 .. Len(s) /\ n # Len(s) /\ u[n] = s[n]
  <2>1. Len(s) - 1 \in Nat /\ Len(s) - 1 <= Len(s) /\ 1 \in Nat
    BY <1>1
  <2>2. u = SubSeq(s, 1, Len(s) - 1)
    BY <1>3 DEF Without
  <2>3. \A n \in 1 .. Len(s) - 1 : n \in 1 .. Len(s) /\ n # Len(s)
    BY <1>1
  <2>4. PICK k : k = Len(s) - 1
    OBVIOUS
  <2>5. 1 \in Int /\ k \in Int /\ \A i \in 1 .. k : s[i] \in Calls
    BY <1>2, <2>1, <2>3, <2>4
  <2>6. u = SubSeq(s, 1, k)
    BY <2>2, <2>4
  <2>7. /\ u \in Seq(Calls)
        /\ Len(u) = IF 1 <= k THEN k - 1 + 1 ELSE 0
        /\ \A i \in 1 .. k - 1 + 1 : u[i] = s[1 + i - 1]
    BY <2>5, <2>6, SubSeqProperties
  <2>8. k \in Nat
    BY <2>1, <2>4
  <2>9. k - 1 + 1 = k /\ (IF 1 <= k THEN k - 1 + 1 ELSE 0) = k /\ \A i \in 1 .. k : 1 + i - 1 = i
    BY <2>8
  <2>10. Len(u) = k /\ \A i \in 1 .. k : u[i] = s[i]
    BY <2>7, <2>9, Zenon
  <2> QED
    BY <2>3, <2>4, <2>7, <2>10
<1>5. /\ t \in Seq(Calls) /\ Len(t) = Len(u)
      /\ \A n \in 1 .. Len(u) : t[n].field = u[n].field
      /\ \A n \in 1 .. Len(u) : n # Len(u) => t[n] = u[n]
      /\ \A n \in 1 .. Len(u) : n = Len(u) => t[n].next = u[n].next + 1
  <2>1. CASE Len(s) - 1 = 0
    <3>1. t = u
      BY <1>3, <2>1 DEF Returned
    <3>2. Len(u) = 0
      BY <1>4, <2>1
    <3>3. 1 .. Len(u) = {}
      BY <3>2
    <3> QED
      BY <1>4, <3>1, <3>3
  <2>2. CASE Len(s) - 1 # 0
    <3>1. t = OneOn(u)
      BY <1>3, <2>2 DEF Returned
    <3>2. u # <<>>
      BY <1>4, <2>2, EmptySeq
    <3>3. /\ t \in Seq(Calls) /\ Len(t) = Len(u)
          /\ \A n \in 1 .. Len(u) : t[n].field = u[n].field
          /\ \A n \in 1 .. Len(u) : n # Len(u) => t[n] = u[n]
          /\ t[Len(u)].next = u[Len(u)].next + 1
      <4>1. u \in Seq(Calls)
        BY <1>4
      <4> QED
        BY <3>1, <3>2, <4>1, WentOn, Zenon
    <3> QED
      BY <3>3
  <2> QED
    BY <2>1, <2>2
<1>6. \A n \in 1 .. Len(s) : n \in 1 .. Len(u) \/ n = Len(s)
  BY <1>1, <1>4
<1>7. ASSUME NEW i
      PROVE  Open(t, i) <=> Open(s, i) /\ i # s[Len(s)].field
  <2>1. ASSUME Open(t, i)
        PROVE  Open(s, i) /\ i # s[Len(s)].field
    <3>1. PICK n \in 1 .. Len(u) : t[n].field = i
      BY <1>5, <2>1 DEF Open
    <3>2. n \in 1 .. Len(s) /\ n # Len(s) /\ s[n].field = i
      BY <1>4, <1>5, <3>1
    <3> QED
      BY <1>1, <3>2, CallsDiffer, Zenon DEF Open
  <2>2. ASSUME Open(s, i), i # s[Len(s)].field
        PROVE  Open(t, i)
    <3>1. PICK n \in 1 .. Len(s) : s[n].field = i
      BY <2>2 DEF Open
    <3>2. n \in 1 .. Len(u)
      BY <1>6, <2>2, <3>1
    <3> QED
      BY <1>4, <1>5, <3>1, <3>2, Zenon DEF Open
  <2> QED
    BY <2>1, <2>2
<1> QED
  BY <1>1, <1>2, <1>4, <1>5, <1>7

(* The call that returns was for a field the caller stands at.             *)
LEMMA CallersKid ==
    ASSUME NEW f, FormOK(f), NEW a, Tree(f, a), NEW s, NEW g, Chain(f, a, s, g), s # <<>>,
           NEW x, x = s[Len(s)].field, NEW n \in 1 .. Len(s) - 1, n = Len(s) - 1
    PROVE  /\ s[n].field \in 1 .. Len(a) /\ s[n].next \in Nat \ {0}
           /\ a[x].parent = s[n].field /\ a[x].at = s[n].next /\ x \in 1 .. Len(a)
           /\ FieldAt(f, a[s[n].field].dict, s[n].next)
           /\ s[n].next <= Len(KidsIn(f, a[s[n].field].dict))
<1>1. s \in Seq(Calls) /\ Len(s) \in Nat
  BY LenProperties DEF Chain
<1>2. Len(s) \in 1 .. Len(s) /\ Len(s) > 1 /\ n \in 1 .. Len(s)
  BY <1>1
<1>3. /\ x \in 1 .. Len(a) /\ s[n].field \in 1 .. Len(a)
      /\ a[x].parent = s[Len(s) - 1].field /\ a[x].at = s[Len(s) - 1].next
  BY <1>2, Zenon DEF Chain
<1>4. a[x].parent = s[n].field /\ a[x].at = s[n].next
  BY <1>3
<1>5. a[x].parent # 0
  BY <1>3, <1>4
<1>6. FieldAt(f, a[s[n].field].dict, s[n].next)
  BY <1>3, <1>4, <1>5, Zenon DEF Tree
<1>7. s[n].next \in 1 .. Len(KidsIn(f, a[s[n].field].dict))
  BY <1>6, Zenon DEF FieldAt
<1>8. s[n] \in Calls
  BY <1>1, <1>2, ElementOfSeq
<1>9. a[s[n].field] \in Fields
  BY <1>3, ElementOfSeq DEF Tree
<1>10. Len(KidsIn(f, a[s[n].field].dict)) \in Nat
  <2>1. a[s[n].field].dict \in Dict
    BY <1>9 DEF Fields
  <2> QED
    BY <2>1, KidsTypes
<1>11. s[n].next \in Nat \ {0}
  BY <1>8 DEF Calls
<1>12. s[n].next <= Len(KidsIn(f, a[s[n].field].dict))
  BY <1>7, <1>10, <1>11
<1> QED
  BY <1>3, <1>4, <1>6, <1>11, <1>12

LEMMA ReturnChain ==
    ASSUME NEW f, FormOK(f), NEW a, Tree(f, a), NEW s, NEW g, Chain(f, a, s, g), s # <<>>,
           NEW t, t = Returned(s)
    PROVE  Chain(f, a, t, g)
<1>1. /\ t \in Seq(Calls) /\ Len(s) \in Nat \ {0} /\ Len(t) = Len(s) - 1
      /\ \A n \in 1 .. Len(t) : n \in 1 .. Len(s) /\ n # Len(s) /\ t[n].field = s[n].field
      /\ \A n \in 1 .. Len(t) : n # Len(t) => t[n] = s[n]
      /\ \A n \in 1 .. Len(t) : n = Len(t) => t[n].next = s[n].next + 1
  BY CallReturned
<1>2. ASSUME NEW n \in 1 .. Len(t)
      PROVE  t[n].next <= Len(KidsIn(f, a[t[n].field].dict)) + 1
  <2>1. n \in 1 .. Len(s) /\ t[n].field = s[n].field
    BY <1>1
  <2>2. CASE n = Len(t)
    <3>1. n \in 1 .. Len(s) - 1 /\ n = Len(s) - 1
      BY <1>1, <2>2
    <3>0. PICK z : z = s[Len(s)].field
      OBVIOUS
    <3>2. /\ s[n].field \in 1 .. Len(a) /\ s[n].next \in Nat \ {0}
          /\ s[n].next <= Len(KidsIn(f, a[s[n].field].dict))
      BY <3>0, <3>1, CallersKid
    <3>3. t[n].next = s[n].next + 1
      BY <1>1, <2>2
    <3>4. Len(KidsIn(f, a[s[n].field].dict)) \in Nat
      <4>1. a[s[n].field] \in Fields
        BY <3>2, ElementOfSeq DEF Tree
      <4>2. a[s[n].field].dict \in Dict
        BY <4>1 DEF Fields
      <4> QED
        BY <4>2, KidsTypes
    <3> QED
      BY <2>1, <3>2, <3>3, <3>4
  <2>3. CASE n # Len(t)
    BY <1>1, <2>1, <2>3, Zenon DEF Chain
  <2> QED
    BY <2>2, <2>3
<1>3. ASSUME NEW n \in 1 .. Len(t), n > 1
      PROVE  a[t[n].field].parent = t[n - 1].field /\ a[t[n].field].at = t[n - 1].next
  <2>1. n - 1 \in 1 .. Len(t) /\ n - 1 # Len(t) /\ n \in 1 .. Len(s)
    BY <1>1, <1>3
  <2>2. t[n - 1] = s[n - 1] /\ t[n].field = s[n].field
    BY <1>1, <2>1, Zenon
  <2> QED
    BY <1>3, <2>1, <2>2, Zenon DEF Chain
<1>4. \A n \in 1 .. Len(t) : /\ t[n].field \in 1 .. Len(a) /\ Len(g[t[n].field]) = n
                             /\ n = 1 => a[t[n].field].parent = 0
  <2>1. ASSUME NEW n \in 1 .. Len(t)
        PROVE  /\ t[n].field \in 1 .. Len(a) /\ Len(g[t[n].field]) = n
               /\ n = 1 => a[t[n].field].parent = 0
    <3>1. n \in 1 .. Len(s) /\ t[n].field = s[n].field
      BY <1>1
    <3> QED
      BY <3>1, Zenon DEF Chain
  <2> QED
    BY <2>1
<1> QED
  BY <1>1, <1>2, <1>3, <1>4, Zenon DEF Chain

(* A call returns when no kid is left.                                     *)
NoKidLeft(f, a, s) == s[Len(s)].next > Len(KidsIn(f, a[s[Len(s)].field].dict))

LEMMA LastCall ==
    ASSUME NEW f, FormOK(f), NEW a, Tree(f, a), NEW s, NEW g, Chain(f, a, s, g), s # <<>>,
           NEW x, x = s[Len(s)].field, NoKidLeft(f, a, s)
    PROVE  /\ Len(s) \in 1 .. Len(s) /\ x \in 1 .. Len(a)
           /\ Len(KidsIn(f, a[x].dict)) \in Nat
           /\ s[Len(s)].next - 1 = Len(KidsIn(f, a[x].dict))
<1>1. s \in Seq(Calls) /\ Len(s) \in 1 .. Len(s)
  BY EmptySeq, LenProperties DEF Chain
<1>2. x \in 1 .. Len(a) /\ s[Len(s)].next <= Len(KidsIn(f, a[x].dict)) + 1
  BY <1>1, Zenon DEF Chain
<1>3. Len(KidsIn(f, a[x].dict)) \in Nat
  <2>1. a[x] \in Fields
    BY <1>2, ElementOfSeq DEF Tree
  <2>2. a[x].dict \in Dict
    BY <2>1 DEF Fields
  <2> QED
    BY <2>2, KidsTypes
<1>4. s[Len(s)].next \in Nat
  <2>1. s[Len(s)] \in Calls
    BY <1>1, ElementOfSeq
  <2> QED
    BY <2>1 DEF Calls
<1>5. s[Len(s)].next > Len(KidsIn(f, a[x].dict))
  BY DEF NoKidLeft
<1> QED
  BY <1>1, <1>2, <1>3, <1>4, <1>5

LEMMA ReturnKids ==
    ASSUME NEW f, FormOK(f), NEW a, Tree(f, a), NEW s, NEW g, Chain(f, a, s, g), s # <<>>,
           NoKidLeft(f, a, s), KidsDone(f, a, s), NEW t, t = Returned(s)
    PROVE  KidsDone(f, a, t)
<1> DEFINE x == s[Len(s)].field
<1>1. /\ t \in Seq(Calls) /\ Len(s) \in Nat \ {0} /\ Len(t) = Len(s) - 1
      /\ \A n \in 1 .. Len(t) : n \in 1 .. Len(s) /\ n # Len(s) /\ t[n].field = s[n].field
      /\ \A n \in 1 .. Len(t) : n # Len(t) => t[n] = s[n]
      /\ \A n \in 1 .. Len(t) : n = Len(t) => t[n].next = s[n].next + 1
      /\ \A i : Open(t, i) <=> Open(s, i) /\ i # x
  BY CallReturned
<1>2. /\ Len(s) \in 1 .. Len(s) /\ x \in 1 .. Len(a)
      /\ Len(KidsIn(f, a[x].dict)) \in Nat
      /\ s[Len(s)].next - 1 = Len(KidsIn(f, a[x].dict))
  BY LastCall
<1>3. ASSUME NEW i \in 1 .. Len(a), ~Open(t, i), NEW k \in Nat, FieldAt(f, a[i].dict, k)
      PROVE  MadeAt(a, i, k)
  <2>1. CASE i = x
    <3>1. k \in 1 .. Len(KidsIn(f, a[x].dict))
      BY <1>3, <2>1, Zenon DEF FieldAt
    <3>2. k \in 1 .. s[Len(s)].next - 1
      BY <1>2, <3>1
    <3> QED
      BY <1>2, <1>3, <2>1, <3>2, Zenon DEF KidsDone
  <2>2. CASE i # x
    BY <1>1, <1>3, <2>2, Zenon DEF KidsDone
  <2> QED
    BY <2>1, <2>2
<1>4. ASSUME NEW n \in 1 .. Len(t), NEW k \in 1 .. t[n].next - 1,
             FieldAt(f, a[t[n].field].dict, k)
      PROVE  MadeAt(a, t[n].field, k)
  <2>1. n \in 1 .. Len(s) /\ t[n].field = s[n].field
    BY <1>1
  <2>2. CASE k \in 1 .. s[n].next - 1
    BY <1>4, <2>1, <2>2, Zenon DEF KidsDone
  <2>3. CASE n # Len(t)
    BY <1>1, <1>4, <2>2, <2>3
  <2>4. CASE n = Len(t) /\ k \notin 1 .. s[n].next - 1
    <3>1. n \in 1 .. Len(s) - 1 /\ n = Len(s) - 1
      BY <1>1, <2>4
    <3>2. /\ s[n].next \in Nat \ {0} /\ x \in 1 .. Len(a)
          /\ a[x].parent = s[n].field /\ a[x].at = s[n].next
      <4>1. PICK z : z = s[Len(s)].field
        OBVIOUS
      <4>2. /\ s[n].next \in Nat \ {0} /\ z \in 1 .. Len(a)
            /\ a[z].parent = s[n].field /\ a[z].at = s[n].next
        BY <3>1, <4>1, CallersKid
      <4> QED
        BY <4>1, <4>2
    <3>3. t[n].next = s[n].next + 1
      BY <1>1, <2>4
    <3>4. k = s[n].next
      <4>1. PICK q : q = s[n].next
        OBVIOUS
      <4>2. q \in Nat /\ k \notin 1 .. q - 1
        BY <2>4, <3>2, <4>1
      <4>3. k \in 1 .. q
        BY <3>3, <4>1, <4>2
      <4>4. k = q
        BY <4>2, <4>3
      <4> QED
        BY <4>1, <4>4
    <3> QED
      BY <2>1, <3>2, <3>4 DEF MadeAt
  <2> QED
    BY <2>2, <2>3, <2>4
<1>5. ASSUME NEW n \in 1 .. Len(t), NEW j \in 1 .. Len(a), a[j].parent = t[n].field
      PROVE  a[j].at <= t[n].next /\ (n = Len(t) => a[j].at < t[n].next)
  <2>1. n \in 1 .. Len(s) /\ t[n].field = s[n].field
    BY <1>1
  <2>2. a[j].at <= s[n].next
    BY <1>5, <2>1, Zenon DEF KidsDone
  <2>3. CASE n # Len(t)
    BY <1>1, <2>2, <2>3
  <2>4. CASE n = Len(t)
    <3>1. n \in 1 .. Len(s) - 1 /\ n = Len(s) - 1
      BY <1>1, <2>4
    <3>2. s[n].next \in Nat \ {0}
      <4>1. s \in Seq(Calls) /\ n \in 1 .. Len(s)
        BY <2>1 DEF Chain
      <4>2. s[n] \in Calls
        BY <4>1, ElementOfSeq
      <4> QED
        BY <4>2 DEF Calls
    <3>3. t[n].next = s[n].next + 1
      BY <1>1, <2>4
    <3>4. a[j] \in Fields
      BY ElementOfSeq DEF Tree
    <3>5. a[j].at \in Nat
      BY <3>4 DEF Fields
    <3>6. PICK u, v : u = a[j].at /\ v = s[n].next
      OBVIOUS
    <3>7. u \in Nat /\ v \in Nat /\ u <= v
      BY <2>2, <3>2, <3>5, <3>6
    <3>8. u <= v + 1 /\ u < v + 1
      BY <3>7
    <3> QED
      BY <3>3, <3>6, <3>8
  <2> QED
    BY <2>3, <2>4
<1> QED
  BY <1>3, <1>4, <1>5, Zenon DEF KidsDone

LEMMA ReturnControls ==
    ASSUME NEW f, FormOK(f), NEW a, Tree(f, a), NEW s, NEW g, Chain(f, a, s, g), s # <<>>,
           NoKidLeft(f, a, s), ControlsTaken(f, a, s), NEW t, t = Returned(s)
    PROVE  ControlsTaken(f, a, t)
<1> DEFINE x == s[Len(s)].field
<1>1. /\ t \in Seq(Calls) /\ Len(s) \in Nat \ {0} /\ Len(t) = Len(s) - 1
      /\ \A n \in 1 .. Len(t) : n \in 1 .. Len(s) /\ n # Len(s) /\ t[n].field = s[n].field
      /\ \A n \in 1 .. Len(t) : n # Len(t) => t[n] = s[n]
      /\ \A n \in 1 .. Len(t) : n = Len(t) => t[n].next = s[n].next + 1
      /\ \A i : Open(t, i) <=> Open(s, i) /\ i # x
  BY CallReturned
<1>2. /\ Len(s) \in 1 .. Len(s) /\ x \in 1 .. Len(a)
      /\ s[Len(s)].next - 1 = Len(KidsIn(f, a[x].dict))
  BY LastCall
<1>3. ASSUME NEW i \in 1 .. Len(a), f.dicts[a[i].dict].kids # NoKids, ~Open(t, i)
      PROVE  TakenIn(f, a[i].controls, KidsIn(f, a[i].dict), Len(KidsIn(f, a[i].dict)))
  <2>1. CASE i = x
    <3>1. TakenIn(f, a[x].controls, KidsIn(f, a[x].dict), s[Len(s)].next - 1)
      BY <1>2, <1>3, <2>1, Zenon DEF ControlsTaken, ControlsOf
    <3> QED
      BY <1>2, <2>1, <3>1
  <2>2. CASE i # x
    BY <1>1, <1>3, <2>2, Zenon DEF ControlsTaken, ControlsOf
  <2> QED
    BY <2>1, <2>2
<1>4. ASSUME NEW i \in 1 .. Len(a), f.dicts[a[i].dict].kids # NoKids,
             NEW n \in 1 .. Len(t), t[n].field = i
      PROVE  TakenIn(f, a[i].controls, KidsIn(f, a[i].dict), t[n].next - 1)
  <2>1. n \in 1 .. Len(s) /\ s[n].field = i
    BY <1>1, <1>4
  <2>2. TakenIn(f, a[i].controls, KidsIn(f, a[i].dict), s[n].next - 1)
    BY <1>4, <2>1, Zenon DEF ControlsTaken, ControlsOf
  <2>3. CASE n # Len(t)
    BY <1>1, <2>2, <2>3
  <2>4. CASE n = Len(t)
    <3>1. n \in 1 .. Len(s) - 1 /\ n = Len(s) - 1
      BY <1>1, <2>4
    <3>0. PICK z : z = s[Len(s)].field
      OBVIOUS
    <3>2. s[n].next \in Nat \ {0} /\ FieldAt(f, a[s[n].field].dict, s[n].next)
      BY <3>0, <3>1, CallersKid
    <3>3. s[n].next - 1 \in Nat /\ (s[n].next - 1) + 1 = s[n].next /\ t[n].next - 1 = s[n].next
      <4>1. t[n].next = s[n].next + 1 /\ s[n].next \in Nat \ {0}
        BY <1>1, <2>4, <3>2, Zenon
      <4>2. \A y \in Nat \ {0} : y - 1 \in Nat /\ (y - 1) + 1 = y /\ (y + 1) - 1 = y
        OBVIOUS
      <4> QED
        BY <4>1, <4>2, Zenon
    <3>4. IsFieldIn(f, KidsIn(f, a[i].dict)[s[n].next])
      BY <2>1, <3>2, Zenon DEF FieldAt
    <3>5. TakenIn(f, a[i].controls, KidsIn(f, a[i].dict), (s[n].next - 1) + 1)
      BY <2>2, <3>3, <3>4, NoWidgetTaken
    <3> QED
      BY <3>3, <3>5
  <2> QED
    BY <2>3, <2>4
<1>5. \A i \in 1 .. Len(a) :
          f.dicts[a[i].dict].kids = NoKids => a[i].controls = <<a[i].dict>>
  BY Zenon DEF ControlsTaken, ControlsOf
<1> QED
  BY <1>3, <1>4, <1>5, Zenon DEF ControlsTaken, ControlsOf

(* The field is listed and filed if it is a root or a leaf.                *)
ListedWith(a, l, x) == IF ListedIn(a, x) THEN Append(l, x) ELSE l
FiledWith(a, c, m, x) ==
    IF ListedIn(a, x) THEN [n \in DOMAIN c \cup {m[x]} |-> IF n = m[x] THEN x ELSE c[n]] ELSE c

LEMMA ReturnListed ==
    ASSUME NEW f, FormOK(f), NEW a, Tree(f, a), NEW s, NEW g, Chain(f, a, s, g), s # <<>>,
           NEW t, t = Returned(s), NEW x, x = s[Len(s)].field,
           NEW l, ReturnedListed(a, s, l), NEW k, k = ListedWith(a, l, x)
    PROVE  ReturnedListed(a, t, k)
<1>1. /\ Len(s) \in Nat \ {0}
      /\ \A i : Open(t, i) <=> Open(s, i) /\ i # x
  BY CallReturned
<1>2. Len(s) \in 1 .. Len(s)
  BY <1>1
<1>3. x \in 1 .. Len(a) /\ Open(s, x)
  BY <1>2, Zenon DEF Chain, Open
<1>4. CASE ~ListedIn(a, x)
  <2>1. k = l
    BY <1>4 DEF ListedWith
  <2> QED
    BY <1>1, <1>3, <1>4, <2>1, Zenon DEF ReturnedListed
<1>5. CASE ListedIn(a, x)
  <2>1. l \in Seq(Nat) /\ x \in Nat /\ k = Append(l, x)
    BY <1>3, <1>5 DEF ListedWith, ReturnedListed
  <2>2. /\ k \in Seq(Nat) /\ Len(l) \in Nat /\ Len(k) = Len(l) + 1
        /\ \A i \in 1 .. Len(l) : k[i] = l[i]
        /\ k[Len(l) + 1] = x
        /\ \A i \in 1 .. Len(k) : i \in 1 .. Len(l) \/ i = Len(l) + 1
        /\ 1 .. Len(l) \subseteq 1 .. Len(k) /\ Len(l) + 1 \in 1 .. Len(k)
    BY <2>1, Pushed
  <2>3. \A i \in 1 .. Len(l) : l[i] # x /\ l[i] \in 1 .. Len(a) /\ ~Open(t, l[i]) /\ ListedIn(a, l[i])
    BY <1>1, <1>3, Zenon DEF ReturnedListed
  <2>4. \A i \in 1 .. Len(k) : k[i] \in 1 .. Len(a) /\ ~Open(t, k[i]) /\ ListedIn(a, k[i])
    BY <1>1, <1>3, <1>5, <2>2, <2>3, Zenon
  <2>5. ASSUME NEW i \in 1 .. Len(a), ~Open(t, i), ListedIn(a, i)
        PROVE  \E n \in 1 .. Len(k) : k[n] = i
    <3>1. CASE i = x
      BY <2>2, <3>1, Zenon
    <3>2. CASE i # x
      <4>1. PICK n \in 1 .. Len(l) : l[n] = i
        BY <1>1, <2>5, <3>2, Zenon DEF ReturnedListed
      <4> QED
        BY <2>2, <4>1, Zenon
    <3> QED
      BY <3>1, <3>2
  <2>6. ASSUME NEW i \in 1 .. Len(k), NEW n \in 1 .. Len(k), k[i] = k[n]
        PROVE  i = n
    <3>1. CASE i \in 1 .. Len(l) /\ n \in 1 .. Len(l)
      <4>1. l[i] = l[n]
        BY <2>2, <2>6, <3>1
      <4> QED
        BY <3>1, <4>1, Zenon DEF ReturnedListed
    <3>2. CASE i \in 1 .. Len(l) /\ n = Len(l) + 1
      BY <2>2, <2>3, <2>6, <3>2, Zenon
    <3>3. CASE i = Len(l) + 1 /\ n \in 1 .. Len(l)
      BY <2>2, <2>3, <2>6, <3>3, Zenon
    <3> QED
      BY <2>2, <3>1, <3>2, <3>3, Zenon
  <2> QED
    BY <2>2, <2>4, <2>5, <2>6, Zenon DEF ReturnedListed
<1> QED
  BY <1>4, <1>5

LEMMA ReturnFiled ==
    ASSUME NEW a, NEW s, NEW l, ReturnedListed(a, s, l), NEW c, NEW m, ListedFiled(l, c, m),
           NEW x \in Nat, NEW k, k = ListedWith(a, l, x), NEW b, b = FiledWith(a, c, m, x)
    PROVE  ListedFiled(k, b, m)
<1>1. CASE ~ListedIn(a, x)
  BY <1>1 DEF ListedWith, FiledWith
<1>2. CASE ListedIn(a, x)
  <2>1. l \in Seq(Nat) /\ k = Append(l, x)
    BY <1>2 DEF ListedWith, ReturnedListed
  <2>2. /\ Len(l) \in Nat /\ Len(k) = Len(l) + 1
        /\ \A i \in 1 .. Len(l) : k[i] = l[i]
        /\ k[Len(l) + 1] = x
        /\ \A i \in 1 .. Len(k) : i \in 1 .. Len(l) \/ i = Len(l) + 1
        /\ 1 .. Len(l) \subseteq 1 .. Len(k) /\ Len(l) + 1 \in 1 .. Len(k)
    BY <2>1, Pushed
  <2>3. /\ DOMAIN b = DOMAIN c \cup {m[x]}
        /\ \A n \in DOMAIN b : b[n] = IF n = m[x] THEN x ELSE c[n]
    BY <1>2 DEF FiledWith
  <2>4. \A i \in 1 .. Len(k) : m[k[i]] \in DOMAIN b
    BY <2>2, <2>3, Zenon DEF ListedFiled
  <2>5. ASSUME NEW n \in DOMAIN b
        PROVE  \E i \in 1 .. Len(k) : b[n] = k[i] /\ m[k[i]] = n
    <3>1. CASE n = m[x]
      <4>1. b[n] = x
        BY <2>3, <3>1
      <4> QED
        BY <2>2, <3>1, <4>1, Zenon
    <3>2. CASE n # m[x]
      <4>1. n \in DOMAIN c /\ b[n] = c[n]
        BY <2>3, <3>2
      <4>2. PICK i \in 1 .. Len(l) : c[n] = l[i] /\ m[l[i]] = n
        BY <4>1, Zenon DEF ListedFiled
      <4> QED
        BY <2>2, <4>1, <4>2, Zenon
    <3> QED
      BY <3>1, <3>2
  <2> QED
    BY <2>4, <2>5, Zenon DEF ListedFiled
<1> QED
  BY <1>1, <1>2

(* Together: a call returns.                                               *)
LEMMA ReturnWalked ==
    ASSUME NEW f, NEW a, NEW s, NEW r, NEW l, NEW c, NEW g, NEW m,
           Walked(f, a, s, r, l, c, g, m), s # <<>>, NoKidLeft(f, a, s),
           NEW x, x = s[Len(s)].field, NEW t, t = Returned(s),
           NEW k, k = ListedWith(a, l, x), NEW b, b = FiledWith(a, c, m, x)
    PROVE  Walked(f, a, t, r, k, b, g, m)
<1>1. /\ FormOK(f) /\ r \in 1 .. Len(f.roots) + 1
      /\ Tree(f, a) /\ Placed(a, g) /\ Named(f, a, m) /\ Chain(f, a, s, g)
      /\ RootsDone(f, a, r) /\ KidsDone(f, a, s) /\ ControlsTaken(f, a, s)
      /\ ReturnedListed(a, s, l) /\ ListedFiled(l, c, m)
  BY DEF Walked
<1>2. Chain(f, a, t, g)
  BY <1>1, ReturnChain
<1>3. KidsDone(f, a, t)
  BY <1>1, ReturnKids
<1>4. ControlsTaken(f, a, t)
  BY <1>1, ReturnControls
<1>5. ReturnedListed(a, t, k)
  BY <1>1, ReturnListed
<1>6. x \in Nat
  <2>1. s \in Seq(Calls) /\ Len(s) \in 1 .. Len(s)
    BY <1>1, EmptySeq, LenProperties DEF Chain
  <2>2. s[Len(s)] \in Calls
    BY <2>1, ElementOfSeq
  <2> QED
    BY <2>2 DEF Calls
<1>7. ListedFiled(k, b, m)
  BY <1>1, <1>6, ReturnFiled
<1> QED
  BY <1>1, <1>2, <1>3, <1>4, <1>5, <1>7, Zenon DEF Walked

-----------------------------------------------------------------------------
(* What a completed recursion computes.                                    *)

(* A function on 0 .. i that continues from the parent is g below i.       *)
LEMMA PlaceIs ==
    ASSUME NEW g, Tree(form, made), Placed(made, g), NEW i \in 1 .. Len(made)
    PROVE  PlaceOf(i) = g[i]
<1> DEFINE F(p) == [j \in 0 .. i |-> IF j = 0 THEN <<>> ELSE Append(p[made[j].parent], made[j].at)]
           q == [j \in 0 .. i |-> g[j]]
           p == CHOOSE h : h = F(h)
<1>1. Len(made) \in Nat /\ i \in Nat
  BY LenProperties DEF Tree
<1>2. \A j \in 1 .. i : j \in 1 .. Len(made) /\ made[j].parent \in 0 .. i /\ made[j].parent < j
  BY <1>1 DEF Tree
<1>3. q = F(q)
  <2>1. ASSUME NEW j \in 0 .. i
        PROVE  q[j] = IF j = 0 THEN <<>> ELSE Append(q[made[j].parent], made[j].at)
    <3>1. CASE j = 0
      BY <3>1 DEF Placed
    <3>2. CASE j # 0
      <4>1. j \in 1 .. i
        BY <1>1, <3>2
      <4>2. g[j] = Append(g[made[j].parent], made[j].at)
        BY <1>2, <4>1 DEF Placed
      <4> QED
        BY <1>2, <3>2, <4>1, <4>2
    <3> QED
      BY <3>1, <3>2
  <2> QED
    BY <2>1
<1>4. p = F(p)
  BY <1>3
<1> HIDE DEF p
<1>5. \A j \in 0 .. i : p[j] = IF j = 0 THEN <<>> ELSE Append(p[made[j].parent], made[j].at)
  BY <1>4
<1>6. \A j \in 0 .. i : p[j] = g[j]
  <2> DEFINE S == {j \in 0 .. i : p[j] # g[j]}
  <2>1. SUFFICES ASSUME S # {}
                 PROVE  FALSE
    BY <2>1
  <2>2. S \subseteq Nat
    OBVIOUS
  <2>3. PICK n \in S : \A k \in S : n <= k
    BY <2>1, <2>2, LeastNumber
  <2>4. n # 0
    BY <1>5, <2>3 DEF Placed
  <2>5. n \in 1 .. i /\ n \in 0 .. i
    BY <1>1, <2>3, <2>4
  <2>6. made[n].parent \in 0 .. i /\ made[n].parent < n /\ n \in 1 .. Len(made)
    BY <1>2, <2>5
  <2>7. made[n].parent \notin S
    BY <2>3, <2>5, <2>6
  <2>8. p[made[n].parent] = g[made[n].parent]
    BY <2>6, <2>7
  <2>9. g[n] = Append(g[made[n].parent], made[n].at)
    BY <2>6 DEF Placed
  <2>10. p[n] = Append(p[made[n].parent], made[n].at)
    BY <1>5, <2>4, <2>5
  <2> QED
    BY <2>3, <2>8, <2>9, <2>10
<1>7. i \in 0 .. i
  BY <1>1
<1>8. p[i] = g[i]
  BY <1>6, <1>7
<1>9. PlaceOf(i) = p[i]
  BY DEF PlaceOf, p
<1> QED
  BY <1>8, <1>9

LEMMA NameIs ==
    ASSUME NEW m, Tree(form, made), Named(form, made, m), NEW i \in 1 .. Len(made)
    PROVE  FullName(i) = m[i]
<1> DEFINE F(p) == [j \in 0 .. i |-> IF j = 0 THEN <<>>
                                     ELSE IF NameOf(j) = NoName THEN p[made[j].parent]
                                     ELSE Append(p[made[j].parent], NameOf(j))]
           q == [j \in 0 .. i |-> m[j]]
           p == CHOOSE h : h = F(h)
<1>1. Len(made) \in Nat /\ i \in Nat
  BY LenProperties DEF Tree
<1>2. \A j \in 1 .. i : j \in 1 .. Len(made) /\ made[j].parent \in 0 .. i /\ made[j].parent < j
  BY <1>1 DEF Tree
<1>3. \A j \in 1 .. i : m[j] = IF NameOf(j) = NoName THEN m[made[j].parent]
                               ELSE Append(m[made[j].parent], NameOf(j))
  <2>1. \A j \in 1 .. i : m[j] = Called(form, made, m, j)
    BY <1>2, Zenon DEF Named
  <2> QED
    BY <2>1 DEF Called, NameOf, Dicts
<1>4. q = F(q)
  <2>1. ASSUME NEW j \in 0 .. i
        PROVE  q[j] = IF j = 0 THEN <<>>
                      ELSE IF NameOf(j) = NoName THEN q[made[j].parent]
                      ELSE Append(q[made[j].parent], NameOf(j))
    <3>1. CASE j = 0
      BY <3>1 DEF Named
    <3>2. CASE j # 0
      <4>1. j \in 1 .. i
        BY <1>1, <3>2
      <4> QED
        BY <1>2, <1>3, <3>2, <4>1
    <3> QED
      BY <3>1, <3>2
  <2> QED
    BY <2>1
<1>5. p = F(p)
  BY <1>4
<1> HIDE DEF p
<1>6. \A j \in 0 .. i : p[j] = IF j = 0 THEN <<>>
                               ELSE IF NameOf(j) = NoName THEN p[made[j].parent]
                               ELSE Append(p[made[j].parent], NameOf(j))
  BY <1>5
<1>7. \A j \in 0 .. i : p[j] = m[j]
  <2> DEFINE S == {j \in 0 .. i : p[j] # m[j]}
  <2>1. SUFFICES ASSUME S # {}
                 PROVE  FALSE
    BY <2>1
  <2>2. S \subseteq Nat
    OBVIOUS
  <2>3. PICK n \in S : \A k \in S : n <= k
    BY <2>1, <2>2, LeastNumber
  <2>4. n # 0
    BY <1>6, <2>3 DEF Named
  <2>5. n \in 1 .. i /\ n \in 0 .. i
    BY <1>1, <2>3, <2>4
  <2>6. made[n].parent \in 0 .. i /\ made[n].parent < n
    BY <1>2, <2>5
  <2>7. made[n].parent \notin S
    BY <2>3, <2>5, <2>6
  <2>8. p[made[n].parent] = m[made[n].parent]
    BY <2>6, <2>7
  <2> QED
    BY <1>3, <1>6, <2>3, <2>4, <2>5, <2>8
<1>8. i \in 0 .. i
  BY <1>1
<1>9. p[i] = m[i]
  BY <1>7, <1>8
<1>10. FullName(i) = p[i]
  BY DEF FullName, p
<1> QED
  BY <1>9, <1>10

(* The dictionaries along a path of the form.                              *)
Along(f, path, q) ==
    /\ q \in [1 .. Len(path) -> Dict]
    /\ \A n \in 1 .. Len(path) :
          q[n] = IF n = 1 THEN f.roots[path[1]] ELSE f.dicts[q[n - 1]].kids[path[n]]

LEMMA DictIs ==
    ASSUME NEW path, Len(path) \in Nat \ {0}, NEW q, Along(form, path, q)
    PROVE  DictAt(path) = q[Len(path)]
<1> DEFINE N == Len(path)
           F(d) == [n \in 1 .. N |-> IF n = 1 THEN form.roots[path[1]]
                                     ELSE Dicts[d[n - 1]].kids[path[n]]]
           p == CHOOSE d : d = F(d)
<1>1. q = F(q)
  BY DEF Along, Dicts
<1>2. p = F(p)
  BY <1>1
<1>3. DictAt(path) = p[N]
  BY DEF DictAt, p
<1> HIDE DEF p
<1>4. \A n \in 1 .. N : p[n] = IF n = 1 THEN form.roots[path[1]]
                               ELSE Dicts[p[n - 1]].kids[path[n]]
  BY <1>2
<1>5. \A n \in 1 .. N : q[n] = IF n = 1 THEN form.roots[path[1]]
                               ELSE Dicts[q[n - 1]].kids[path[n]]
  BY DEF Along, Dicts
<1>6. \A n \in 1 .. N : p[n] = q[n]
  <2> DEFINE S == {n \in 1 .. N : p[n] # q[n]}
  <2>1. SUFFICES ASSUME S # {}
                 PROVE  FALSE
    BY <2>1
  <2>2. S \subseteq Nat
    OBVIOUS
  <2>3. PICK n \in S : \A k \in S : n <= k
    BY <2>1, <2>2, LeastNumber
  <2>4. n # 1
    BY <1>4, <1>5, <2>3
  <2>5. n - 1 \in 1 .. N /\ n - 1 < n
    BY <2>3, <2>4
  <2>6. n - 1 \notin S
    BY <2>3, <2>5
  <2>7. p[n - 1] = q[n - 1]
    BY <2>5, <2>6
  <2> QED
    BY <1>4, <1>5, <2>3, <2>4, <2>7
<1>7. N \in 1 .. N
  OBVIOUS
<1> QED
  BY <1>3, <1>6, <1>7

LEMMA FieldKid ==
    ASSUME NEW f, NEW d, NEW k, FieldAt(f, d, k)
    PROVE  /\ f.dicts[d].kids # NoKids /\ k \in 1 .. Len(f.dicts[d].kids)
           /\ KidsIn(f, d) = f.dicts[d].kids
<1>1. k \in 1 .. Len(KidsIn(f, d))
  BY Zenon DEF FieldAt
<1>2. f.dicts[d].kids # NoKids
  <2>1. f.dicts[d].kids = NoKids => KidsIn(f, d) = <<>>
    BY DEF KidsIn
  <2>2. Len(<<>>) = 0
    BY EmptySeq
  <2>3. k \notin 1 .. 0
    OBVIOUS
  <2> QED
    BY <1>1, <2>1, <2>2, <2>3, Zenon
<1> QED
  BY <1>1, <1>2 DEF KidsIn

(* The path to a field made leads to its dictionary.                       *)
LeadsTo(f, path, d) ==
    /\ path \in Seq(Nat) /\ Len(path) \in Nat \ {0}
    /\ \E q : Along(f, path, q) /\ q[Len(path)] = d

LEMMA LedFurther ==
    ASSUME NEW f, NEW path, NEW d, LeadsTo(f, path, d), NEW k \in Nat, NEW e \in Dict,
           f.dicts[d].kids[k] = e
    PROVE  LeadsTo(f, Append(path, k), e)
<1>1. path \in Seq(Nat) /\ Len(path) \in Nat \ {0}
  BY DEF LeadsTo
<1>2. PICK q : Along(f, path, q) /\ q[Len(path)] = d
  BY DEF LeadsTo
<1>3. PICK long : long = Append(path, k)
  OBVIOUS
<1>4. /\ long \in Seq(Nat) /\ Len(long) = Len(path) + 1
      /\ \A n \in 1 .. Len(path) : long[n] = path[n]
      /\ long[Len(path) + 1] = k
      /\ \A n \in 1 .. Len(long) : n \in 1 .. Len(path) \/ n = Len(path) + 1
  BY <1>1, <1>3, Pushed
<1>5. PICK to : to = [n \in 1 .. Len(long) |-> IF n = Len(long) THEN e ELSE q[n]]
  OBVIOUS
<1>6. /\ \A n \in 1 .. Len(path) : to[n] = q[n] /\ q[n] \in Dict
      /\ to[Len(long)] = e
  <2>1. q \in [1 .. Len(path) -> Dict]
    BY <1>2 DEF Along
  <2>2. \A n \in 1 .. Len(path) : n \in 1 .. Len(long) /\ n # Len(long)
    BY <1>1, <1>4
  <2>3. Len(long) \in 1 .. Len(long)
    BY <1>1, <1>4
  <2> QED
    BY <1>5, <2>1, <2>2, <2>3
<1>7. to \in [1 .. Len(long) -> Dict]
  <2>1. \A n \in 1 .. Len(long) : to[n] \in Dict
    BY <1>4, <1>6
  <2> QED
    BY <1>5, <2>1
<1>8. ASSUME NEW n \in 1 .. Len(long)
      PROVE  to[n] = IF n = 1 THEN f.roots[long[1]] ELSE f.dicts[to[n - 1]].kids[long[n]]
  <2>1. CASE n \in 1 .. Len(path)
    <3>1. q[n] = IF n = 1 THEN f.roots[path[1]] ELSE f.dicts[q[n - 1]].kids[path[n]]
      BY <1>2, <2>1 DEF Along
    <3>2. n # 1 => n - 1 \in 1 .. Len(path)
      BY <1>1, <2>1
    <3> QED
      BY <1>4, <1>6, <2>1, <3>1, <3>2
  <2>2. CASE n = Len(path) + 1
    <3>1. n = Len(long) /\ n # 1 /\ n - 1 = Len(path) /\ Len(path) \in 1 .. Len(path)
      BY <1>1, <1>4, <2>2
    <3>2. to[n] = e /\ to[n - 1] = d /\ long[n] = k
      BY <1>2, <1>4, <1>6, <2>2, <3>1
    <3> QED
      BY <3>1, <3>2
  <2> QED
    BY <1>4, <2>1, <2>2
<1>9. Along(f, long, to)
  BY <1>7, <1>8, Zenon DEF Along
<1>10. Len(long) \in Nat \ {0}
  BY <1>1, <1>4
<1> QED
  BY <1>3, <1>4, <1>6, <1>9, <1>10, Zenon DEF LeadsTo

LEMMA RootPath ==
    ASSUME NEW f, NEW k \in Nat, NEW e \in Dict, f.roots[k] = e
    PROVE  Append(<<>>, k) = <<k>> /\ LeadsTo(f, <<k>>, e)
<1>1. Append(<<>>, k) = <<k>>
  OBVIOUS
<1>2. <<k>> \in Seq(Nat) /\ Len(<<k>>) = 1 /\ <<k>>[1] = k
  OBVIOUS
<1>3. PICK q : q = [n \in 1 .. 1 |-> e]
  OBVIOUS
<1>4. Along(f, <<k>>, q) /\ q[1] = e
  BY <1>2, <1>3 DEF Along
<1> QED
  BY <1>1, <1>2, <1>4 DEF LeadsTo

LEMMA MadeLeads ==
    ASSUME NEW f, FormOK(f), NEW a, Tree(f, a), NEW g, Placed(a, g), NEW i \in 1 .. Len(a)
    PROVE  LeadsTo(f, g[i], a[i].dict)
<1>1. Len(a) \in Nat
  BY LenProperties DEF Tree
<1>2. \A j \in 1 .. Len(a) : a[j] \in Fields
  BY ElementOfSeq DEF Tree
<1> DEFINE S == {j \in 1 .. Len(a) : ~LeadsTo(f, g[j], a[j].dict)}
<1>3. SUFFICES ASSUME S # {}
               PROVE  FALSE
  BY <1>3
<1>4. S \subseteq Nat
  OBVIOUS
<1>5. PICK j \in S : \A k \in S : j <= k
  BY <1>3, <1>4, LeastNumber
<1>6. j \in 1 .. Len(a) /\ a[j].at \in Nat /\ a[j].dict \in Dict
  BY <1>2, <1>5 DEF Fields
<1>7. a[j].parent \in 0 .. j - 1 /\ g[j] = Append(g[a[j].parent], a[j].at)
  BY <1>6 DEF Tree, Placed
<1>8. CASE a[j].parent = 0
  <2>1. f.roots[a[j].at] = a[j].dict /\ g[0] = <<>>
    BY <1>6, <1>8 DEF Tree, Placed
  <2> QED
    BY <1>5, <1>6, <1>7, <1>8, <2>1, RootPath
<1>9. CASE a[j].parent # 0
  <2> DEFINE p == a[j].parent
  <2>1. p \in 1 .. Len(a) /\ p < j
    BY <1>1, <1>6, <1>7, <1>9
  <2>2. LeadsTo(f, g[p], a[p].dict)
    <3>1. p \notin S
      BY <1>5, <1>6, <2>1
    <3> QED
      BY <2>1, <3>1
  <2>3. FieldAt(f, a[p].dict, a[j].at) /\ KidsIn(f, a[p].dict)[a[j].at] = a[j].dict
    BY <1>6, <1>9, Zenon DEF Tree
  <2>4. f.dicts[a[p].dict].kids[a[j].at] = a[j].dict
    BY <2>3, FieldKid
  <2>5. LeadsTo(f, g[j], a[j].dict)
    BY <1>6, <1>7, <2>2, <2>4, LedFurther
  <2> QED
    BY <1>5, <2>5
<1> QED
  BY <1>8, <1>9

LEMMA DictMade ==
    ASSUME FormOK(form), NEW g, Tree(form, made), Placed(made, g), NEW i \in 1 .. Len(made)
    PROVE  /\ DictAt(g[i]) = made[i].dict
           /\ g[i] \in Seq(Nat) /\ Len(g[i]) \in Nat \ {0} /\ Len(g[i]) <= MaxDepth
<1>1. LeadsTo(form, g[i], made[i].dict)
  BY MadeLeads
<1>2. DictAt(g[i]) = made[i].dict
  BY <1>1, DictIs DEF LeadsTo
<1> QED
  BY <1>1, <1>2 DEF LeadsTo, Placed

(* Every root and every kid that is a field has been made.                 *)
Complete(g) ==
    /\ FormOK(form) /\ Tree(form, made) /\ Placed(made, g)
    /\ \A k \in 1 .. Len(form.roots) : form.roots[k] # NoDict => MadeAt(made, 0, k)
    /\ \A i \in 1 .. Len(made) : \A k \in Nat :
          FieldAt(form, made[i].dict, k) => MadeAt(made, i, k)
MadeUnder(i) == {j \in 1 .. Len(made) : made[j].parent = i}

LEMMA MadeFacts ==
    ASSUME Tree(form, made), NEW i \in 1 .. Len(made)
    PROVE  /\ Len(made) \in Nat /\ made[i].dict \in Dict /\ made[i].at \in Nat
           /\ made[i].parent \in 0 .. Len(made) /\ made[i].parent < i
           /\ made[i].parent # 0 => made[i].parent \in 1 .. Len(made)
<1>1. Len(made) \in Nat /\ made[i] \in Fields
  BY LenProperties, ElementOfSeq DEF Tree
<1>2. made[i].parent \in 0 .. i - 1
  BY DEF Tree
<1> QED
  BY <1>1, <1>2 DEF Fields

LEMMA FieldKidsAre ==
    ASSUME FormOK(form), NEW path, NEW d \in Dict, DictAt(path) = d
    PROVE  FieldKids(path) = {Append(path, k) : k \in {k \in Nat : FieldAt(form, d, k)}}
<1> DEFINE kids == Dicts[d].kids
<1>1. kids \in {NoKids} \cup Seq(Dict \cup {NoDict})
  BY DEF FormOK, Dicts
<1>2. CASE kids = NoKids
  <2>1. FieldKids(path) = {}
    BY <1>2 DEF FieldKids
  <2>2. \A k \in Nat : ~FieldAt(form, d, k)
    BY <1>2, FieldKid DEF Dicts
  <2>3. {k \in Nat : FieldAt(form, d, k)} = {}
    BY <2>2
  <2> QED
    BY <2>1, <2>3
<1>3. CASE kids # NoKids
  <2>1. kids \in Seq(Dict \cup {NoDict}) /\ KidsIn(form, d) = kids
    BY <1>1, <1>3 DEF KidsIn, Dicts
  <2>2. DOMAIN kids = 1 .. Len(kids) /\ Len(kids) \in Nat
    BY <2>1, LenProperties
  <2>3. \A k : k \in DOMAIN kids /\ kids[k] # NoDict /\ IsField(kids[k])
               <=> k \in Nat /\ FieldAt(form, d, k)
    <3>1. \A e : IsField(e) <=> IsFieldIn(form, e)
      BY DEF IsField, IsFieldIn, Dicts
    <3>2. \A k \in 1 .. Len(kids) : k \in Nat
      BY <2>2
    <3> QED
      BY <2>1, <2>2, <3>1, <3>2, Zenon DEF FieldAt
  <2>4. {j \in DOMAIN kids : kids[j] # NoDict /\ IsField(kids[j])} = {k \in Nat : FieldAt(form, d, k)}
    BY <2>3
  <2>5. FieldKids(path) = {Append(path, k) :
                              k \in {j \in DOMAIN kids : kids[j] # NoDict /\ IsField(kids[j])}}
    BY <1>3 DEF FieldKids
  <2> QED
    BY <2>4, <2>5
<1> QED
  BY <1>2, <1>3

LEMMA KidsMade ==
    ASSUME NEW g, Complete(g), NEW i \in 1 .. Len(made)
    PROVE  FieldKids(g[i]) = {g[j] : j \in MadeUnder(i)}
<1>1. FormOK(form) /\ Tree(form, made) /\ Placed(made, g)
  BY DEF Complete
<1>2. made[i].dict \in Dict /\ DictAt(g[i]) = made[i].dict
  BY <1>1, MadeFacts, DictMade
<1>3. FieldKids(g[i]) = {Append(g[i], k) : k \in {k \in Nat : FieldAt(form, made[i].dict, k)}}
  BY <1>1, <1>2, FieldKidsAre
<1>4. ASSUME NEW j \in MadeUnder(i)
      PROVE  /\ g[j] = Append(g[i], made[j].at)
             /\ made[j].at \in {k \in Nat : FieldAt(form, made[i].dict, k)}
  <2>1. j \in 1 .. Len(made) /\ made[j].parent = i /\ i # 0
    BY DEF MadeUnder
  <2>2. FieldAt(form, made[i].dict, made[j].at)
    BY <1>1, <2>1, Zenon DEF Tree
  <2>3. made[j].at \in Nat
    BY <1>1, <2>1, MadeFacts
  <2>4. g[j] = Append(g[i], made[j].at)
    BY <1>1, <2>1 DEF Placed
  <2> QED
    BY <2>2, <2>3, <2>4
<1>5. ASSUME NEW k \in Nat, FieldAt(form, made[i].dict, k)
      PROVE  \E j \in MadeUnder(i) : g[j] = Append(g[i], k)
  <2>1. MadeAt(made, i, k)
    BY <1>5, Zenon DEF Complete
  <2>2. PICK j \in 1 .. Len(made) : made[j].parent = i /\ made[j].at = k
    BY <2>1 DEF MadeAt
  <2>3. j \in MadeUnder(i)
    BY <2>2 DEF MadeUnder
  <2> QED
    BY <1>4, <2>2, <2>3
<1> DEFINE K == {k \in Nat : FieldAt(form, made[i].dict, k)}
<1>6. \A k \in K : \E j \in MadeUnder(i) : g[j] = Append(g[i], k)
  BY <1>5
<1>7. \A j \in MadeUnder(i) : g[j] = Append(g[i], made[j].at) /\ made[j].at \in K
  BY <1>4
<1> HIDE DEF K
<1>8. {Append(g[i], k) : k \in K} = {g[j] : j \in MadeUnder(i)}
  <2>1. ASSUME NEW z, z \in {Append(g[i], k) : k \in K}
        PROVE  z \in {g[j] : j \in MadeUnder(i)}
    <3>1. PICK k \in K : z = Append(g[i], k)
      BY <2>1
    <3> QED
      BY <1>6, <3>1
  <2>2. ASSUME NEW z, z \in {g[j] : j \in MadeUnder(i)}
        PROVE  z \in {Append(g[i], k) : k \in K}
    <3>1. PICK j \in MadeUnder(i) : z = g[j]
      BY <2>2
    <3> QED
      BY <1>7, <3>1
  <2> QED
    BY <2>1, <2>2, Zenon
<1> QED
  BY <1>3, <1>8 DEF K

LEMMA RootsMade ==
    ASSUME NEW g, Complete(g)
    PROVE  Roots = {g[j] : j \in MadeUnder(0)}
<1>1. FormOK(form) /\ Tree(form, made) /\ Placed(made, g)
  BY DEF Complete
<1>2. form.roots \in Seq(Dict \cup {NoDict})
  BY <1>1 DEF FormOK
<1>3. DOMAIN form.roots = 1 .. Len(form.roots) /\ Len(form.roots) \in Nat
  BY <1>2, LenProperties
<1>4. ASSUME NEW j \in MadeUnder(0)
      PROVE  g[j] = <<made[j].at>> /\ made[j].at \in DOMAIN form.roots /\ form.roots[made[j].at] # NoDict
  <2>1. j \in 1 .. Len(made) /\ made[j].parent = 0
    BY DEF MadeUnder
  <2>2. made[j].at \in 1 .. Len(form.roots) /\ form.roots[made[j].at] # NoDict
    BY <1>1, <2>1, Zenon DEF Tree
  <2>3. g[j] = Append(<<>>, made[j].at)
    BY <1>1, <2>1 DEF Placed
  <2>4. g[j] = <<made[j].at>>
    BY <2>3
  <2> QED
    BY <1>3, <2>2, <2>4
<1>5. ASSUME NEW k \in DOMAIN form.roots, form.roots[k] # NoDict
      PROVE  \E j \in MadeUnder(0) : g[j] = <<k>>
  <2>1. MadeAt(made, 0, k)
    BY <1>3, <1>5, Zenon DEF Complete
  <2>2. PICK j \in 1 .. Len(made) : made[j].parent = 0 /\ made[j].at = k
    BY <2>1 DEF MadeAt
  <2>3. j \in MadeUnder(0)
    BY <2>2 DEF MadeUnder
  <2> QED
    BY <1>4, <2>2, <2>3
<1>6. Roots = {<<r>> : r \in {r \in DOMAIN form.roots : form.roots[r] # NoDict}}
  BY DEF Roots
<1> QED
  BY <1>4, <1>5, <1>6

LEMMA DepthOf ==
    ASSUME NEW g, Complete(g), NEW i \in 1 .. Len(made)
    PROVE  /\ g[i] \in Seq(Nat) /\ Len(g[i]) \in 1 .. MaxDepth
           /\ made[i].parent = 0 => Len(g[i]) = 1
           /\ made[i].parent # 0 =>
                 /\ Len(g[made[i].parent]) \in Nat \ {0}
                 /\ Len(g[i]) = Len(g[made[i].parent]) + 1
<1>1. FormOK(form) /\ Tree(form, made) /\ Placed(made, g)
  BY DEF Complete
<1>2. g[i] \in Seq(Nat) /\ Len(g[i]) \in Nat \ {0} /\ Len(g[i]) <= MaxDepth
  BY <1>1, DictMade
<1>3. made[i].at \in Nat /\ (made[i].parent # 0 => made[i].parent \in 1 .. Len(made))
  BY <1>1, MadeFacts
<1>4. g[i] = Append(g[made[i].parent], made[i].at)
  BY <1>1 DEF Placed
<1>5. made[i].parent = 0 => Len(g[i]) = 1
  <2>1. g[0] = <<>>
    BY <1>1 DEF Placed
  <2> QED
    BY <1>4, <2>1
<1>6. made[i].parent # 0 => g[made[i].parent] \in Seq(Nat) /\ Len(g[made[i].parent]) \in Nat \ {0}
  BY <1>1, <1>3, DictMade
<1>7. made[i].parent # 0 => Len(g[i]) = Len(g[made[i].parent]) + 1
  BY <1>3, <1>4, <1>6, AppendProperties
<1> QED
  BY <1>2, <1>5, <1>6, <1>7, MaxDepthAssumption

(* The fields at depth n of the form.                                      *)
AtDepth(g, n) == {g[i] : i \in {i \in 1 .. Len(made) : Len(g[i]) = n}}

LEMMA FirstDepth ==
    ASSUME NEW g, Complete(g)
    PROVE  Roots = AtDepth(g, 1)
<1>1. \A i \in 1 .. Len(made) : Len(g[i]) = 1 <=> made[i].parent = 0
  <2>1. ASSUME NEW i \in 1 .. Len(made)
        PROVE  Len(g[i]) = 1 <=> made[i].parent = 0
    <3>1. made[i].parent # 0 => /\ Len(g[made[i].parent]) \in Nat \ {0}
                                /\ Len(g[i]) = Len(g[made[i].parent]) + 1
      BY DepthOf
    <3>2. \A k \in Nat \ {0} : k + 1 # 1
      OBVIOUS
    <3>3. made[i].parent # 0 => Len(g[i]) # 1
      BY <3>1, <3>2, Zenon
    <3>4. made[i].parent = 0 => Len(g[i]) = 1
      BY DepthOf
    <3> QED
      BY <3>3, <3>4
  <2> QED
    BY <2>1
<1>2. MadeUnder(0) = {i \in 1 .. Len(made) : Len(g[i]) = 1}
  BY <1>1 DEF MadeUnder
<1>3. Roots = {g[j] : j \in MadeUnder(0)}
  BY RootsMade
<1> QED
  BY <1>2, <1>3 DEF AtDepth

LEMMA NextDepth ==
    ASSUME NEW g, Complete(g), NEW n \in Nat, n > 1
    PROVE  UNION {FieldKids(p) : p \in AtDepth(g, n - 1)} = AtDepth(g, n)
<1>1. ASSUME NEW p \in AtDepth(g, n - 1), NEW q \in FieldKids(p)
      PROVE  q \in AtDepth(g, n)
  <2>1. PICK i \in 1 .. Len(made) : Len(g[i]) = n - 1 /\ p = g[i]
    BY DEF AtDepth
  <2>2. PICK j \in MadeUnder(i) : q = g[j]
    <3>1. FieldKids(g[i]) = {g[j] : j \in MadeUnder(i)}
      BY KidsMade
    <3>2. q \in {g[j] : j \in MadeUnder(i)}
      BY <1>1, <2>1, <3>1
    <3> QED
      BY <3>2
  <2>3. j \in 1 .. Len(made) /\ made[j].parent = i /\ i # 0
    BY <2>2 DEF MadeUnder
  <2>4. Len(g[j]) = Len(g[i]) + 1
    BY <2>3, DepthOf
  <2>5. Len(g[j]) = n
    BY <2>1, <2>4
  <2> QED
    BY <2>2, <2>3, <2>5 DEF AtDepth
<1>2. ASSUME NEW q \in AtDepth(g, n)
      PROVE  \E p \in AtDepth(g, n - 1) : q \in FieldKids(p)
  <2>1. PICK j \in 1 .. Len(made) : Len(g[j]) = n /\ q = g[j]
    BY DEF AtDepth
  <2>2. made[j].parent # 0
    <3>1. made[j].parent = 0 => Len(g[j]) = 1
      BY DepthOf
    <3>2. Len(g[j]) # 1
      BY <2>1
    <3> QED
      BY <3>1, <3>2
  <2> DEFINE i == made[j].parent
  <2>3. i \in 1 .. Len(made)
    BY <2>2, MadeFacts DEF Complete
  <2>4. Len(g[i]) = n - 1
    BY <2>1, <2>2, DepthOf
  <2>5. g[i] \in AtDepth(g, n - 1)
    BY <2>3, <2>4 DEF AtDepth
  <2>6. j \in MadeUnder(i)
    BY DEF MadeUnder
  <2>7. q \in FieldKids(g[i])
    <3> HIDE DEF i
    <3>1. FieldKids(g[i]) = {g[k] : k \in MadeUnder(i)}
      BY <2>3, KidsMade
    <3>2. q \in {g[k] : k \in MadeUnder(i)}
      BY <2>1, <2>6
    <3> QED
      BY <3>1, <3>2
  <2> QED
    BY <2>5, <2>7
<1> QED
  BY <1>1, <1>2

LEMMA PlacesMade ==
    ASSUME NEW g, Complete(g)
    PROVE  Places = {g[i] : i \in 1 .. Len(made)}
<1> DEFINE F(h) == [n \in 1 .. MaxDepth |->
                       IF n = 1 THEN Roots ELSE UNION {FieldKids(p) : p \in h[n - 1]}]
           q == [n \in 1 .. MaxDepth |-> AtDepth(g, n)]
           level == CHOOSE h : h = F(h)
<1>1. MaxDepth \in Nat \ {0}
  BY MaxDepthAssumption
<1>2. \A n \in 1 .. MaxDepth : n # 1 => n - 1 \in 1 .. MaxDepth /\ n > 1 /\ n \in Nat
  BY <1>1
<1>3. \A n \in 1 .. MaxDepth :
          q[n] = IF n = 1 THEN Roots ELSE UNION {FieldKids(p) : p \in q[n - 1]}
  <2>1. ASSUME NEW n \in 1 .. MaxDepth
        PROVE  q[n] = IF n = 1 THEN Roots ELSE UNION {FieldKids(p) : p \in q[n - 1]}
    <3>1. q[n] = AtDepth(g, n) /\ (n # 1 => q[n - 1] = AtDepth(g, n - 1))
      BY <1>2
    <3> HIDE DEF q
    <3>2. CASE n = 1
      BY <3>1, <3>2, FirstDepth
    <3>3. CASE n # 1
      BY <1>2, <3>1, <3>3, NextDepth
    <3> QED
      BY <3>2, <3>3
  <2> QED
    BY <2>1
<1>4. q = F(q)
  BY <1>3
<1>5. level = F(level)
  BY <1>4
<1>6. Places = UNION {level[n] : n \in 1 .. MaxDepth}
  BY DEF Places, level
<1> HIDE DEF level, q
<1>7. \A n \in 1 .. MaxDepth :
          level[n] = IF n = 1 THEN Roots ELSE UNION {FieldKids(p) : p \in level[n - 1]}
  BY <1>5
<1>8. \A n \in 1 .. MaxDepth : level[n] = q[n]
  <2> DEFINE S == {n \in 1 .. MaxDepth : level[n] # q[n]}
  <2>1. SUFFICES ASSUME S # {}
                 PROVE  FALSE
    BY <2>1
  <2>2. S \subseteq Nat
    OBVIOUS
  <2>3. PICK n \in S : \A k \in S : n <= k
    BY <2>1, <2>2, LeastNumber
  <2>4. n # 1
    BY <1>3, <1>7, <2>3
  <2>5. n - 1 \in 1 .. MaxDepth /\ n - 1 < n
    BY <1>2, <2>3, <2>4
  <2>6. n - 1 \notin S
    BY <2>3, <2>5
  <2>7. level[n - 1] = q[n - 1]
    BY <2>5, <2>6
  <2>8. level[n] = UNION {FieldKids(p) : p \in level[n - 1]}
    BY <1>7, <2>3, <2>4
  <2>9. q[n] = UNION {FieldKids(p) : p \in q[n - 1]}
    BY <1>3, <2>3, <2>4
  <2>10. level[n] = q[n]
    BY <2>7, <2>8, <2>9
  <2> QED
    BY <2>3, <2>10
<1>9. \A n \in 1 .. MaxDepth : level[n] = AtDepth(g, n)
  BY <1>8 DEF q
<1>10. \A i \in 1 .. Len(made) : Len(g[i]) \in 1 .. MaxDepth
  BY DepthOf
<1>11. UNION {AtDepth(g, n) : n \in 1 .. MaxDepth} = {g[i] : i \in 1 .. Len(made)}
  BY <1>10 DEF AtDepth
<1> QED
  BY <1>6, <1>9, <1>11

Ends(p, s, x) == p = Append(s, x)
LEMMA SameLast ==
    ASSUME NEW S, NEW p, NEW s \in Seq(S), NEW t \in Seq(S), NEW x \in S, NEW y \in S,
           Ends(p, s, x), Ends(p, t, y)
    PROVE  s = t /\ x = y
<1>1. Append(s, x) = Append(t, y)
  BY DEF Ends
<1> QED
  BY <1>1, AppendInjective

LEMMA SameLastNumber ==
    ASSUME NEW p, NEW s \in Seq(Nat), NEW t \in Seq(Nat), NEW x \in Nat, NEW y \in Nat,
           Ends(p, s, x), Ends(p, t, y)
    PROVE  s = t /\ x = y
BY SameLast, Zenon

(* Different fields stand at different places, ...                         *)
LEMMA PlacesDiffer ==
    ASSUME NEW g, Complete(g), NEW i \in 1 .. Len(made), NEW j \in 1 .. Len(made), g[i] = g[j]
    PROVE  i = j
<1> DEFINE D == 1 .. Len(made)
           S == {n \in D : \E k \in D : g[k] = g[n] /\ k # n}
<1>1. SUFFICES ASSUME i # j
               PROVE  FALSE
  BY <1>1
<1>2. S # {} /\ S \subseteq Nat
  BY <1>1
<1>3. PICK n \in S : \A k \in S : n <= k
  BY <1>2, LeastNumber
<1>4. PICK k \in D : g[k] = g[n] /\ k # n
  BY <1>3
<1>5. n \in D /\ k \in D /\ Tree(form, made) /\ Placed(made, g)
  BY <1>3, <1>4 DEF Complete
<1> HIDE DEF S
<1> DEFINE p == made[n].parent
           q == made[k].parent
<1>6. /\ p \in 0 .. Len(made) /\ p < n /\ (p # 0 => p \in D) /\ made[n].at \in Nat
      /\ q \in 0 .. Len(made) /\ (q # 0 => q \in D) /\ made[k].at \in Nat
  BY <1>5, MadeFacts
<1>7. g[n] = Append(g[p], made[n].at) /\ g[k] = Append(g[q], made[k].at)
  BY <1>5 DEF Placed
<1>8. g[p] \in Seq(Nat) /\ g[q] \in Seq(Nat)
  BY <1>5, <1>6 DEF Placed
<1>9. g[p] = g[q] /\ made[n].at = made[k].at
  <2>1. Ends(g[n], g[p], made[n].at) /\ Ends(g[n], g[q], made[k].at)
    BY <1>4, <1>7 DEF Ends
  <2>2. PICK u, v, x, y : u = g[p] /\ v = g[q] /\ x = made[n].at /\ y = made[k].at
    OBVIOUS
  <2>3. /\ Ends(g[n], u, x) /\ Ends(g[n], v, y)
        /\ u \in Seq(Nat) /\ v \in Seq(Nat) /\ x \in Nat /\ y \in Nat
    BY <1>6, <1>8, <2>1, <2>2
  <2>4. u = v /\ x = y
    BY <2>3, SameLastNumber
  <2> QED
    BY <2>2, <2>4
<1>10. p = q
  <2>1. Len(g[0]) = 0
    BY <1>5, EmptySeq DEF Placed
  <2>2. \A x \in D : Len(g[x]) \in 1 .. MaxDepth
    BY DepthOf
  <2>3. \A x \in D : Len(g[x]) # 0
    BY <2>2, MaxDepthAssumption
  <2>4. p = 0 <=> q = 0
    BY <1>6, <1>9, <2>1, <2>3
  <2>5. CASE p # 0 /\ q # 0 /\ p # q
    <3>1. p \in S
      BY <1>6, <1>9, <2>5 DEF S
    <3>2. n <= p
      BY <1>3, <3>1
    <3> QED
      BY <1>5, <1>6, <3>2
  <2> QED
    BY <2>4, <2>5
<1> QED
  BY <1>4, <1>5, <1>9, <1>10, Zenon DEF Tree

(* ... and where siblings are told by their names, have different names.   *)
Distinct(m) == \A i, j \in 1 .. Len(made) : m[i] = m[j] => i = j

LEMMA NamesTell ==
    ASSUME NEW g, Complete(g), NEW m, Named(form, made, m), NamesDiffer
    PROVE  Distinct(m)
<1> DEFINE D == 1 .. Len(made)
           S == {n \in D : \E k \in D : m[k] = m[n] /\ k # n}
           T(i) == form.dicts[made[i].dict].t
<1>1. SUFFICES ASSUME S # {}
               PROVE  FALSE
  BY <1>1 DEF Distinct
<1>2. S \subseteq Nat
  OBVIOUS
<1>3. PICK n \in S : \A k \in S : n <= k
  BY <1>1, <1>2, LeastNumber
<1>4. PICK k \in D : m[k] = m[n] /\ k # n
  BY <1>3
<1>5. n \in D /\ k \in D /\ FormOK(form) /\ Tree(form, made) /\ Placed(made, g)
  BY <1>3, <1>4 DEF Complete
<1> HIDE DEF S
<1> DEFINE p == made[n].parent
           q == made[k].parent
<1>6. /\ p \in 0 .. Len(made) /\ p < n /\ (p # 0 => p \in D) /\ made[n].dict \in Dict
      /\ q \in 0 .. Len(made) /\ (q # 0 => q \in D) /\ made[k].dict \in Dict
  BY <1>5, MadeFacts
<1>7. \A i \in D : g[i] \in Places /\ T(i) = Dicts[DictAt(g[i])].t
  <2>1. \A i \in D : g[i] \in Places
    BY PlacesMade
  <2>2. \A i \in D : DictAt(g[i]) = made[i].dict
    BY <1>5, DictMade
  <2> QED
    BY <2>1, <2>2 DEF Dicts
<1>8. \A i \in D : T(i) # NoName
  BY <1>7 DEF NamesDiffer
<1>9. \A i \in D : T(i) \in Name
  <2>1. \A i \in D : T(i) \in Name \cup {NoName}
    BY <1>5, MadeFacts, KidsTypes
  <2> QED
    BY <1>8, <2>1
<1>10. /\ m[n] = Append(m[p], T(n)) /\ m[k] = Append(m[q], T(k))
       /\ m[p] \in Seq(Name) /\ m[q] \in Seq(Name)
  <2>1. m[n] = Called(form, made, m, n) /\ m[k] = Called(form, made, m, k)
    BY <1>5 DEF Named
  <2>2. m[p] \in Seq(Name) /\ m[q] \in Seq(Name)
    BY <1>6 DEF Named
  <2> QED
    BY <1>5, <1>8, <2>1, <2>2 DEF Called
<1>11. m[p] = m[q] /\ T(n) = T(k)
  <2>1. T(n) \in Name /\ T(k) \in Name
    BY <1>5, <1>9
  <2>2. Ends(m[n], m[p], T(n)) /\ Ends(m[n], m[q], T(k))
    BY <1>4, <1>10 DEF Ends
  <2> HIDE DEF T
  <2>3. PICK u, v, x, y : u = m[p] /\ v = m[q] /\ x = T(n) /\ y = T(k)
    OBVIOUS
  <2>4. /\ Ends(m[n], u, x) /\ Ends(m[n], v, y)
        /\ u \in Seq(Name) /\ v \in Seq(Name) /\ x \in Name /\ y \in Name
    BY <1>10, <2>1, <2>2, <2>3
  <2>5. u = v /\ x = y
    BY <2>4, SameLast
  <2> QED
    BY <2>3, <2>5
<1>12. p = q
  <2>1. \A x \in D : m[x] # <<>>
    <3>1. ASSUME NEW x \in D
          PROVE  m[x] # <<>>
      <4>1. made[x].parent \in 0 .. Len(made)
        BY <1>5, MadeFacts
      <4>2. m[made[x].parent] \in Seq(Name)
        BY <4>1 DEF Named
      <4>3. m[x] = Append(m[made[x].parent], T(x))
        BY <1>8 DEF Called, Named
      <4> HIDE DEF T
      <4>4. T(x) \in Name
        BY <1>9
      <4> QED
        BY <4>2, <4>3, <4>4, AppendProperties
    <3> QED
      BY <3>1
  <2>2. m[0] = <<>>
    BY DEF Named
  <2>3. p = 0 <=> q = 0
    BY <1>6, <1>11, <2>1, <2>2
  <2>4. CASE p # 0 /\ q # 0 /\ p # q
    <3>1. p \in S
      BY <1>6, <1>11, <2>4 DEF S
    <3>2. n <= p
      BY <1>3, <3>1
    <3> QED
      BY <1>5, <1>6, <3>2
  <2> QED
    BY <2>3, <2>4
<1>13. Siblings(g[n], g[k])
  <2>1. made[n].at \in Nat /\ made[k].at \in Nat /\ g[p] \in Seq(Nat)
    BY <1>5, <1>6, MadeFacts DEF Placed
  <2>2. g[n] = Append(g[p], made[n].at) /\ g[k] = Append(g[p], made[k].at)
    BY <1>5, <1>12 DEF Placed
  <2>3. /\ Len(g[p]) \in Nat /\ Len(g[n]) = Len(g[p]) + 1 /\ Len(g[k]) = Len(g[p]) + 1
        /\ \A i \in 1 .. Len(g[p]) : g[n][i] = g[p][i] /\ g[k][i] = g[p][i]
    <3>1. PICK s : s = g[p]
      OBVIOUS
    <3>2. s \in Seq(Nat) /\ g[n] = Append(s, made[n].at) /\ g[k] = Append(s, made[k].at)
      BY <2>1, <2>2, <3>1
    <3>3. /\ Len(s) \in Nat /\ Len(g[n]) = Len(s) + 1
          /\ \A i \in 1 .. Len(s) : g[n][i] = s[i]
      BY <2>1, <3>2, Pushed
    <3>4. Len(g[k]) = Len(s) + 1 /\ \A i \in 1 .. Len(s) : g[k][i] = s[i]
      BY <2>1, <3>2, Pushed
    <3> QED
      BY <3>1, <3>3, <3>4
  <2>4. Len(g[n]) - 1 = Len(g[p])
    BY <2>3
  <2> QED
    BY <2>3, <2>4 DEF Siblings
<1>14. g[n] # g[k]
  BY <1>4, <1>5, PlacesDiffer
<1> QED
  BY <1>5, <1>7, <1>11, <1>13, <1>14 DEF NamesDiffer

-----------------------------------------------------------------------------
(* The invariant holds at first and is kept by each action.                *)
LEMMA FormTypes ==
    ASSUME form \in Forms
    PROVE  FormOK(form)
BY FormsAssumption DEF FormOK

LEMMA StartWalked ==
    ASSUME NEW f, FormOK(f), NEW c, DOMAIN c = {}
    PROVE  \E g, m : Walked(f, <<>>, <<>>, 1, <<>>, c, g, m)
<1>1. PICK g, m : g = [i \in 0 .. 0 |-> <<>>] /\ m = [i \in 0 .. 0 |-> <<>>]
  OBVIOUS
<1>2. Len(<<>>) = 0 /\ 1 .. 0 = {} /\ \A S : <<>> \in Seq(S)
  BY EmptySeq
<1>3. g \in [0 .. Len(<<>>) -> Seq(Nat)] /\ m \in [0 .. Len(<<>>) -> Seq(Name)]
      /\ g[0] = <<>> /\ m[0] = <<>>
  BY <1>1, <1>2
<1>4. 1 \in 1 .. Len(f.roots) + 1 /\ 1 .. 1 - 1 = {}
  <2>1. Len(f.roots) \in Nat
    BY LenProperties DEF FormOK
  <2> QED
    BY <2>1
<1>5. Tree(f, <<>>)
  BY <1>2, Zenon DEF Tree
<1>6. Placed(<<>>, g) /\ Named(f, <<>>, m)
  BY <1>2, <1>3, Zenon DEF Placed, Named
<1>7. Chain(f, <<>>, <<>>, g)
  BY <1>2, Zenon DEF Chain
<1>8. RootsDone(f, <<>>, 1)
  BY <1>2, <1>4, Zenon DEF RootsDone
<1>9. KidsDone(f, <<>>, <<>>) /\ ControlsTaken(f, <<>>, <<>>)
  BY <1>2, Zenon DEF KidsDone, ControlsTaken, ControlsOf
<1>10. ReturnedListed(<<>>, <<>>, <<>>)
  BY <1>2, Zenon DEF ReturnedListed
<1>11. ListedFiled(<<>>, c, m)
  BY <1>2, Zenon DEF ListedFiled
<1> QED
  BY <1>4, <1>5, <1>6, <1>7, <1>8, <1>9, <1>10, <1>11, Zenon DEF Walked

LEMMA IndInit ==
    ASSUME Init
    PROVE  IndInv
<1>1. form \in Forms /\ FormOK(form) /\ DOMAIN fieldsByName = {} /\ phase = "loading"
  BY FormTypes DEF Init
<1>2. \E g, m : Walked(form, <<>>, <<>>, 1, <<>>, fieldsByName, g, m)
  BY <1>1, StartWalked
<1>3. made = <<>> /\ stack = <<>> /\ nextRoot = 1 /\ fields = <<>>
  BY DEF Init
<1> QED
  BY <1>1, <1>2, <1>3 DEF IndInv

LEMMA NoRootWalked ==
    ASSUME NEW f, NEW a, NEW s, NEW r, NEW l, NEW c, NEW g, NEW m,
           Walked(f, a, s, r, l, c, g, m), r <= Len(f.roots), f.roots[r] = NoDict,
           NEW q, q = r + 1
    PROVE  Walked(f, a, s, q, l, c, g, m)
<1>1. FormOK(f) /\ r \in 1 .. Len(f.roots) + 1 /\ RootsDone(f, a, r) /\ Tree(f, a)
  BY DEF Walked
<1>2. Len(f.roots) \in Nat
  BY <1>1, LenProperties DEF FormOK
<1>3. q \in 1 .. Len(f.roots) + 1 /\ \A k \in 1 .. q - 1 : k \in 1 .. r - 1 \/ k = r
  BY <1>1, <1>2
<1>4. ASSUME NEW j \in 1 .. Len(a), a[j].parent = 0
      PROVE  a[j].at < q
  <2>1. a[j].at < r
    BY <1>1, <1>4 DEF RootsDone
  <2>2. a[j] \in Fields
    BY <1>1, ElementOfSeq DEF Tree
  <2>3. a[j].at \in Nat
    BY <2>2 DEF Fields
  <2> QED
    BY <1>1, <1>2, <2>1, <2>3
<1>5. RootsDone(f, a, q)
  BY <1>1, <1>3, <1>4, Zenon DEF RootsDone
<1> QED
  BY <1>3, <1>5, Zenon DEF Walked

(* A field and its call: Enter is the step of EnterWalked.                 *)
NewField(d, at, parent) == [dict |-> d, at |-> at, parent |-> parent,
                            controls |-> IF Dicts[d].kids = NoKids THEN <<d>> ELSE <<>>]

EnterOf(d, at, parent, e) ==
    /\ d \in Dict /\ at \in Nat /\ parent \in Nat
    /\ Enter(d, at, parent) /\ e = NewField(d, at, parent)
EnterMade(d, at, parent, e) ==
    /\ MadeTypes(made, e, made') /\ stack' = CallOf(made, stack)
    /\ e.dict = d /\ e.at = at /\ e.parent = parent
    /\ e.controls = IF form.dicts[e.dict].kids = NoKids THEN <<e.dict>> ELSE <<>>

LEMMA Entered ==
    ASSUME made \in Seq(Fields), NEW d, NEW at, NEW parent, NEW e, EnterOf(d, at, parent, e)
    PROVE  EnterMade(d, at, parent, e)
<1>0. /\ d \in Dict /\ at \in Nat /\ parent \in Nat
      /\ Enter(d, at, parent) /\ e = NewField(d, at, parent)
  BY DEF EnterOf
<1>1. <<d>> \in Seq(Dict) /\ <<>> \in Seq(Dict)
  BY <1>0
<1>2. /\ e.dict = d /\ e.at = at /\ e.parent = parent
      /\ e.controls = IF form.dicts[e.dict].kids = NoKids THEN <<e.dict>> ELSE <<>>
  BY <1>0 DEF NewField, Dicts
<1>3. e \in Fields
  BY <1>0, <1>1 DEF NewField, Fields
<1>4. made' = Append(made, e) /\ stack' = CallOf(made, stack)
  BY <1>0 DEF Enter, NewField, CallOf
<1> QED
  BY <1>2, <1>3, <1>4 DEF MadeTypes, EnterMade

LEMMA LoadRootStep ==
    ASSUME NEW g, NEW m, Walked(form, made, stack, nextRoot, fields, fieldsByName, g, m), LoadRoot
    PROVE  \E h, w : Walked(form, made', stack', nextRoot', fields, fieldsByName, h, w)
<1>1. /\ FormOK(form) /\ Tree(form, made) /\ nextRoot \in 1 .. Len(form.roots) + 1
      /\ stack = <<>> /\ nextRoot <= Len(form.roots) /\ nextRoot' = nextRoot + 1
  BY DEF LoadRoot, Walked
<1>2. form.roots \in Seq(Dict \cup {NoDict}) /\ made \in Seq(Fields)
  BY <1>1 DEF FormOK, Tree
<1>3. Len(form.roots) \in Nat /\ nextRoot \in 1 .. Len(form.roots) /\ Len(made) \in Nat
  BY <1>1, <1>2, LenProperties
<1>4. CASE form.roots[nextRoot] = NoDict
  <2>1. made' = made /\ stack' = stack
    BY <1>4 DEF LoadRoot
  <2>2. Walked(form, made, stack, nextRoot', fields, fieldsByName, g, m)
    BY <1>1, <1>4, NoRootWalked
  <2> QED
    BY <2>1, <2>2
<1>5. CASE form.roots[nextRoot] # NoDict
  <2>1. PICK e, d : d = form.roots[nextRoot] /\ e = NewField(d, nextRoot, 0)
    OBVIOUS
  <2>2. d \in Dict
    BY <1>2, <1>3, <1>5, <2>1, ElementOfSeq
  <2>3. Enter(d, nextRoot, 0)
    BY <1>5, <2>1 DEF LoadRoot
  <2>4. /\ MadeTypes(made, e, made') /\ stack' = CallOf(made, stack)
        /\ e.dict = d /\ e.at = nextRoot /\ e.parent = 0
        /\ e.controls = IF form.dicts[e.dict].kids = NoKids THEN <<e.dict>> ELSE <<>>
    <3>1. EnterOf(d, nextRoot, 0, e)
      BY <1>3, <2>1, <2>2, <2>3 DEF EnterOf
    <3>2. EnterMade(d, nextRoot, 0, e)
      BY <1>2, <3>1, Entered, Zenon
    <3> QED
      BY <3>2 DEF EnterMade
  <2>5. Entering(stack, e) /\ e.parent \in 0 .. Len(made) /\ Len(stack) < MaxDepth
    BY <1>1, <1>3, <2>4, MaxDepthAssumption DEF Entering
  <2>6. e.parent = 0 => /\ stack = <<>> /\ e.at = nextRoot /\ nextRoot <= Len(form.roots)
                        /\ form.roots[nextRoot] # NoDict /\ form.roots[nextRoot] = e.dict
    BY <1>1, <1>5, <2>1, <2>4
  <2>7. e.parent # 0 => /\ FieldAt(form, made[e.parent].dict, e.at)
                        /\ KidsIn(form, made[e.parent].dict)[e.at] = e.dict
    BY <2>4
  <2>8. nextRoot' = IF e.parent = 0 THEN nextRoot + 1 ELSE nextRoot
    BY <1>1, <2>4
  <2> QED
    BY <2>4, <2>5, <2>6, <2>7, <2>8, EnterWalked
<1> QED
  BY <1>4, <1>5

LEMMA TopCall ==
    ASSUME NEW g, NEW m, Walked(form, made, stack, nextRoot, fields, fieldsByName, g, m), stack # <<>>
    PROVE  /\ stack \in Seq(Calls) /\ Len(stack) \in Nat \ {0} /\ Len(stack) \in 1 .. Len(stack)
           /\ Top.field \in 1 .. Len(made) /\ Top.field \in Nat \ {0} /\ Top.next \in Nat \ {0}
           /\ Len(stack) <= MaxDepth
           /\ made[Top.field].dict \in Dict
<1>1. Chain(form, made, stack, g) /\ Tree(form, made) /\ Placed(made, g)
  BY DEF Walked
<1>2. stack \in Seq(Calls)
  BY <1>1 DEF Chain
<1>3. Len(stack) \in Nat \ {0} /\ Len(stack) \in 1 .. Len(stack)
  BY <1>2, EmptySeq, LenProperties
<1>4. Top \in Calls
  BY <1>2, <1>3, ElementOfSeq DEF Top
<1>5. Top.field \in 1 .. Len(made) /\ Len(g[Top.field]) = Len(stack)
  BY <1>1, <1>3, Zenon DEF Chain, Top
<1>6. Len(stack) <= MaxDepth
  <2>1. Len(g[Top.field]) <= MaxDepth
    BY <1>1, <1>5, Zenon DEF Placed
  <2> QED
    BY <1>5, <2>1
<1>7. made[Top.field].dict \in Dict
  BY <1>1, <1>5, MadeFacts
<1> QED
  BY <1>2, <1>3, <1>4, <1>5, <1>6, <1>7 DEF Calls

LEMMA LoadFieldStep ==
    ASSUME NEW g, NEW m, Walked(form, made, stack, nextRoot, fields, fieldsByName, g, m), LoadField
    PROVE  \E h, w : Walked(form, made', stack', nextRoot, fields, fieldsByName, h, w)
<1>1. FormOK(form) /\ Tree(form, made) /\ stack # <<>>
  BY DEF LoadField, HasKid, Walked
<1>2. /\ Len(stack) \in Nat \ {0} /\ Top.field \in 1 .. Len(made) /\ Top.next \in Nat \ {0}
      /\ Len(stack) <= MaxDepth /\ made[Top.field].dict \in Dict
  BY <1>1, TopCall
<1>3. CASE UNCHANGED <<made, stack>>
  BY <1>3
<1>4. CASE Deeper /\ Enter(Kid, Top.next, Top.field)
  <2>1. PICK e, d : d = Kid /\ e = NewField(d, Top.next, Top.field)
    OBVIOUS
  <2>2. /\ KidsIn(form, made[Top.field].dict) = KidsOf(Top.field)
        /\ Top.next <= Len(KidsOf(Top.field))
    BY DEF LoadField, HasKid, KidsIn, KidsOf, Dicts
  <2>3. Len(KidsIn(form, made[Top.field].dict)) \in Nat
    BY <1>1, <1>2, KidsTypes
  <2>4. FieldAt(form, made[Top.field].dict, Top.next)
    <3>1. Top.next \in 1 .. Len(KidsIn(form, made[Top.field].dict))
      BY <1>2, <2>2, <2>3
    <3>2. Kid # NoDict /\ IsFieldIn(form, Kid) /\ Kid = KidsIn(form, made[Top.field].dict)[Top.next]
      BY <2>2 DEF LoadField, IsField, IsFieldIn, Kid, Dicts
    <3> QED
      BY <3>1, <3>2, Zenon DEF FieldAt
  <2>5. d \in Dict /\ d = KidsIn(form, made[Top.field].dict)[Top.next]
    <3>1. d = KidsIn(form, made[Top.field].dict)[Top.next]
      BY <2>1, <2>2 DEF Kid
    <3>2. KidsIn(form, made[Top.field].dict)[Top.next] \in Dict
      BY <1>1, <1>2, <2>4, KidsTypes, Zenon
    <3> QED
      BY <3>1, <3>2
  <2>6. made \in Seq(Fields) /\ Top.next \in Nat /\ Top.field \in Nat /\ Enter(d, Top.next, Top.field)
    BY <1>1, <1>2, <1>4, <2>1 DEF Tree
  <2>7. /\ MadeTypes(made, e, made') /\ stack' = CallOf(made, stack)
        /\ e.dict = d /\ e.at = Top.next /\ e.parent = Top.field
        /\ e.controls = IF form.dicts[e.dict].kids = NoKids THEN <<e.dict>> ELSE <<>>
    <3>1. PICK k, p : k = Top.next /\ p = Top.field
      OBVIOUS
    <3>2. k \in Nat /\ p \in Nat /\ Enter(d, k, p) /\ e = NewField(d, k, p)
      BY <2>1, <2>6, <3>1
    <3>3. EnterOf(d, k, p, e)
      BY <2>5, <3>2 DEF EnterOf
    <3>4. EnterMade(d, k, p, e)
      BY <2>6, <3>3, Entered, Zenon
    <3> QED
      BY <3>1, <3>4 DEF EnterMade
  <2>8. Entering(stack, e) /\ e.parent \in 0 .. Len(made) /\ e.parent # 0 /\ Len(stack) < MaxDepth
    BY <1>1, <1>2, <1>4, <2>7 DEF Entering, Top, Deeper
  <2>9. /\ FieldAt(form, made[e.parent].dict, e.at)
        /\ KidsIn(form, made[e.parent].dict)[e.at] = e.dict
    BY <2>4, <2>5, <2>7
  <2> QED
    BY <2>7, <2>8, <2>9, EnterWalked
<1> QED
  BY <1>3, <1>4 DEF LoadField

LEMMA AddControlStep ==
    ASSUME NEW g, NEW m, Walked(form, made, stack, nextRoot, fields, fieldsByName, g, m), AddControl
    PROVE  Walked(form, made', stack', nextRoot, fields, fieldsByName, g, m)
<1>1. stack # <<>> /\ Top.next <= Len(KidsOf(Top.field)) /\ KidsOf(Top.field) # NoKids
  BY DEF AddControl, HasKid
<1>2. PICK x, kids, n : x = Top.field /\ kids = KidsOf(x) /\ n = Top.next
  OBVIOUS
<1>3. StandsAt(form, made, stack, x, kids, n)
  BY <1>1, <1>2 DEF StandsAt, Top, KidsOf, Dicts
<1>4. PICK kid : kid = Kid
  OBVIOUS
<1>5. kid = kids[n] /\ (kid # NoDict => ~IsFieldIn(form, kid))
  BY <1>2, <1>4 DEF AddControl, Kid, IsField, IsFieldIn, Dicts
<1>6. made' = WithControl(made, x, kid) /\ stack' = OneOn(stack)
  BY <1>2, <1>4 DEF AddControl, WithControl, OneOn, Passed
<1> QED
  BY <1>3, <1>5, <1>6, PassWalked

LEMMA ReturnStep ==
    ASSUME NEW g, NEW m, Walked(form, made, stack, nextRoot, fields, fieldsByName, g, m), Return
    PROVE  Walked(form, made, stack', nextRoot, fields', fieldsByName', g, m)
<1>1. FormOK(form) /\ Tree(form, made) /\ Named(form, made, m) /\ stack # <<>>
  BY DEF Return, Walked
<1>2. /\ stack \in Seq(Calls) /\ Len(stack) \in Nat \ {0}
      /\ Top.field \in 1 .. Len(made) /\ Top.next \in Nat \ {0}
  BY <1>1, TopCall
<1>3. NoKidLeft(form, made, stack)
  <2> DEFINE d == made[Top.field].dict
  <2>1. ~(KidsOf(Top.field) # NoKids /\ Top.next <= Len(KidsOf(Top.field)))
    BY <1>1 DEF Return, HasKid
  <2>2. d \in Dict
    BY <1>1, TopCall
  <2>3. KidsIn(form, d) = IF KidsOf(Top.field) = NoKids THEN <<>> ELSE KidsOf(Top.field)
    BY DEF KidsIn, KidsOf, Dicts
  <2>4. Len(KidsIn(form, d)) \in Nat
    BY <1>1, <2>2, KidsTypes
  <2>5. Top.next > Len(KidsIn(form, d))
    <3>1. CASE KidsOf(Top.field) = NoKids
      <4>1. Len(KidsIn(form, d)) = 0
        BY <2>3, <3>1, EmptySeq
      <4> QED
        BY <1>2, <4>1
    <3>2. CASE KidsOf(Top.field) # NoKids
      <4>1. ~(Top.next <= Len(KidsIn(form, d)))
        BY <2>1, <2>3, <3>2
      <4> HIDE DEF d
      <4> QED
        BY <1>2, <2>4, <4>1
    <3> QED
      BY <3>1, <3>2
  <2> QED
    BY <2>5 DEF NoKidLeft, Top
<1>4. stack' = Returned(stack)
  <2>1. Len(Without(stack)) = Len(stack) - 1
    <3>1. \A n \in 1 .. Len(stack) : stack[n] \in Calls
      BY <1>2, ElementOfSeq
    <3>2. PICK k : k = Len(stack) - 1
      OBVIOUS
    <3>3. k \in Nat /\ \A n \in 1 .. k : stack[n] \in Calls
      BY <1>2, <3>1, <3>2
    <3>4. Len(SubSeq(stack, 1, k)) = IF 1 <= k THEN k - 1 + 1 ELSE 0
      BY <3>3, SubSeqProperties
    <3>5. Len(SubSeq(stack, 1, k)) = k
      BY <3>3, <3>4
    <3> QED
      BY <3>2, <3>5 DEF Without
  <2>2. stack' = Popped
    BY DEF Return
  <2>3. Popped = IF Len(stack) - 1 = 0 THEN Without(stack)
                 ELSE [Without(stack) EXCEPT ![Len(stack) - 1].next = @ + 1]
    BY DEF Popped, Without
  <2> QED
    BY <2>1, <2>2, <2>3 DEF Returned, OneOn
<1>5. PICK x : x = Top.field
  OBVIOUS
<1>6. x = stack[Len(stack)].field /\ x \in 1 .. Len(made)
  BY <1>2, <1>5 DEF Top
<1>7. Listed(x) <=> ListedIn(made, x)
  <2>1. DOMAIN made = 1 .. Len(made)
    BY <1>1, LenProperties DEF Tree
  <2> QED
    BY <2>1 DEF Listed, ListedIn, HasChild
<1>8. FullName(x) = m[x]
  BY <1>1, <1>6, NameIs
<1>9. fields' = ListedWith(made, fields, x) /\ fieldsByName' = FiledWith(made, fieldsByName, m, x)
  <2>1. CASE Listed(x)
    <3>1. fields' = Append(fields, x) /\ fieldsByName' = Filed(x)
      BY <1>5, <2>1 DEF Return
    <3> QED
      BY <1>7, <1>8, <2>1, <3>1 DEF Filed, ListedWith, FiledWith
  <2>2. CASE ~Listed(x)
    BY <1>5, <1>7, <2>2 DEF Return, ListedWith, FiledWith
  <2> QED
    BY <2>1, <2>2
<1> QED
  BY <1>1, <1>3, <1>4, <1>6, <1>9, ReturnWalked

LEMMA IndNext ==
    ASSUME IndInv, [Next]_vars
    PROVE  IndInv'
<1>1. form \in Forms
  BY DEF IndInv
<1>2. PICK g, m : Walked(form, made, stack, nextRoot, fields, fieldsByName, g, m)
  BY DEF IndInv
<1>3. CASE LoadRoot
  <2>1. \E h, w : Walked(form, made', stack', nextRoot', fields, fieldsByName, h, w)
    BY <1>2, <1>3, LoadRootStep
  <2>2. form' = form /\ phase' \in {"loading", "overflow"} /\ fields' = fields /\ fieldsByName' = fieldsByName
    BY <1>3 DEF LoadRoot
  <2> QED
    BY <1>1, <2>1, <2>2 DEF IndInv
<1>4. CASE LoadField
  <2>1. \E h, w : Walked(form, made', stack', nextRoot, fields, fieldsByName, h, w)
    BY <1>2, <1>4, LoadFieldStep
  <2>2. /\ form' = form /\ phase' \in {"loading", "overflow"}
        /\ nextRoot' = nextRoot /\ fields' = fields /\ fieldsByName' = fieldsByName
    BY <1>4 DEF LoadField, HasKid
  <2> QED
    BY <1>1, <2>1, <2>2 DEF IndInv
<1>5. CASE AddControl
  <2>1. Walked(form, made', stack', nextRoot, fields, fieldsByName, g, m)
    BY <1>2, <1>5, AddControlStep
  <2>2. /\ form' = form /\ phase' \in {"loading", "overflow"}
        /\ nextRoot' = nextRoot /\ fields' = fields /\ fieldsByName' = fieldsByName
    BY <1>5 DEF AddControl, HasKid
  <2> QED
    BY <1>1, <2>1, <2>2 DEF IndInv
<1>6. CASE Return
  <2>1. Walked(form, made, stack', nextRoot, fields', fieldsByName', g, m)
    BY <1>2, <1>6, ReturnStep
  <2>2. form' = form /\ phase' \in {"loading", "overflow"} /\ nextRoot' = nextRoot /\ made' = made
    BY <1>6 DEF Return
  <2> QED
    BY <1>1, <2>1, <2>2 DEF IndInv
<1>7. CASE Done
  <2>1. /\ phase' = "loaded" /\ stack = <<>> /\ nextRoot > Len(form.roots)
        /\ UNCHANGED <<form, nextRoot, stack, made, fields, fieldsByName>>
    BY <1>7 DEF Done
  <2>2. nextRoot \in 1 .. Len(form.roots) + 1 /\ Len(form.roots) \in Nat
    BY <1>2, LenProperties DEF Walked, FormOK
  <2>3. nextRoot = Len(form.roots) + 1
    BY <2>1, <2>2
  <2> QED
    BY <1>1, <1>2, <2>1, <2>3 DEF IndInv
<1>8. CASE UNCHANGED vars
  BY <1>8 DEF IndInv, vars
<1> QED
  BY <1>3, <1>4, <1>5, <1>6, <1>7, <1>8 DEF Next

LEMMA Invariance == Spec => []IndInv
<1>1. Init => IndInv
  BY IndInit
<1>2. IndInv /\ [Next]_vars => IndInv'
  BY IndNext
<1> QED
  BY <1>1, <1>2, PTL DEF Spec

-----------------------------------------------------------------------------
(* When the form is loaded.                                                *)
LEMMA LoadedWalk ==
    ASSUME IndInv, phase = "loaded"
    PROVE  \E g, m : /\ Walked(form, made, <<>>, nextRoot, fields, fieldsByName, g, m)
                     /\ Complete(g) /\ Named(form, made, m)
<1>1. PICK g, m : Walked(form, made, <<>>, nextRoot, fields, fieldsByName, g, m)
  BY DEF IndInv
<1>2. /\ FormOK(form) /\ Tree(form, made) /\ Placed(made, g) /\ Named(form, made, m)
      /\ RootsDone(form, made, nextRoot) /\ KidsDone(form, made, <<>>)
  BY <1>1 DEF Walked
<1>3. nextRoot - 1 = Len(form.roots)
  <2>1. Len(form.roots) \in Nat
    BY <1>2, LenProperties DEF FormOK
  <2>2. nextRoot = Len(form.roots) + 1
    BY DEF IndInv
  <2> QED
    BY <2>1, <2>2
<1>4. \A k \in 1 .. Len(form.roots) : form.roots[k] # NoDict => MadeAt(made, 0, k)
  BY <1>2, <1>3 DEF RootsDone
<1>5. \A i : ~Open(<<>>, i)
  BY EmptySeq DEF Open
<1>6. \A i \in 1 .. Len(made) : \A k \in Nat :
          FieldAt(form, made[i].dict, k) => MadeAt(made, i, k)
  BY <1>2, <1>5, Zenon DEF KidsDone
<1>7. Complete(g)
  BY <1>2, <1>4, <1>6, Zenon DEF Complete
<1> QED
  BY <1>1, <1>2, <1>7

LEMMA ListedWhenLoaded ==
    ASSUME IndInv
    PROVE  RootsAndLeavesListed
<1>1. SUFFICES ASSUME phase = "loaded"
               PROVE  /\ {PlaceOf(fields[k]) : k \in DOMAIN fields}
                            = {p \in Places : p \in Roots \/ FieldKids(p) = {}}
                      /\ \A k, l \in DOMAIN fields : k # l => PlaceOf(fields[k]) # PlaceOf(fields[l])
  BY DEF RootsAndLeavesListed
<1>2. PICK g, m : /\ Walked(form, made, <<>>, nextRoot, fields, fieldsByName, g, m)
                  /\ Complete(g) /\ Named(form, made, m)
  BY <1>1, LoadedWalk
<1>3. /\ fields \in Seq(Nat) /\ \A k \in 1 .. Len(fields) : fields[k] \in 1 .. Len(made) /\ ListedIn(made, fields[k])
      /\ \A i \in 1 .. Len(made) : ListedIn(made, i) => \E k \in 1 .. Len(fields) : fields[k] = i
      /\ \A k, n \in 1 .. Len(fields) : fields[k] = fields[n] => k = n
  <2>1. \A i : ~Open(<<>>, i)
    BY EmptySeq DEF Open
  <2>2. ReturnedListed(made, <<>>, fields)
    BY <1>2 DEF Walked
  <2> QED
    BY <2>1, <2>2, Zenon DEF ReturnedListed
<1>4. DOMAIN fields = 1 .. Len(fields)
  BY <1>3, LenProperties
<1>5. \A k \in DOMAIN fields : PlaceOf(fields[k]) = g[fields[k]]
  <2>1. Tree(form, made) /\ Placed(made, g)
    BY <1>2 DEF Complete
  <2> QED
    BY <1>3, <1>4, <2>1, PlaceIs
<1>6. Places = {g[i] : i \in 1 .. Len(made)}
  BY <1>2, PlacesMade
<1>7. ASSUME NEW i \in 1 .. Len(made)
      PROVE  (g[i] \in Roots \/ FieldKids(g[i]) = {}) <=> ListedIn(made, i)
  <2>1. g[i] \in Roots <=> made[i].parent = 0
    <3>1. Roots = {g[j] : j \in MadeUnder(0)}
      BY <1>2, RootsMade
    <3>2. ASSUME g[i] \in Roots
          PROVE  made[i].parent = 0
      <4>1. PICK j \in MadeUnder(0) : g[i] = g[j]
        BY <3>1, <3>2
      <4>2. j \in 1 .. Len(made) /\ made[j].parent = 0
        BY DEF MadeUnder
      <4> QED
        BY <1>2, <4>1, <4>2, PlacesDiffer
    <3>3. ASSUME made[i].parent = 0
          PROVE  g[i] \in Roots
      <4>1. i \in MadeUnder(0)
        BY <3>3 DEF MadeUnder
      <4> QED
        BY <3>1, <4>1
    <3> QED
      BY <3>2, <3>3
  <2>2. FieldKids(g[i]) = {} <=> \A j \in 1 .. Len(made) : made[j].parent # i
    <3>1. FieldKids(g[i]) = {g[j] : j \in MadeUnder(i)}
      BY <1>2, KidsMade
    <3>2. MadeUnder(i) = {} <=> \A j \in 1 .. Len(made) : made[j].parent # i
      BY DEF MadeUnder
    <3> QED
      BY <3>1, <3>2
  <2> QED
    BY <2>1, <2>2 DEF ListedIn
<1>8. {PlaceOf(fields[k]) : k \in DOMAIN fields} = {p \in Places : p \in Roots \/ FieldKids(p) = {}}
  <2>1. ASSUME NEW k \in DOMAIN fields
        PROVE  /\ PlaceOf(fields[k]) \in Places
               /\ PlaceOf(fields[k]) \in Roots \/ FieldKids(PlaceOf(fields[k])) = {}
    <3>1. PICK i \in 1 .. Len(made) : i = fields[k] /\ ListedIn(made, i)
      BY <1>3, <1>4
    <3>2. PlaceOf(fields[k]) = g[i]
      BY <1>5, <3>1
    <3>3. g[i] \in Places /\ (g[i] \in Roots \/ FieldKids(g[i]) = {})
      BY <1>6, <1>7, <3>1
    <3> QED
      BY <3>2, <3>3
  <2>2. ASSUME NEW p \in Places, p \in Roots \/ FieldKids(p) = {}
        PROVE  \E k \in DOMAIN fields : p = PlaceOf(fields[k])
    <3>1. PICK i \in 1 .. Len(made) : p = g[i]
      BY <1>6
    <3>2. ListedIn(made, i)
      BY <1>7, <2>2, <3>1
    <3>3. PICK k \in DOMAIN fields : fields[k] = i
      BY <1>3, <1>4, <3>2
    <3> QED
      BY <1>5, <3>1, <3>3
  <2> QED
    BY <2>1, <2>2
<1>9. ASSUME NEW k \in DOMAIN fields, NEW l \in DOMAIN fields, PlaceOf(fields[k]) = PlaceOf(fields[l])
      PROVE  k = l
  <2>1. g[fields[k]] = g[fields[l]] /\ fields[k] \in 1 .. Len(made) /\ fields[l] \in 1 .. Len(made)
    BY <1>3, <1>4, <1>5, <1>9
  <2>2. fields[k] = fields[l]
    BY <1>2, <2>1, PlacesDiffer
  <2> QED
    BY <1>3, <1>4, <2>2
<1> QED
  BY <1>8, <1>9

LEMMA FoundWhenLoaded ==
    ASSUME IndInv
    PROVE  NamesFind
<1>1. SUFFICES ASSUME phase = "loaded", NamesDiffer, NEW k \in DOMAIN fields
               PROVE  /\ FullName(fields[k]) \in DOMAIN fieldsByName
                      /\ fieldsByName[FullName(fields[k])] = fields[k]
  BY DEF NamesFind
<1>2. PICK g, m : /\ Walked(form, made, <<>>, nextRoot, fields, fieldsByName, g, m)
                  /\ Complete(g) /\ Named(form, made, m)
  BY <1>1, LoadedWalk
<1>3. Distinct(m)
  BY <1>1, <1>2, NamesTell
<1>4. /\ fields \in Seq(Nat) /\ \A n \in 1 .. Len(fields) : fields[n] \in 1 .. Len(made)
      /\ ListedFiled(fields, fieldsByName, m)
  BY <1>2 DEF Walked, ReturnedListed
<1>5. DOMAIN fields = 1 .. Len(fields)
  BY <1>4, LenProperties
<1>6. FullName(fields[k]) = m[fields[k]]
  <2>1. Tree(form, made)
    BY <1>2 DEF Complete
  <2> QED
    BY <1>2, <1>4, <1>5, <2>1, NameIs
<1>7. m[fields[k]] \in DOMAIN fieldsByName
  BY <1>4, <1>5 DEF ListedFiled
<1>8. PICK n \in 1 .. Len(fields) :
          fieldsByName[m[fields[k]]] = fields[n] /\ m[fields[n]] = m[fields[k]]
  BY <1>4, <1>7 DEF ListedFiled
<1>9. fields[n] = fields[k]
  BY <1>3, <1>4, <1>5, <1>8 DEF Distinct
<1> QED
  BY <1>6, <1>7, <1>8, <1>9

LEMMA TakenWhenLoaded ==
    ASSUME IndInv
    PROVE  ControlsAreWidgets
<1>1. PICK g, m : phase = "loaded" =>
                     /\ Walked(form, made, <<>>, nextRoot, fields, fieldsByName, g, m)
                     /\ Complete(g) /\ Named(form, made, m)
  BY LoadedWalk
<1>2. ASSUME phase = "loaded", NEW i \in DOMAIN made
      PROVE  IF Dicts[DictAt(PlaceOf(i))].kids = NoKids
             THEN made[i].controls = <<DictAt(PlaceOf(i))>>
             ELSE Taken(made[i].controls, Dicts[DictAt(PlaceOf(i))].kids,
                        Len(Dicts[DictAt(PlaceOf(i))].kids))
  <2>1. FormOK(form) /\ Tree(form, made) /\ Placed(made, g) /\ ControlsTaken(form, made, <<>>)
    BY <1>1, <1>2 DEF Walked
  <2>2. i \in 1 .. Len(made)
    BY <2>1, LenProperties DEF Tree
  <2>3. DictAt(PlaceOf(i)) = made[i].dict
    BY <2>1, <2>2, PlaceIs, DictMade
  <2>4. ~Open(<<>>, i)
    BY EmptySeq DEF Open
  <2> DEFINE kids == Dicts[made[i].dict].kids
  <2>5. CASE kids = NoKids
    <3>1. made[i].controls = <<made[i].dict>>
      BY <2>1, <2>2, <2>5 DEF ControlsTaken, ControlsOf, Dicts
    <3> QED
      BY <2>3, <2>5, <3>1
  <2>6. CASE kids # NoKids
    <3>1. KidsIn(form, made[i].dict) = kids
      BY <2>6 DEF KidsIn, Dicts
    <3>2. TakenIn(form, made[i].controls, kids, Len(kids))
      BY <2>1, <2>2, <2>4, <2>6, <3>1 DEF ControlsTaken, ControlsOf, Dicts
    <3>3. \A n : WidgetsIn(form, kids, n) = WidgetsAmong(kids, n)
      BY DEF WidgetsIn, WidgetsAmong, IsField, IsFieldIn, Dicts
    <3> HIDE DEF kids
    <3>4. Taken(made[i].controls, kids, Len(kids))
      BY <3>2, <3>3, Zenon DEF Taken, TakenIn
    <3> QED
      BY <2>3, <2>6, <3>4 DEF kids
  <2> QED
    BY <2>5, <2>6
<1> QED
  BY <1>2, Zenon DEF ControlsAreWidgets

LEMMA TypesKept ==
    ASSUME IndInv
    PROVE  TypeOK
<1>1. PICK g, m : Walked(form, made, stack, nextRoot, fields, fieldsByName, g, m)
  BY DEF IndInv
<1>2. /\ Tree(form, made) /\ Placed(made, g) /\ Named(form, made, m) /\ Chain(form, made, stack, g)
      /\ nextRoot \in 1 .. Len(form.roots) + 1
      /\ ReturnedListed(made, stack, fields) /\ ListedFiled(fields, fieldsByName, m)
  BY <1>1 DEF Walked
<1>3. DOMAIN made = 1 .. Len(made) /\ Len(made) \in Nat
  BY <1>2, LenProperties DEF Tree
<1>4. stack \in Seq([field : DOMAIN made, next : Nat \ {0}])
  <2>1. stack \in Seq(Calls)
    BY <1>2 DEF Chain
  <2>2. \A n \in 1 .. Len(stack) : stack[n] \in Calls /\ stack[n].field \in DOMAIN made
    BY <1>2, <1>3, <2>1, ElementOfSeq DEF Chain
  <2> DEFINE S == [field : DOMAIN made, next : Nat \ {0}]
  <2>3. \A n \in 1 .. Len(stack) : stack[n] \in S
    BY <2>2 DEF Calls
  <2> HIDE DEF S
  <2>4. stack = [n \in 1 .. Len(stack) |-> stack[n]] /\ Len(stack) \in Nat
    BY <2>1, LenProperties
  <2>5. stack \in Seq(S)
    BY <2>3, <2>4, SeqDef
  <2> QED
    BY <2>5 DEF S
<1>5. Len(stack) <= MaxDepth
  <2>1. stack \in Seq(Calls)
    BY <1>2 DEF Chain
  <2>2. CASE stack = <<>>
    BY <2>2, EmptySeq, MaxDepthAssumption
  <2>3. CASE stack # <<>>
    BY <1>1, <2>3, TopCall
  <2> QED
    BY <2>2, <2>3
<1>6. \A i \in DOMAIN made :
          made[i] \in [dict : Dict, at : Nat, parent : 0 .. i - 1, controls : Seq(Dict)]
  <2>1. ASSUME NEW i \in DOMAIN made
        PROVE  made[i] \in [dict : Dict, at : Nat, parent : 0 .. i - 1, controls : Seq(Dict)]
    <3>1. made[i] \in Fields /\ made[i].parent \in 0 .. i - 1
      BY <1>2, <1>3, ElementOfSeq DEF Tree
    <3> QED
      BY <3>1 DEF Fields
  <2> QED
    BY <2>1
<1>7. fields \in Seq(DOMAIN made)
  <2>1. fields \in Seq(Nat) /\ \A k \in 1 .. Len(fields) : fields[k] \in DOMAIN made
    BY <1>2, <1>3 DEF ReturnedListed
  <2>2. fields = [k \in 1 .. Len(fields) |-> fields[k]] /\ Len(fields) \in Nat
    BY <2>1, LenProperties
  <2> QED
    BY <2>1, <2>2, SeqDef
<1>8. ASSUME NEW n \in DOMAIN fieldsByName
      PROVE  n \in Seq(Name) /\ fieldsByName[n] \in DOMAIN made
  <2>1. PICK k \in 1 .. Len(fields) : fieldsByName[n] = fields[k] /\ m[fields[k]] = n
    BY <1>2 DEF ListedFiled
  <2>2. fields[k] \in 1 .. Len(made) /\ fields[k] \in 0 .. Len(made)
    BY <1>2, <1>3 DEF ReturnedListed
  <2>3. m[fields[k]] \in Seq(Name)
    BY <1>2, <2>2 DEF Named
  <2> QED
    BY <1>3, <2>1, <2>2, <2>3
<1>9. phase \in {"loading", "loaded", "overflow"}
  BY DEF IndInv
<1> QED
  BY <1>2, <1>4, <1>5, <1>6, <1>7, <1>8, <1>9, Zenon DEF TypeOK

(* The state has its types in every state of the walk over the field tree  *)
(* (pdf_form.dart:645).                                                    *)
THEOREM TypeCorrect == Spec => []TypeOK
<1>1. IndInv => TypeOK
  BY TypesKept
<1> QED
  BY <1>1, Invariance, PTL

(* Exactly the places of roots and of leaves are listed, each once:        *)
(* "Only add root-level and leaf fields" (pdf_form.dart:680).              *)
THEOREM RootsAndLeavesAreListed == Spec => []RootsAndLeavesListed
<1>1. IndInv => RootsAndLeavesListed
  BY ListedWhenLoaded
<1> QED
  BY <1>1, Invariance, PTL

(* Fields whose siblings have other names are found by their full names:   *)
(* "Get field by full name" (pdf_form.dart:603), as filed on return (683). *)
THEOREM FullNamesFind == Spec => []NamesFind
<1>1. IndInv => NamesFind
  BY FoundWhenLoaded
<1> QED
  BY <1>1, Invariance, PTL

(* The controls of a field are the widgets among its kids, in their order  *)
(* (pdf_form.dart:667).                                                    *)
THEOREM WidgetsBecomeControls == Spec => []ControlsAreWidgets
<1>1. IndInv => ControlsAreWidgets
  BY TakenWhenLoaded
<1> QED
  BY <1>1, Invariance, PTL
=============================================================================
