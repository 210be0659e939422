---------------------------- MODULE MCXRefChain ----------------------------
(***************************************************************************)
(* Files with up to three sections at positions 1, 2 and 3 over two        *)
(* objects.  The entry for object n in the section at p has offset         *)
(* 10 p + n, so an entry tells which section it came from.                 *)
(***************************************************************************)
EXTENDS XRefChain

Sub(n, c) == [first |-> n, count |-> c]
At(p, n) == [type |-> 1, offset |-> 10 * p + n]
FreeAt(p, n) == [type |-> 0, offset |-> 10 * p + n]

(* Subsections and rows: none; object 1; object 2; both; object 2 freed;   *)
(* object 1 listed twice; the last row missing.                            *)
Listings(p) ==
    {[subs |-> <<>>, rows |-> <<>>],
     [subs |-> <<Sub(1, 1)>>, rows |-> <<At(p, 1)>>],
     [subs |-> <<Sub(1, 1), Sub(2, 1)>>, rows |-> <<At(p, 1), FreeAt(p, 2)>>],
     [subs |-> <<Sub(2, 1), Sub(1, 2)>>,
      rows |-> <<At(p, 2), At(p, 1), FreeAt(p, 2)>>]}
ShortListings(p) ==
    {[subs |-> <<Sub(2, 1), Sub(1, 2)>>, rows |-> <<At(p, 2), FreeAt(p, 1)>>]}

Sec(form, l, wide, length, has, prev, prevAt, encrypt) ==
    [form |-> form, subs |-> l.subs, rows |-> l.rows, wide |-> wide,
     length |-> length, hasTrailer |-> has, prev |-> prev,
     prevAt |-> prevAt, encrypt |-> encrypt]

NoListing == [subs |-> <<>>, rows |-> <<>>]

DirectSections(p) ==
    {Sec("table", l, TRUE, 0, TRUE, v, 0, 2) : l \in Listings(p), v \in 0..3}
    \cup {Sec("table", l, TRUE, 0, FALSE, 0, 0, 0) : l \in Listings(p)}
    \cup {Sec("stream", l, w, 0, TRUE, v, 0, 0) :
              l \in ShortListings(p), w \in BOOLEAN, v \in 0..3}
    \cup {Sec("other", NoListing, TRUE, 0, FALSE, 0, 0, 0)}

DirectFiles ==
    {[start |-> s, sections |-> <<a, b, c>>, numbers |-> [o \in {} |-> 0]] :
        s \in {0, 1}, a \in DirectSections(1), b \in DirectSections(2),
        c \in {x \in DirectSections(3) : x.prev \in {0, 1, 2}}}

(* Sections that refer to objects: the /Length of a stream, /Prev.         *)
IndirectSections(p) ==
    {Sec("stream", l, TRUE, n, TRUE, v, m, 0) :
        l \in Listings(p), n \in {0, 1}, v \in {0, 2}, m \in {0, 2}}
    \cup {Sec("other", NoListing, TRUE, 1, FALSE, 0, 0, 0)}

IndirectFiles ==
    {[start |-> 1, sections |-> <<a, b>>, numbers |-> [o \in {12, 22} |-> 2]] :
        a \in IndirectSections(1), b \in IndirectSections(2)}

Updates(p) == {Sec("table", l, TRUE, 0, TRUE, v, 0, 0) :
                  l \in Listings(p), v \in {0, 2}}
AllFiles == DirectFiles \cup IndirectFiles

UpdatedFiles ==
    {[start |-> 1, sections |-> <<a, b>>, numbers |-> [o \in {} |-> 0]] :
        a \in Updates(1), b \in Updates(2)}
=============================================================================
