-------------------------- MODULE XRefChainProofs --------------------------
(***************************************************************************)
(* Proofs about XRefChain.                                                 *)
(*                                                                         *)
(* LookupsSeeWholeTable is not inductive: nothing in it says that the      *)
(* cache is empty while the table still grows.  CacheFollowsTable adds     *)
(* that: it holds as long as no section sends the parser to an object, and *)
(* from then on the table does not change any more.                        *)
(*                                                                         *)
(* TableIsTheWalk speaks of the end of the walk.  WalkInv says of every    *)
(* state what the walk has done so far: the sections merged are the chain  *)
(* from startxref to where the parser stands, and exactly they are marked  *)
(* visited, so that the walk can only stop where the chain does.           *)
(***************************************************************************)
EXTENDS XRefChain, SequenceTheorems, TLAPS

CacheFollowsTable ==
    /\ phase = "prev" => xrefPos \in DOMAIN file.sections
    /\ trailer = 0 \/ trailer \in DOMAIN file.sections
    /\ phase # "done" => cache = Nothing
    /\ phase = "done" => Current

(* A lookup that changes the cache answers from the table as it stands.    *)
LEMMA LookupAnswers ==
    ASSUME NEW n,
           \A m \in DOMAIN cache : cache[m] = IF InUse(m) THEN entries[m] ELSE Null
    PROVE  \A m \in DOMAIN LookedUp(n) :
              LookedUp(n)[m] = IF InUse(m) THEN entries[m] ELSE Null
BY DEF LookedUp

(* No section of a direct file sends the parser to an object.              *)
LEMMA NoLookup ==
    ASSUME DirectFile(file), NEW p \in DOMAIN file.sections
    PROVE  /\ LookedUp(file.sections[p].length) = cache
           /\ file.sections[p].prevAt = 0
BY DEF DirectFile, LookedUp

LEMMA CacheStep ==
    ASSUME DirectFile(file), CacheFollowsTable, [Next]_vars
    PROVE  CacheFollowsTable'
<1>1. CASE NoStartXRef
  BY <1>1 DEF NoStartXRef, CacheFollowsTable, Current
<1>2. CASE FindStartXRef
  BY <1>2 DEF FindStartXRef, CacheFollowsTable, Current
<1>3. CASE EndOfChain
  BY <1>3 DEF EndOfChain, CacheFollowsTable, Current
<1>4. CASE ReadNothing
  <2>1. cache' = cache
    BY <1>4, NoLookup DEF ReadNothing, CacheFollowsTable, SectionIs, Here
  <2> QED
    BY <1>4, <2>1 DEF ReadNothing, ToRead, CacheFollowsTable, Current
<1>5. CASE ReadTable
  BY <1>5 DEF ReadTable, TakeTrailer, SectionIs, ToRead, CacheFollowsTable,
              Current
<1>6. CASE ReadStream
  <2>1. cache' = cache
    BY <1>6, NoLookup DEF ReadStream, CacheFollowsTable, SectionIs, Here
  <2> QED
    BY <1>6, <2>1 DEF ReadStream, TakeTrailer, SectionIs, ToRead,
                      CacheFollowsTable, Current
<1>7. CASE FollowPrev
  <2>1. cache' = cache
    BY <1>7, NoLookup DEF FollowPrev, CacheFollowsTable, Here
  <2> QED
    BY <1>7, <2>1 DEF FollowPrev, CacheFollowsTable, Current
<1>8. CASE LoadTrailerInfo
  <2>1. \A m \in DOMAIN cache' :
           cache'[m] = IF InUse(m) THEN entries[m] ELSE Null
    BY <1>8, LookupAnswers DEF LoadTrailerInfo, CacheFollowsTable, Nothing
  <2> QED
    BY <1>8, <2>1 DEF LoadTrailerInfo, CacheFollowsTable, Current, InUse
<1>9. ASSUME NEW n \in ObjNum, GetIndirectObject(n)
      PROVE  CacheFollowsTable'
  <2>1. \A m \in DOMAIN cache' :
           cache'[m] = IF InUse(m) THEN entries[m] ELSE Null
    BY <1>9, LookupAnswers
    DEF GetIndirectObject, CacheFollowsTable, Current
  <2> QED
    BY <1>9, <2>1
    DEF GetIndirectObject, CacheFollowsTable, Current, InUse
<1>10. CASE UNCHANGED vars
  BY <1>10 DEF vars, CacheFollowsTable, Current, InUse
<1> QED
  BY <1>1, <1>2, <1>3, <1>4, <1>5, <1>6, <1>7, <1>8, <1>9, <1>10
  DEF Next, ParseXRef

LEMMA FileStays ==
    ASSUME [Next]_vars
    PROVE  file' = file
  BY DEF Next, ParseXRef, vars, NoStartXRef, FindStartXRef, EndOfChain,
         ReadNothing, ReadTable, ReadStream, FollowPrev, LoadTrailerInfo,
         GetIndirectObject

(* In every document whose cross-reference sections keep their /Length and *)
(* /Prev to themselves, each object is found through the finished table,   *)
(* whatever is asked for and in whatever order (pdf_parser.dart:101-206).  *)
THEOREM LookupsUseFinishedTable == Spec => []LookupsSeeWholeTable
<1> DEFINE Inv == DirectFile(file) => CacheFollowsTable
<1>1. Init => Inv
  BY DEF Init, CacheFollowsTable, Current
<1>2. Inv /\ [Next]_vars => Inv'
  <2> SUFFICES ASSUME Inv, [Next]_vars, DirectFile(file')
               PROVE  CacheFollowsTable'
    OBVIOUS
  <2>1. file' = file
    BY FileStays
  <2>2. DirectFile(file) /\ CacheFollowsTable
    BY <2>1
  <2> QED
    BY <2>2, CacheStep
<1>3. Inv => LookupsSeeWholeTable
  BY DEF CacheFollowsTable, LookupsSeeWholeTable
<1> QED
  BY <1>1, <1>2, <1>3, PTL DEF Spec

-----------------------------------------------------------------------------
(* The walk.                                                               *)

WalkInv ==
    /\ merged \in Seq(DOMAIN file.sections)
    /\ Follows(merged) /\ EntriesOf(merged) /\ TrailerOf(merged)
    /\ phase = "start" => merged = <<>> /\ visited = {}
    /\ phase \in {"section", "prev"} => visited = {merged[i] : i \in 1..Len(merged)}
    /\ phase = "section" => xrefPos = After(merged, Len(merged))
    /\ phase = "prev" => merged # <<>> /\ xrefPos = merged[Len(merged)]
    /\ phase \in {"trailer", "done"} => IsOver(merged)

LEMMA AppendedSection ==
    ASSUME NEW S, NEW w \in Seq(S), NEW p \in S
    PROVE  /\ Len(w) \in Nat
           /\ Append(w, p) \in Seq(S)
           /\ Append(w, p) # <<>>
           /\ Len(Append(w, p)) = Len(w) + 1
           /\ \A i \in 1..Len(w) : Append(w, p)[i] = w[i]
           /\ Append(w, p)[Len(w) + 1] = p
  BY AppendProperties, LenProperties

(* Merging the section the chain leads to is one step of the walk.         *)
LEMMA MergeStep ==
    ASSUME WalkInv, phase = "section", xrefPos \notin visited, Readable(xrefPos),
           visited' = visited \cup {xrefPos},
           Merge(Listed(Here)), TakeTrailer(Here),
           merged' = Append(merged, xrefPos), phase' = "prev",
           UNCHANGED <<file, xrefPos>>
    PROVE  WalkInv'
<1> DEFINE N == Len(merged)
           p == xrefPos
<1>1. /\ N \in Nat
      /\ merged' \in Seq(DOMAIN file.sections) /\ merged' # <<>>
      /\ Len(merged') = N + 1
      /\ \A i \in 1..N : merged'[i] = merged[i]
      /\ merged'[N + 1] = p
  BY AppendedSection DEF WalkInv, Readable
<1>2. /\ p = After(merged, N)
      /\ \A i \in 1..N : merged[i] # p
  BY DEF WalkInv
<1>3. Follows(merged)'
  <2>1. \A i \in 1..N : merged[i] = After(merged, i - 1) /\ Readable(merged[i])
    BY DEF WalkInv, Follows
  <2>2. \A i \in 1..N : After(merged', i - 1) = After(merged, i - 1)
    BY <1>1 DEF After
  <2>3. After(merged', N) = After(merged, N)
    BY <1>1 DEF After
  <2>4. \A i \in 1..(N + 1) : merged'[i] = After(merged', i - 1) /\ Readable(merged'[i])
    BY <1>1, <1>2, <2>1, <2>2, <2>3
  <2>5. \A i, j \in 1..(N + 1) : merged'[i] = merged'[j] => i = j
    BY <1>1, <1>2 DEF WalkInv, Follows
  <2> QED
    BY <1>1, <2>4, <2>5 DEF Follows, After, PrevOf, Readable
<1>4. EntriesOf(merged)'
  <2> DEFINE t == Listed(file.sections[p])
  <2>1. /\ DOMAIN entries' = DOMAIN entries \cup DOMAIN t
        /\ \A n \in DOMAIN entries' :
              entries'[n] = IF n \in DOMAIN t THEN t[n] ELSE entries[n]
    BY DEF Merge, Here
  <2>2. /\ DOMAIN entries =
              UNION {DOMAIN Listed(file.sections[merged[i]]) : i \in 1..N}
        /\ \A i \in 1..N : \A n \in DOMAIN Listed(file.sections[merged[i]]) :
              (\A j \in (i + 1)..N : ~Lists(merged[j], n))
                 => entries[n] = EntryIn(merged[i], n)
    BY DEF WalkInv, EntriesOf
  <2>3. DOMAIN entries' =
          UNION {DOMAIN Listed(file.sections[merged'[i]]) : i \in 1..(N + 1)}
    <3>1. \A n : n \in DOMAIN entries <=>
                 \E i \in 1..N : n \in DOMAIN Listed(file.sections[merged[i]])
      BY <2>2
    <3>2. \A n : n \in DOMAIN entries' <=>
                 \E i \in 1..(N + 1) : n \in DOMAIN Listed(file.sections[merged'[i]])
      BY <1>1, <2>1, <3>1
    <3> QED
      BY <3>2
  <2>4. ASSUME NEW i \in 1..(N + 1), NEW n \in DOMAIN Listed(file.sections[merged'[i]]),
               \A j \in (i + 1)..(N + 1) : ~Lists(merged'[j], n)
        PROVE  entries'[n] = EntryIn(merged'[i], n)
    <3>1. n \in DOMAIN entries'
      BY <2>3
    <3>2. CASE i = N + 1
      BY <1>1, <2>1, <3>1, <3>2 DEF EntryIn
    <3>3. CASE i # N + 1
      <4>1. i \in 1..N /\ N + 1 \in (i + 1)..(N + 1)
        BY <1>1, <3>3
      <4>2. n \notin DOMAIN t
        BY <1>1, <2>4, <4>1 DEF Lists
      <4>3. \A j \in (i + 1)..N : ~Lists(merged[j], n)
        BY <1>1, <2>4, <4>1
      <4>4. entries[n] = EntryIn(merged[i], n)
        BY <1>1, <2>2, <2>4, <4>1, <4>3
      <4> QED
        BY <1>1, <2>1, <3>1, <4>1, <4>2, <4>4
    <3> QED
      BY <3>2, <3>3
  <2>5. Len(merged') = N + 1
    BY <1>1
  <2> QED
    BY <2>3, <2>4, <2>5, SMTT(20) DEF EntriesOf, Lists, EntryIn
<1>5. TrailerOf(merged)'
  <2>1. trailer' = IF HasTrailer(p) THEN p ELSE trailer
    BY DEF TakeTrailer, Here, HasTrailer
  <2>2. /\ \A i \in 1..N :
              HasTrailer(merged[i]) /\ (\A j \in (i + 1)..N : ~HasTrailer(merged[j]))
                 => trailer = merged[i]
        /\ (\A i \in 1..N : ~HasTrailer(merged[i])) => trailer = 0
    BY DEF WalkInv, TrailerOf
  <2>3. ASSUME NEW i \in 1..(N + 1), HasTrailer(merged'[i]),
               \A j \in (i + 1)..(N + 1) : ~HasTrailer(merged'[j])
        PROVE  trailer' = merged'[i]
    <3>1. CASE i = N + 1
      BY <1>1, <2>1, <2>3, <3>1
    <3>2. CASE i # N + 1
      <4>1. i \in 1..N /\ N + 1 \in (i + 1)..(N + 1)
        BY <1>1, <3>2
      <4>2. ~HasTrailer(p)
        BY <1>1, <2>3, <4>1
      <4>3. \A j \in (i + 1)..N : ~HasTrailer(merged[j])
        BY <1>1, <2>3, <4>1
      <4> QED
        BY <1>1, <2>1, <2>2, <2>3, <4>1, <4>2, <4>3
    <3> QED
      BY <3>1, <3>2
  <2>4. (\A i \in 1..(N + 1) : ~HasTrailer(merged'[i])) => trailer' = 0
    BY <1>1, <2>1, <2>2
  <2> QED
    BY <1>1, <2>3, <2>4 DEF TrailerOf, HasTrailer
<1>6. visited' = {merged'[i] : i \in 1..Len(merged')}
  <2>1. visited = {merged[i] : i \in 1..N}
    BY DEF WalkInv
  <2>2. \A q : q \in {merged'[i] : i \in 1..(N + 1)} <=>
                (q \in {merged[i] : i \in 1..N} \/ q = p)
    BY <1>1
  <2> QED
    BY <1>1, <2>1, <2>2
<1> QED
  BY <1>1, <1>3, <1>4, <1>5, <1>6 DEF WalkInv

(* What a step that merges nothing leaves as it was.                       *)
LEMMA SameWalk ==
    ASSUME WalkInv, UNCHANGED <<file, entries, trailer, merged>>
    PROVE  /\ merged' \in Seq(DOMAIN file'.sections)
           /\ Follows(merged)' /\ EntriesOf(merged)' /\ TrailerOf(merged)'
           /\ IsOver(merged) => IsOver(merged)'
           /\ After(merged, Len(merged))' = After(merged, Len(merged))
<1>1. Follows(merged)' <=> Follows(merged)
  BY DEF Follows, After, PrevOf, Readable
<1>2. EntriesOf(merged)' <=> EntriesOf(merged)
  BY DEF EntriesOf, Lists, EntryIn
<1>3. TrailerOf(merged)' <=> TrailerOf(merged)
  BY DEF TrailerOf, HasTrailer
<1>4. IsOver(merged)' <=> IsOver(merged)
  BY DEF IsOver, After, PrevOf, Readable
<1>5. After(merged, Len(merged))' = After(merged, Len(merged))
  BY DEF After, PrevOf
<1> QED
  BY <1>1, <1>2, <1>3, <1>4, <1>5 DEF WalkInv

(* A walk that has stopped has come to its end.                            *)
LEMMA StopStep ==
    ASSUME WalkInv, phase = "section",
           ~Readable(xrefPos) \/ xrefPos \in visited,
           phase' = "trailer",
           UNCHANGED <<file, entries, trailer, merged>>
    PROVE  WalkInv'
<1>1. IsOver(merged)
  BY DEF WalkInv, IsOver
<1> QED
  BY <1>1, SameWalk DEF WalkInv

LEMMA WalkStep ==
    ASSUME DirectFile(file), file \in Files, WalkInv, [Next]_vars
    PROVE  WalkInv'
<1> USE DEF Readable
<1>1. CASE NoStartXRef
  BY <1>1, SameWalk DEF NoStartXRef, WalkInv
<1>2. CASE FindStartXRef
  <2>1. xrefPos' = After(merged, Len(merged))
    BY <1>2, EmptySeq DEF FindStartXRef, WalkInv, After
  <2> QED
    BY <1>2, <2>1, SameWalk, EmptySeq DEF FindStartXRef, WalkInv
<1>3. CASE EndOfChain
  <2>0. DOMAIN file.sections \subseteq Pos /\ \A q \in Pos : q \in Nat /\ q > 0
    BY FilesAssumption
  <2>1. Readable(xrefPos) => xrefPos > 0
    BY <2>0
  <2>2. ~Readable(xrefPos) \/ xrefPos \in visited
    BY <1>3, <2>1 DEF EndOfChain, ToRead
  <2> QED
    BY <1>3, <2>2, StopStep DEF EndOfChain
<1>4. CASE ReadNothing
  <2>1. ~Readable(xrefPos)
    BY <1>4 DEF ReadNothing, SectionIs, Here
  <2> QED
    BY <1>4, <2>1, StopStep DEF ReadNothing, ToRead
<1>5. CASE ReadTable
  <2>1. Readable(xrefPos)
    BY <1>5 DEF ReadTable, SectionIs, Here
  <2> QED
    BY <1>5, <2>1, MergeStep DEF ReadTable, SectionIs, ToRead
<1>6. CASE ReadStream
  <2>1. Readable(xrefPos) /\ ~Loads(Here.length)
    BY <1>6 DEF ReadStream, SectionIs, Here, Loads, DirectFile
  <2> QED
    BY <1>6, <2>1, MergeStep DEF ReadStream, SectionIs, ToRead
<1>7. CASE FollowPrev
  <2>1. /\ merged # <<>> /\ Len(merged) \in Nat \ {0}
        /\ xrefPos = merged[Len(merged)]
        /\ xrefPos \in DOMAIN file.sections
    BY <1>7, EmptySeq, LenProperties, ElementOfSeq DEF FollowPrev, WalkInv
  <2>2. xrefPos' = After(merged, Len(merged))
    BY <1>7, <2>1, NoLookup DEF FollowPrev, Here, After, PrevOf
  <2> QED
    BY <1>7, <2>2, SameWalk DEF FollowPrev, WalkInv
<1>8. CASE LoadTrailerInfo
  BY <1>8, SameWalk DEF LoadTrailerInfo, WalkInv
<1>9. ASSUME NEW n \in ObjNum, GetIndirectObject(n)
      PROVE  WalkInv'
  BY <1>9, SameWalk DEF GetIndirectObject, WalkInv
<1>10. CASE UNCHANGED vars
  BY <1>10, SameWalk DEF vars, WalkInv
<1> QED
  BY <1>1, <1>2, <1>3, <1>4, <1>5, <1>6, <1>7, <1>8, <1>9, <1>10
  DEF Next, ParseXRef

(* Whatever the chain of cross-reference sections looks like, circles,     *)
(* missing trailers and unreadable sections included: when parse has read  *)
(* the table, it has merged exactly the sections the chain leads to, each  *)
(* once and in that order, and the table and the trailer are what they     *)
(* make of them (pdf_parser.dart:101-162, pdf_cross_ref_table.dart:79-89). *)
THEOREM TableHoldsTheWalk == Spec => []TableIsTheWalk
<1> DEFINE Inv == file \in Files /\ (DirectFile(file) => WalkInv)
<1>1. Init => Inv
  BY EmptySeq DEF Init, WalkInv, Nothing, Follows, EntriesOf, TrailerOf
<1>2. Inv /\ [Next]_vars => Inv'
  <2> SUFFICES ASSUME Inv, [Next]_vars
               PROVE  file' \in Files /\ (DirectFile(file)' => WalkInv')
    OBVIOUS
  <2>1. file' = file
    BY FileStays
  <2>2. DirectFile(file)' => DirectFile(file)
    BY <2>1
  <2> QED
    BY <2>1, <2>2, WalkStep
<1>3. Inv => TableIsTheWalk
  BY DEF WalkInv, TableIsTheWalk
<1> QED
  BY <1>1, <1>2, <1>3, PTL DEF Spec
=============================================================================
