----------------------------- MODULE XRefChain -----------------------------
(***************************************************************************)
(* PdfParser.parse after the header: the chain of cross-reference sections *)
(* is walked from the newest (startxref) back through /Prev and merged     *)
(* into one table (pdf_parser.dart:101-162, pdf_cross_ref_table.dart).     *)
(*                                                                         *)
(* The walk is not independent of the objects it describes: the /Prev of a *)
(* trailer, the /Length of a cross-reference stream and /Encrypt may be    *)
(* references, and resolving one asks the parser for an object while the   *)
(* table is still incomplete.  What those lookups find stays in            *)
(* _objectCache.                                                           *)
(*                                                                         *)
(* A file is a set of sections by position; what a section lists is a      *)
(* sequence of subsections and the rows that follow.  A number object is   *)
(* the number that stands at an offset.                                    *)
(***************************************************************************)
EXTENDS Naturals, Sequences, FiniteSetsExt

CONSTANTS
    ObjNum,  \* object numbers
    Pos,     \* positions at which sections can stand; 0 is none
    Files    \* the files that may be opened

(* XRefEntry; type 0 is free, 1 in use, 2 compressed.                      *)
XRefEntry == [type : Nat, offset : Nat]
Junk == [type |-> 1, offset |-> 0]

(* form: a classic table, a cross-reference stream, or something else that *)
(* starts like an indirect object.  wide: the /W of the type field is not  *)
(* 0.  length, prevAt, encrypt: the object holding /Length, /Prev, /Encrypt*)
(* or 0; prev: a direct /Prev, 0 if there is none.                         *)
Section ==
    [form : {"table", "stream", "other"},
     subs : Seq([first : ObjNum, count : Nat]), rows : Seq(XRefEntry),
     wide : BOOLEAN, length : ObjNum \cup {0},
     hasTrailer : BOOLEAN, prev : Nat, prevAt : ObjNum \cup {0},
     encrypt : ObjNum \cup {0}]

ASSUME FilesAssumption ==
    /\ ObjNum \subseteq Nat \ {0}
    /\ Pos \subseteq Nat \ {0}
    /\ \A f \in Files :
         /\ DOMAIN f.sections \subseteq Pos
         /\ \A p \in DOMAIN f.sections : f.sections[p] \in Section
         /\ DOMAIN f.numbers \subseteq Nat
         /\ \A o \in DOMAIN f.numbers : f.numbers[o] \in Nat

VARIABLES
    file,     \* the file; startxref is file.start (0: none was found)
    phase,    \* where _parseXRef stands
    xrefPos,  \* the position of the section to read, or being followed
    visited,  \* visitedXrefs
    entries,  \* _crossRefTable._entries
    trailer,  \* the position whose trailer _crossRefTable.trailer is, or 0
    cache,    \* _objectCache: the entry an object was loaded through, or Null
    merged    \* history: the sections merged so far, in order

vars == <<file, phase, xrefPos, visited, entries, trailer, cache, merged>>

Null == [type |-> 0, offset |-> 0]
Nothing == [n \in {} |-> Null]

-----------------------------------------------------------------------------
(* What a section lists.  Row r belongs to the subsection in which the     *)
(* counts so far reach it; rows that are missing are not listed.  (A       *)
(* classic table that is cut short ends the same way, at the trailer.)     *)
RowsBefore(sec, k) ==
    MapThenSumSet(LAMBDA i : sec.subs[i].count, 1..(k - 1))
Slots(sec) ==
    {s \in (1..Len(sec.subs)) \X (1..Len(sec.rows)) :
        /\ s[2] <= sec.subs[s[1]].count
        /\ RowsBefore(sec, s[1]) + s[2] <= Len(sec.rows)}
Number(sec, s) == sec.subs[s[1]].first + s[2] - 1
Row(sec, s) == sec.rows[RowsBefore(sec, s[1]) + s[2]]

Listed(sec) ==
    [n \in {Number(sec, s) : s \in Slots(sec)} |->
        LET s == CHOOSE s \in Slots(sec) :
                    /\ Number(sec, s) = n
                    /\ \A t \in Slots(sec) : Number(sec, t) = n => t[1] <= s[1]
        IN  IF sec.wide THEN Row(sec, s) ELSE [Row(sec, s) EXCEPT !.type = 1]]

(* Bytes read from the wrong place: the same numbers, entries that mean    *)
(* nothing.                                                                *)
Misread(sec) == [n \in DOMAIN Listed(sec) |-> Junk]

-----------------------------------------------------------------------------
(* getIndirectObject(n) while the table is what it is now.                 *)

InUse(n) == n \in DOMAIN entries /\ entries[n].type # 0

LookedUp(n) ==
    IF n = 0 \/ n \in DOMAIN cache THEN cache
    ELSE [m \in DOMAIN cache \cup {n} |->
             IF m # n THEN cache[m] ELSE IF InUse(n) THEN entries[n] ELSE Null]

(* The number found that way; an object that is not there counts as 0.     *)
NumberIn(n) ==
    LET e == LookedUp(n)[n]
    IN  IF e = Null \/ e.offset \notin DOMAIN file.numbers THEN 0
        ELSE file.numbers[e.offset]

(* The lookup reads from the file, which moves the shared cursor.          *)
Loads(n) == n # 0 /\ n \notin DOMAIN cache /\ InUse(n)

-----------------------------------------------------------------------------
Init ==
    /\ file \in Files
    /\ phase = "start"
    /\ xrefPos = 0
    /\ visited = {}
    /\ entries = Nothing
    /\ trailer = 0
    /\ cache = Nothing
    /\ merged = <<>>

NoStartXRef ==
    /\ phase = "start"
    /\ file.start = 0
    /\ phase' = "failed"
    /\ UNCHANGED <<file, xrefPos, visited, entries, trailer, cache, merged>>

FindStartXRef ==
    /\ phase = "start"
    /\ file.start # 0
    /\ xrefPos' = file.start
    /\ phase' = "section"
    /\ UNCHANGED <<file, visited, entries, trailer, cache, merged>>

ToRead == phase = "section" /\ xrefPos > 0 /\ xrefPos \notin visited

(* Mutant: a section met again is skipped with continue, not break.        *)
EndOfChainZero ==
    /\ phase = "section"
    /\ xrefPos = 0
    /\ phase' = "trailer"
    /\ UNCHANGED <<file, xrefPos, visited, entries, trailer, cache, merged>>

EndOfChain ==
    /\ phase = "section"
    /\ ~ToRead
    /\ phase' = "trailer"
    /\ UNCHANGED <<file, xrefPos, visited, entries, trailer, cache, merged>>

Here == file.sections[xrefPos]
SectionIs(form) ==
    ToRead /\ xrefPos \in DOMAIN file.sections /\ Here.form = form

(* XRefParser.parse returns null: the walk ends.  If there is a stream at  *)
(* the position its /Length has been resolved all the same.                *)
ReadNothing ==
    /\ ToRead
    /\ visited' = visited \cup {xrefPos}
    /\ \/ /\ xrefPos \notin DOMAIN file.sections
          /\ UNCHANGED cache
       \/ /\ SectionIs("other")
          /\ cache' = LookedUp(Here.length)
    /\ phase' = "trailer"
    /\ UNCHANGED <<file, xrefPos, entries, trailer, merged>>

(* Mutant: a number the table holds already keeps its entry.               *)
MergeKeeping(t) ==
    entries' = [n \in DOMAIN entries \cup DOMAIN t |->
                   IF n \in DOMAIN entries THEN entries[n] ELSE t[n]]

(* PdfCrossRefTable.merge.                                                 *)
Merge(t) ==
    entries' = [n \in DOMAIN entries \cup DOMAIN t |->
                   IF n \in DOMAIN t THEN t[n] ELSE entries[n]]
TakeTrailer(sec) ==
    trailer' = IF sec.hasTrailer THEN xrefPos ELSE trailer

(* Mutant: /Encrypt is loaded with the first trailer.                      *)
ReadTableEncrypted ==
    /\ SectionIs("table")
    /\ visited' = visited \cup {xrefPos}
    /\ Merge(Listed(Here))
    /\ TakeTrailer(Here)
    /\ merged' = Append(merged, xrefPos)
    /\ phase' = "prev"
    /\ cache' = LookedUp(Here.encrypt)
    /\ UNCHANGED <<file, xrefPos>>

ReadTable ==
    /\ SectionIs("table")
    /\ visited' = visited \cup {xrefPos}
    /\ Merge(Listed(Here))
    /\ TakeTrailer(Here)
    /\ merged' = Append(merged, xrefPos)
    /\ phase' = "prev"
    /\ UNCHANGED <<file, xrefPos, cache>>

(* readIndirectObject resolves /Length before it reads the rows; if that   *)
(* loads an object the rows are read from behind that object.              *)
ReadStream ==
    /\ SectionIs("stream")
    /\ visited' = visited \cup {xrefPos}
    /\ cache' = LookedUp(Here.length)
    /\ Merge(IF Loads(Here.length) THEN Misread(Here) ELSE Listed(Here))
    /\ TakeTrailer(Here)
    /\ merged' = Append(merged, xrefPos)
    /\ phase' = "prev"
    /\ UNCHANGED <<file, xrefPos>>

(* table.trailer?.getInt('Prev') ?? 0                                      *)
FollowPrev ==
    /\ phase = "prev"
    /\ IF Here.hasTrailer /\ Here.prevAt # 0
       THEN xrefPos' = NumberIn(Here.prevAt) /\ cache' = LookedUp(Here.prevAt)
       ELSE xrefPos' = (IF Here.hasTrailer THEN Here.prev ELSE 0) /\ UNCHANGED cache
    /\ phase' = "section"
    /\ UNCHANGED <<file, visited, entries, trailer, merged>>

(* _loadTrailerInfo resolves /Encrypt.                                     *)
LoadTrailerInfo ==
    /\ phase = "trailer"
    /\ cache' = IF trailer = 0 THEN cache
                ELSE LookedUp(file.sections[trailer].encrypt)
    /\ phase' = "done"
    /\ UNCHANGED <<file, xrefPos, visited, entries, trailer, merged>>

ParseXRef ==
    \/ NoStartXRef
    \/ FindStartXRef
    \/ EndOfChain
    \/ ReadNothing
    \/ ReadTable
    \/ ReadStream
    \/ FollowPrev
    \/ LoadTrailerInfo

(* Later requests of the document's owner, for objects that need no other. *)
GetIndirectObject(n) ==
    /\ phase = "done"
    /\ cache' = LookedUp(n)
    /\ UNCHANGED <<file, phase, xrefPos, visited, entries, trailer, merged>>

Next ==
    \/ ParseXRef
    \/ \E n \in ObjNum : GetIndirectObject(n)

Spec == Init /\ [][Next]_vars /\ WF_vars(ParseXRef)

-----------------------------------------------------------------------------
(* Properties.                                                             *)

TypeOK ==
    /\ phase \in {"start", "section", "prev", "trailer", "done", "failed"}
    /\ xrefPos \in Nat
    /\ visited \subseteq Nat
    /\ DOMAIN entries \subseteq Nat
    /\ \A n \in DOMAIN entries : entries[n] \in XRefEntry
    /\ trailer \in Pos \cup {0}
    /\ DOMAIN cache \subseteq ObjNum
    /\ \A n \in DOMAIN cache : cache[n] \in XRefEntry
    /\ merged \in Seq(Pos)

(* Files whose table is put together without looking anything up.          *)
DirectFile(f) ==
    \A p \in DOMAIN f.sections :
        f.sections[p].length = 0 /\ f.sections[p].prevAt = 0

(* The walk as it should be: from startxref along /Prev, each readable     *)
(* section once, as far as that leads.                                     *)
Readable(p) == p \in DOMAIN file.sections /\ file.sections[p].form # "other"
PrevOf(p) == IF file.sections[p].hasTrailer THEN file.sections[p].prev ELSE 0
After(w, i) == IF i = 0 THEN file.start ELSE PrevOf(w[i])
Follows(w) ==
    /\ \A i \in 1..Len(w) : w[i] = After(w, i - 1) /\ Readable(w[i])
    /\ \A i, j \in 1..Len(w) : w[i] = w[j] => i = j
IsOver(w) ==
    \/ ~Readable(After(w, Len(w)))
    \/ \E i \in 1..Len(w) : w[i] = After(w, Len(w))

Lists(p, n) == n \in DOMAIN Listed(file.sections[p])
EntryIn(p, n) == Listed(file.sections[p])[n]
HasTrailer(p) == file.sections[p].hasTrailer

(* The table holds each number any section listed; for a number listed     *)
(* more than once the last section merged decides ...                      *)
EntriesOf(w) ==
    /\ DOMAIN entries = UNION {DOMAIN Listed(file.sections[w[i]]) : i \in 1..Len(w)}
    /\ \A i \in 1..Len(w) : \A n \in DOMAIN Listed(file.sections[w[i]]) :
          (\A j \in (i + 1)..Len(w) : ~Lists(w[j], n)) => entries[n] = EntryIn(w[i], n)

(* ... and the last trailer stays.                                         *)
TrailerOf(w) ==
    /\ \A i \in 1..Len(w) :
          HasTrailer(w[i]) /\ (\A j \in (i + 1)..Len(w) : ~HasTrailer(w[j]))
             => trailer = w[i]
    /\ (\A i \in 1..Len(w) : ~HasTrailer(w[i])) => trailer = 0

(* Every section that /Prev leads to is merged, once and in that order,    *)
(* also when /Prev leads back or to something unreadable, and the table is *)
(* what these sections make of it.                                         *)
TableIsTheWalk ==
    DirectFile(file) /\ phase \in {"trailer", "done"} =>
        Follows(merged) /\ IsOver(merged) /\ EntriesOf(merged) /\ TrailerOf(merged)

(* parse returns, whatever /Prev says.                                     *)
ParseReturns == <>(phase \in {"done", "failed"})

(* A document's objects are found through the whole table: whatever was    *)
(* looked up, and whenever, is what the finished table says ...            *)
Current ==
    \A n \in DOMAIN cache : cache[n] = IF InUse(n) THEN entries[n] ELSE Null

(* ... when no lookup is needed while the table is being put together,     *)
LookupsSeeWholeTable == DirectFile(file) /\ phase = "done" => Current

(* ... and, as "Get an indirect object by its object number"               *)
(* (pdf_object.dart:90) says without exception, in every file.             *)
LookupsAlwaysSeeWholeTable == phase = "done" => Current

(* "Merge another cross-reference table (for incremental updates)"         *)
(* (pdf_cross_ref_table.dart:79): an update replaces what it lists.        *)
NewestEntryWins ==
    phase = "done" =>
        \A i \in 1..Len(merged) : \A n \in DOMAIN Listed(file.sections[merged[i]]) :
            (\A j \in 1..(i - 1) : ~Lists(merged[j], n))
               => entries[n] = EntryIn(merged[i], n)

(* "Keep the most recent trailer" (pdf_cross_ref_table.dart:84): the one   *)
(* of the section startxref names.                                         *)
NewestTrailerWins ==
    phase = "done" /\ merged # <<>> /\ file.sections[merged[1]].hasTrailer
        => trailer = merged[1]
=============================================================================
