----------------------------- MODULE PdfParser -----------------------------
(***************************************************************************)
(* PdfParser as an IndirectObjectHolder                                    *)
(* (lib/src/pdfium/fpdfapi/parser/pdf_parser.dart): objects are read from  *)
(* the file on demand, through ONE syntax parser whose cursor every load   *)
(* moves, and are kept in _objectCache for good.                           *)
(*                                                                         *)
(* A load may need another one before it can finish: the object stream an  *)
(* object is compressed in, or the object that holds the /Length of a      *)
(* stream (readStream resolves it when the cursor already stands at the    *)
(* stream's first byte).  The Dart call stack of those nested              *)
(* getIndirectObjectFor calls is the variable stack; every step below is   *)
(* what happens between two of those calls.                                *)
(*                                                                         *)
(* A file is abstracted to what the lookups tell apart: the merged         *)
(* cross-reference entries, and the item the reader finds at an offset.    *)
(* Bytes are places: the data of a stream is the place the cursor was at   *)
(* when readBytes ran.  How many bytes are read is not modelled, only      *)
(* where they begin.                                                       *)
(***************************************************************************)
EXTENDS Naturals, Sequences

CONSTANTS
    MaxObjNum,     \* bound on object numbers (addIndirectObject stops there)
    Files,         \* the files the parser may have opened
    Edit,          \* objects a caller may pass to add/replaceIndirectObject
    Replaceable,   \* numbers callers replace
    Deletable,     \* numbers callers delete
    ReplaceClosed, \* TRUE if callers also replace objects after close()
    MaxDepth       \* bound on nested loads (the Dart stack)

ObjNum == 0..MaxObjNum

(* XRefEntry: type 0 free, 1 in use, 2 compressed.  For type 2, gen is the *)
(* number of the object stream and offset the index in it.                 *)
XRefEntry == [type : 0..2, offset : Nat, gen : Nat]

(* What stands at an offset: a plain object, an object that is itself a    *)
(* reference (to `to`), a stream, or a stream with no data.  For a stream  *)
(* `to` is the object holding its /Length, 0 when the number is direct;    *)
(* `holds` lists the objects an object stream contains.                    *)
Item ==
    [num : ObjNum, kind : {"value", "link", "stream", "empty"},
     to : Nat, holds : Seq(Nat)]

Called(op, n) == [op |-> op, num |-> n]

(* Where bytes lie: the head, the data or the end of the item at an offset,*)
(* or a slot of an object stream whose data begins there.                  *)
Place == [off : Nat, part : {"head", "data", "end", "slot"}, slot : Nat]
At(o, p) == [off |-> o, part |-> p, slot |-> 0]
Slot(o, i) == [off |-> o, part |-> "slot", slot |-> i]

(* PdfObject: the fields tell where the object came from, its genNum, and  *)
(* for a PdfReference its target.                                          *)
NoPlace == At(0, "head")
Object ==
    [kind : {"value"}, src : Place \cup Edit, gen : Nat, to : Nat]
    \cup [kind : {"link", "stream"}, src : Place, gen : Nat, to : Nat]
Null == [kind |-> "null", src |-> NoPlace, gen |-> 0, to |-> 0]
NoResult == [kind |-> "none", src |-> NoPlace, gen |-> 0, to |-> 0]

Plain(s) == [kind |-> "value", src |-> s, gen |-> 0, to |-> 0]
Link(s, n) == [kind |-> "link", src |-> s, gen |-> 0, to |-> n]
Stream(s) == [kind |-> "stream", src |-> s, gen |-> 0, to |-> 0]

(* One activation of getIndirectObjectFor and what it is waiting for.      *)
Frame == [num : Nat, stage : {"get", "length", "data", "container"}]

ASSUME ConstantsAssumption ==
    /\ MaxObjNum \in Nat
    /\ MaxDepth \in Nat
    /\ Replaceable \subseteq ObjNum \ {0}
    /\ Deletable \subseteq ObjNum \ {0}
    /\ ReplaceClosed \in BOOLEAN

ASSUME FilesAssumption ==
    \A f \in Files :
        /\ DOMAIN f.entries \subseteq ObjNum
        /\ \A n \in DOMAIN f.entries : f.entries[n] \in XRefEntry
        /\ DOMAIN f.at \subseteq Nat
        /\ \A o \in DOMAIN f.at : f.at[o] \in Item

VARIABLES
    file,           \* the file behind _stream; never changes
    open,           \* _syntaxParser is not null
    entries,        \* _crossRefTable._entries
    cache,          \* _objectCache: containsKey matters, so a partial function
    objectStreams,  \* _objectStreams: where the data of each begins
    position,       \* the cursor of the shared _syntaxParser
    stack,          \* activations of getIndirectObjectFor, innermost last
    result,         \* what the last activation that returned gave back
    call            \* history: the last call its owner made

vars == <<file, open, entries, cache, objectStreams, position, stack, result, call>>

-----------------------------------------------------------------------------
(* Helpers.                                                                *)

With(f, k, v) == [x \in DOMAIN f \cup {k} |-> IF x = k THEN v ELSE f[x]]
Without(f, k) == [x \in DOMAIN f \ {k} |-> f[x]]
Nothing == [x \in {} |-> Null]

Idle == stack = <<>>
Top == stack[Len(stack)]
Callers == SubSeq(stack, 1, Len(stack) - 1)
Push(n) == Append(stack, [num |-> n, stage |-> "get"])
Enter(s) == Append(Callers, [Top EXCEPT !.stage = s])
EnterAndPush(s, n) == Append(Enter(s), [num |-> n, stage |-> "get"])

HasEntry(n) == n \in DOMAIN entries /\ entries[n].type # 0
InUse(n) == HasEntry(n) /\ entries[n].type = 1
Compressed(n) == HasEntry(n) /\ entries[n].type = 2
Container(n) == entries[n].gen

(* Mutant: the cache is not consulted before the table.                    *)
MissedUncached(n) == ~Idle /\ Top = [num |-> n, stage |-> "get"]

(* The innermost activation has just been entered and n is not cached.     *)
Missed(n) ==
    /\ ~Idle
    /\ Top = [num |-> n, stage |-> "get"]
    /\ n \notin DOMAIN cache

(* pdf_parser.dart:219-226: number the object, cache it, return it.        *)
Return(n, v) ==
    LET obj == IF v = Null THEN Null ELSE [v EXCEPT !.gen = entries[n].gen]
    IN  /\ cache' = With(cache, n, obj)
        /\ result' = obj
        /\ stack' = Callers

(* Mutants: the number read is not compared; a mismatch gives no object at *)
(* all instead of null.                                                    *)
VerifiedUnchecked(n, item, v) == v
VerifiedUnset(n, item, v) == IF item.num = n THEN v ELSE NoResult

(* Load failures and objects under another number both give null.          *)
Verified(n, item, v) == IF item.num = n THEN v ELSE Null

(* _ObjectStream.getObject(n, i) on the object stream whose data begins at *)
(* place s.  Bytes read from anywhere but the data of an item parse to     *)
(* nothing or to some object that is not the one the file stores.          *)
FromObjectStream(n, i, s) ==
    IF s.part = "data"
    THEN LET holds == file.at[s.off].holds
             slots == {j \in 1..Len(holds) : holds[j] = n}
         IN  IF i >= Len(holds) \/ slots = {} THEN {Null}
             ELSE IF holds[i + 1] = n THEN {Plain(Slot(s.off, i + 1))}
             ELSE {Plain(Slot(s.off, j)) :
                      j \in {k \in slots : \A l \in slots : k <= l}}
    ELSE {Null, Plain(s)}

-----------------------------------------------------------------------------
(* The state after PdfParser.parse succeeded.                              *)
Init ==
    /\ file \in Files
    /\ open = TRUE
    /\ entries = file.entries
    /\ cache = Nothing
    /\ objectStreams = Nothing
    /\ position = At(0, "end")
    /\ stack = <<>>
    /\ result = NoResult
    /\ call = Called("parse", 0)

(* Calls made by the owner of the parser.                                  *)

GetIndirectObject(n) ==
    /\ Idle
    /\ call' = Called("get", n)
    /\ stack' = Push(n)
    /\ result' = NoResult
    /\ UNCHANGED <<file, open, entries, cache, objectStreams, position>>

(* maxObjNum + 1, over every entry the table has, free ones included.      *)
IsNextObjNum(n) ==
    /\ \A k \in DOMAIN entries : k < n
    /\ n - 1 \in DOMAIN entries \/ (DOMAIN entries = {} /\ n = 1)

AddIndirectObject(n, v) ==
    /\ Idle
    /\ call' = Called("add", n)
    /\ IsNextObjNum(n)
    /\ cache' = With(cache, n, Plain(v))
    /\ entries' = With(entries, n, [type |-> 1, offset |-> 0, gen |-> 0])
    /\ UNCHANGED <<file, open, objectStreams, position, stack, result>>

ReplaceIndirectObject(n, v) ==
    /\ Idle
    /\ call' = Called("replace", n)
    /\ open \/ ReplaceClosed
    /\ cache' = With(cache, n, Plain(v))
    /\ UNCHANGED <<file, open, entries, objectStreams, position, stack, result>>

(* Mutants: the entry stays in use; the object stays cached.               *)
DeleteOnlyCached(n) ==
    /\ Idle
    /\ call' = Called("delete", n)
    /\ cache' = Without(cache, n)
    /\ UNCHANGED <<file, open, entries, objectStreams, position, stack, result>>
DeleteOnlyEntry(n) ==
    /\ Idle
    /\ call' = Called("delete", n)
    /\ entries' = [k \in DOMAIN entries |->
                      IF k = n THEN [entries[k] EXCEPT !.type = 0] ELSE entries[k]]
    /\ UNCHANGED <<file, open, cache, objectStreams, position, stack, result>>

DeleteIndirectObject(n) ==
    /\ Idle
    /\ call' = Called("delete", n)
    /\ cache' = Without(cache, n)
    /\ entries' = [k \in DOMAIN entries |->
                      IF k = n THEN [entries[k] EXCEPT !.type = 0] ELSE entries[k]]
    /\ UNCHANGED <<file, open, objectStreams, position, stack, result>>

Close ==
    /\ Idle
    /\ call' = Called("close", 0)
    /\ open
    /\ open' = FALSE
    /\ cache' = Nothing
    /\ objectStreams' = Nothing
    /\ entries' = Nothing
    /\ UNCHANGED <<file, position, stack, result>>

-----------------------------------------------------------------------------
(* Steps of the innermost activation.                                      *)

(* Mutant: the activation does not return.                                 *)
CacheHitStays ==
    /\ ~Idle
    /\ Top.stage = "get"
    /\ Top.num \in DOMAIN cache
    /\ result' = cache[Top.num]
    /\ UNCHANGED <<file, open, entries, cache, objectStreams, position, stack, call>>

CacheHit ==
    /\ ~Idle
    /\ Top.stage = "get"
    /\ Top.num \in DOMAIN cache
    /\ result' = cache[Top.num]
    /\ stack' = Callers
    /\ UNCHANGED <<file, open, entries, cache, objectStreams, position, call>>

(* No entry, or a free one: null is cached.                                *)
FreeEntry(n) ==
    /\ Missed(n)
    /\ ~HasEntry(n)
    /\ Return(n, Null)
    /\ UNCHANGED <<file, open, entries, objectStreams, position, call>>

(* _loadObject finds no "n g obj" at the entry's offset.                   *)
LoadNothing(n) ==
    /\ Missed(n)
    /\ InUse(n)
    /\ open
    /\ entries[n].offset \notin DOMAIN file.at
    /\ position' = At(entries[n].offset, "end")
    /\ Return(n, Null)
    /\ UNCHANGED <<file, open, entries, objectStreams, call>>

(* _loadObject reads an object that is not a stream.                       *)
LoadPlain(n) ==
    /\ Missed(n)
    /\ InUse(n)
    /\ open
    /\ entries[n].offset \in DOMAIN file.at
    /\ LET o == entries[n].offset
           item == file.at[o]
       IN  /\ item.kind \in {"value", "link"}
           /\ position' = At(o, "end")
           /\ Return(n, Verified(n, item,
                          IF item.kind = "link" THEN Link(At(o, "head"), item.to)
                                                ELSE Plain(At(o, "head"))))
    /\ UNCHANGED <<file, open, entries, objectStreams, call>>

(* _loadObject reads a dictionary and the keyword "stream"; the cursor is  *)
(* at the first byte of the data when dict.get('Length') is called.        *)
BeginStream(n) ==
    /\ Missed(n)
    /\ InUse(n)
    /\ open
    /\ entries[n].offset \in DOMAIN file.at
    /\ LET o == entries[n].offset
           item == file.at[o]
       IN  /\ item.kind \in {"stream", "empty"}
           /\ position' = At(o, "data")
           /\ \/ /\ item.to = 0
                 /\ stack' = Enter("data")
              \/ /\ item.to # 0
                 /\ Len(stack) < MaxDepth
                 /\ stack' = EnterAndPush("length", item.to)
    /\ result' = NoResult
    /\ UNCHANGED <<file, open, entries, cache, objectStreams, call>>

(* Mutant: the reference resolved again is the one just resolved.          *)
LengthChainedToItself ==
    /\ ~Idle
    /\ Top.stage = "length"
    /\ result.kind = "link"
    /\ Len(stack) < MaxDepth
    /\ stack' = Push(Top.num)
    /\ result' = NoResult
    /\ UNCHANGED <<file, open, entries, cache, objectStreams, position, call>>

(* PdfReference.direct follows a reference to a reference.                 *)
LengthChained ==
    /\ ~Idle
    /\ Top.stage = "length"
    /\ result.kind = "link"
    /\ Len(stack) < MaxDepth
    /\ stack' = Push(result.to)
    /\ result' = NoResult
    /\ UNCHANGED <<file, open, entries, cache, objectStreams, position, call>>

(* dict.get('Length') has returned; an unresolved length counts as 0.      *)
LengthResolved ==
    /\ ~Idle
    /\ Top.stage = "length"
    /\ result.kind \in {"value", "stream", "null"}
    /\ stack' = Enter("data")
    /\ UNCHANGED <<file, open, entries, cache, objectStreams, position, result, call>>

(* readBytes (or _findEndStream and readBytes) runs from wherever the      *)
(* cursor is now.  It returns null when there is no byte to read, and the  *)
(* object then stays the dictionary.                                       *)
StreamRead(o) ==
    IF position = At(o, "data")
    THEN IF file.at[o].kind = "empty" THEN {Plain(At(o, "head"))}
                                      ELSE {Stream(position)}
    ELSE {Stream(position), Plain(At(o, "head"))}

ReadStreamData ==
    /\ ~Idle
    /\ Top.stage = "data"
    /\ LET n == Top.num
           o == entries[n].offset
       IN  \E v \in StreamRead(o) :
              /\ Return(n, Verified(n, file.at[o], v))
              /\ position' = At(position.off, "end")
    /\ UNCHANGED <<file, open, entries, objectStreams, call>>

(* _loadCompressedObject without a cached _ObjectStream.                   *)
OpenObjectStream(n) ==
    /\ Missed(n)
    /\ Compressed(n)
    /\ Container(n) \notin DOMAIN objectStreams
    /\ open
    /\ Len(stack) < MaxDepth
    /\ stack' = EnterAndPush("container", Container(n))
    /\ result' = NoResult
    /\ UNCHANGED <<file, open, entries, cache, objectStreams, position, call>>

ObjectStreamLoaded ==
    /\ ~Idle
    /\ Top.stage = "container"
    /\ result # NoResult
    /\ LET n == Top.num
       IN  \/ /\ result.kind # "stream"
              /\ Return(n, Null)
              /\ UNCHANGED objectStreams
           \/ /\ result.kind = "stream"
              /\ objectStreams' = With(objectStreams, Container(n), result.src)
              /\ \E v \in FromObjectStream(n, entries[n].offset, result.src) :
                    Return(n, v)
    /\ UNCHANGED <<file, open, entries, position, call>>

(* _loadCompressedObject with the _ObjectStream at hand.                   *)
LoadFromObjectStream(n) ==
    /\ Missed(n)
    /\ Compressed(n)
    /\ Container(n) \in DOMAIN objectStreams
    /\ \E v \in FromObjectStream(n, entries[n].offset, objectStreams[Container(n)]) :
          Return(n, v)
    /\ UNCHANGED <<file, open, entries, objectStreams, position, call>>

-----------------------------------------------------------------------------
Load(n) ==
    \/ FreeEntry(n)
    \/ LoadNothing(n)
    \/ LoadPlain(n)
    \/ BeginStream(n)
    \/ OpenObjectStream(n)
    \/ LoadFromObjectStream(n)

Continue ==
    \/ CacheHit
    \/ LengthChained
    \/ LengthResolved
    \/ ReadStreamData
    \/ ObjectStreamLoaded
    \/ ~Idle /\ Load(Top.num)

Call ==
    \/ \E n \in ObjNum \ {0} : GetIndirectObject(n)
    \/ \E n \in ObjNum, v \in Edit : AddIndirectObject(n, v)
    \/ \E n \in Replaceable, v \in Edit : ReplaceIndirectObject(n, v)
    \/ \E n \in Deletable : DeleteIndirectObject(n)
    \/ Close

Next == Call \/ Continue

(* The program is sequential: once a call is made its steps run on.        *)
Spec == Init /\ [][Next]_vars /\ WF_vars(Continue)

-----------------------------------------------------------------------------
(* Properties.                                                             *)

TypeOK ==
    /\ open \in BOOLEAN
    /\ DOMAIN entries \subseteq ObjNum
    /\ \A n \in DOMAIN entries : entries[n] \in XRefEntry
    /\ DOMAIN cache \subseteq Nat
    /\ \A n \in DOMAIN cache : cache[n] \in Object \cup {Null}
    /\ DOMAIN objectStreams \subseteq Nat
    /\ \A n \in DOMAIN objectStreams : objectStreams[n] \in Place
    /\ position \in Place
    /\ stack \in Seq(Frame)
    /\ result \in Object \cup {Null, NoResult}

(* _loadObject and _loadCompressedObject dereference _syntaxParser with !, *)
(* and close() sets it to null while the parser can still be called.  No   *)
(* sequence of add, replace, delete and get after close reaches a load.    *)
NoNullParser ==
    ~Idle /\ Missed(Top.num) /\ HasEntry(Top.num) => open

(* An object taken from the file is cached under the number the file gives *)
(* it, whatever offset or index the cross-reference entry claims.          *)
FiledUnderOwnNumber ==
    \A n \in DOMAIN cache :
        cache[n] # Null /\ cache[n].src \notin Edit =>
            /\ cache[n].src.part = "head" => file.at[cache[n].src.off].num = n
            /\ cache[n].src.part = "slot" =>
                  file.at[cache[n].src.off].holds[cache[n].src.slot] = n

(* What loading n may load first: the object stream n is in, the object    *)
(* that holds its /Length, the object it is a reference to.                *)
NeedsOf(f, n) ==
    LET e == f.entries[n]
        item == f.at[e.offset]
    IN  IF e.type = 2 THEN {e.gen}
        ELSE IF /\ e.type = 1
                /\ e.offset \in DOMAIN f.at
                /\ item.kind = "link" \/ (item.kind # "value" /\ item.to # 0)
        THEN {item.to} ELSE {}

(* A file in which no object needs itself, not even by way of others.      *)
RankedBy(f, rank) ==
    \A n \in DOMAIN f.entries : \A m \in NeedsOf(f, n) : rank[m] < rank[n]

(* Nested loads never come back to a number that is being loaded: the      *)
(* nesting is bounded by the file, not by the Dart stack.                  *)
NoLoadReentered ==
    \A i, j \in 1..Len(stack) : stack[i].num = stack[j].num => i = j

(* While a load runs, what was cached stays cached and stays what it was:  *)
(* only the caller's replace, delete and close change a cached object, and *)
(* a nested load never overwrites what another one stored.                 *)
LoadsKeepCache ==
    [][~Idle => \A n \in DOMAIN cache :
                   n \in DOMAIN cache' /\ cache'[n] = cache[n]]_vars

(* Every call returns.                                                     *)
GetReturns == ~Idle ~> Idle

(* "A stream consists of a dictionary ... followed by the stream data"     *)
(* (pdf_stream.dart): a loaded stream holds the bytes that follow its own  *)
(* dictionary.  Holds when no file keeps a /Length in another object.      *)
StreamsHoldOwnData ==
    \A n \in DOMAIN cache :
        cache[n].kind = "stream" => cache[n].src = At(entries[n].offset, "data")

(* ... and an object that is a stream in the file is loaded as one.        *)
StreamsLoadAsStreams ==
    \A n \in DOMAIN cache :
        cache[n] # Null /\ InUse(n) /\ cache[n].src = At(entries[n].offset, "head")
            => file.at[entries[n].offset].kind \in {"value", "link"}

(* "Generation number" (pdf_object.dart): an object in an object stream    *)
(* has generation 0, whatever stream it is in.                             *)
CompressedHaveGenerationZero ==
    \A n \in DOMAIN cache :
        Compressed(n) /\ cache[n] # Null => cache[n].gen = 0

(* "Add a new indirect object" (pdf_object.dart): an added object does not *)
(* take the place of another.                                              *)
AddIsNew ==
    [][\A n \in ObjNum, v \in Edit :
          AddIndirectObject(n, v) => n \notin DOMAIN cache \/ cache[n] = Null]_vars

-----------------------------------------------------------------------------
(* The file's own answer for a number nobody asked for yet.                *)
Meaning(n) ==
    IF InUse(n) /\ entries[n].offset \in DOMAIN file.at
    THEN LET o == entries[n].offset
             item == file.at[o]
         IN  IF item.num # n THEN Null
             ELSE IF item.kind = "link" THEN Link(At(o, "head"), item.to)
             ELSE IF item.kind = "value" THEN Plain(At(o, "head"))
             ELSE Stream(At(o, "data"))
    ELSE Null

(* An object in an object stream: the slot the index names, or the first   *)
(* slot with its number.                                                   *)
CompressedMeaning(n) ==
    LET c == Container(n)
        inner == IF c \in DOMAIN objectStreams THEN Stream(objectStreams[c])
                 ELSE IF c \in DOMAIN cache THEN cache[c]
                 ELSE Meaning(c)
    IN  IF inner.kind = "stream"
        THEN CHOOSE v \in FromObjectStream(n, entries[n].offset, inner.src) : TRUE
        ELSE Null

(* Objects compare without their generation number (see                    *)
(* CompressedHaveGenerationZero).                                          *)
Bare(v) == [v EXCEPT !.gen = 0]

View(n) ==
    IF n \in DOMAIN cache THEN Bare(cache[n])
    ELSE IF Compressed(n) THEN CompressedMeaning(n)
    ELSE Meaning(n)

Table == [n \in ObjNum |-> View(n)]
Asked == IF Idle THEN 0 ELSE stack[1].num
Answered == IF Idle THEN Bare(result) ELSE NoResult

Holder == INSTANCE IndirectObjectHolder WITH
    Value <- Object,
    Given <- {Plain(v) : v \in Edit},
    NoAnswer <- NoResult,
    objects <- Table,
    asked <- Asked,
    answer <- Answered,
    last <- call

(* In a file whose lengths are direct the lazy, cached parser answers as   *)
(* the table of objects it stands for: no answer depends on the order in   *)
(* which objects were asked for.                                           *)
ImplementsHolder == Holder!Spec

(* What the file and the callers have to respect for that.                 *)
PlainFile(f) ==
    /\ \A o \in DOMAIN f.at :
          /\ f.at[o].kind # "empty"
          /\ f.at[o].kind = "stream" => f.at[o].to = 0
    /\ \A n \in DOMAIN f.entries : f.entries[n].type = 2 =>
          LET c == f.entries[n].gen
          IN  /\ c \notin Replaceable \cup Deletable
              /\ c \in DOMAIN f.entries => f.entries[c].type # 2
    /\ Replaceable \subseteq DOMAIN f.entries
=============================================================================
