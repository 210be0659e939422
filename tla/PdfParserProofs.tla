-------------------------- MODULE PdfParserProofs --------------------------
(***************************************************************************)
(* Proofs about PdfParser, for every file, every bound and every set of    *)
(* callers' numbers.                                                       *)
(***************************************************************************)
EXTENDS PdfParser, SequenceTheorems, WellFoundedInduction, TLAPS

(* The call stack as a sequence: what popping it gives.                    *)
LEMMA PopStack ==
    ASSUME NEW F, NEW s \in Seq(F), s # <<>>
    PROVE  /\ Len(s) \in Nat \ {0}
           /\ s[Len(s)] \in F
           /\ SubSeq(s, 1, Len(s) - 1) \in Seq(F)
           /\ Len(SubSeq(s, 1, Len(s) - 1)) = Len(s) - 1
           /\ \A i \in 1..(Len(s) - 1) : SubSeq(s, 1, Len(s) - 1)[i] = s[i]
<1>1. Len(s) \in Nat \ {0}
  BY EmptySeq
<1>2. \A i \in 1..Len(s) : s[i] \in F
  BY ElementOfSeq
<1>3. PICK m \in Int : m = Len(s) - 1
  BY <1>1
<1>4. \A i \in 1..m : s[i] \in F
  BY <1>1, <1>2, <1>3
<1>5. /\ SubSeq(s, 1, m) \in Seq(F)
      /\ Len(SubSeq(s, 1, m)) = IF 1 <= m THEN m - 1 + 1 ELSE 0
      /\ \A i \in 1..(m - 1 + 1) : SubSeq(s, 1, m)[i] = s[1 + i - 1]
  BY <1>4, SubSeqProperties
<1>6. QED
  BY <1>1, <1>2, <1>3, <1>5

LEMMA PushStack ==
    ASSUME NEW F, NEW s \in Seq(F), NEW f \in F
    PROVE  /\ Append(s, f) \in Seq(F)
           /\ \A i \in 1..Len(Append(s, f)) :
                 (i \in 1..Len(s) /\ Append(s, f)[i] = s[i]) \/ Append(s, f)[i] = f
  BY AppendProperties, LenProperties

(* The sequence operators the stack is changed with keep it a stack.       *)
LEMMA StackTypes ==
    ASSUME TypeOK
    PROVE  /\ \A n \in Nat : Push(n) \in Seq(Frame)
           /\ ~Idle =>
                /\ Top \in Frame
                /\ Callers \in Seq(Frame)
                /\ \A s \in {"get", "length", "data", "container"} :
                      /\ Enter(s) \in Seq(Frame)
                      /\ \A n \in Nat : EnterAndPush(s, n) \in Seq(Frame)
<1>1. stack \in Seq(Frame)
  BY DEF TypeOK
<1>2. \A n \in Nat : [num |-> n, stage |-> "get"] \in Frame
  BY DEF Frame
<1>3. \A n \in Nat : Push(n) \in Seq(Frame)
  BY <1>1, <1>2, AppendProperties DEF Push
<1>4. ASSUME ~Idle
      PROVE  /\ Top \in Frame
             /\ Callers \in Seq(Frame)
             /\ \A s \in {"get", "length", "data", "container"} :
                   /\ Enter(s) \in Seq(Frame)
                   /\ \A n \in Nat : EnterAndPush(s, n) \in Seq(Frame)
  <2>1. Top \in Frame /\ Callers \in Seq(Frame)
    BY <1>1, <1>4, PopStack DEF Idle, Top, Callers
  <2>2. ASSUME NEW s \in {"get", "length", "data", "container"}
        PROVE  Enter(s) \in Seq(Frame)
    <3>1. [Top EXCEPT !.stage = s] \in Frame
      BY <2>1 DEF Frame
    <3>2. QED
      BY <2>1, <3>1 DEF Enter
  <2>3. ASSUME NEW s \in {"get", "length", "data", "container"}, NEW n \in Nat
        PROVE  EnterAndPush(s, n) \in Seq(Frame)
    BY <2>2, <1>2, AppendProperties DEF EnterAndPush
  <2>4. QED
    BY <2>1, <2>2, <2>3
<1>5. QED
  BY <1>3, <1>4

-----------------------------------------------------------------------------
(* The inductive invariant.                                                *)

(* What an object or a link just read is, and where it came from.          *)
LEMMA PlaceFacts ==
    \A o \in Nat, p \in {"head", "data", "end"} :
        At(o, p) \in Place /\ At(o, p).part = p /\ At(o, p).off = o
BY DEF At, Place

LEMMA ReadFacts ==
    /\ \A s \in Place : Plain(s) \in Object /\ Plain(s).src = s /\ Plain(s).kind = "value"
    /\ \A s \in Place, m \in Nat :
          Link(s, m) \in Object /\ Link(s, m).src = s /\ Link(s, m).kind = "link"
    /\ Null.kind = "null"
<1>1. ASSUME NEW s \in Place
      PROVE  Plain(s) \in Object /\ Plain(s).src = s /\ Plain(s).kind = "value"
  BY DEF Plain, Object
<1>2. ASSUME NEW s \in Place, NEW m \in Nat
      PROVE  Link(s, m) \in Object /\ Link(s, m).src = s /\ Link(s, m).kind = "link"
  BY DEF Link, Object
<1> QED
  BY <1>1, <1>2 DEF Null

(* The cursor, and the data of a stream, are at the end of something or at *)
(* the data of an item of the file; never at a head or in a slot.          *)
DataPlace(p) ==
    /\ p.part \in {"data", "end"}
    /\ p.part = "data" => p.off \in DOMAIN file.at

DataPlaces ==
    /\ DataPlace(position)
    /\ \A n \in DOMAIN objectStreams : DataPlace(objectStreams[n])
    /\ \A n \in DOMAIN cache : cache[n].kind = "stream" => DataPlace(cache[n].src)
    /\ result.kind = "stream" => DataPlace(result.src)

(* An activation that waits for something is loading an object that the    *)
(* table says is in use, or compressed.                                    *)
FrameOK(f) ==
    /\ f.stage \in {"length", "data"} =>
          InUse(f.num) /\ entries[f.num].offset \in DOMAIN file.at
    /\ f.stage = "container" => Compressed(f.num)

FramesOK == \A i \in 1..Len(stack) : FrameOK(stack[i])

(* After close every entry in use is one that was added since, so it is    *)
(* cached, and no activation gets past the cache.                          *)
ClosedOK ==
    ~open => /\ \A n \in DOMAIN entries : HasEntry(n) => n \in DOMAIN cache
             /\ \A i \in 1..Len(stack) : stack[i].stage = "get"

IndInv ==
    /\ file \in Files
    /\ TypeOK
    /\ DataPlaces
    /\ FramesOK
    /\ ClosedOK
    /\ FiledUnderOwnNumber

(* v is an object the file stores under n.                                 *)
FromFile(n, v) ==
    v # Null =>
        /\ v.kind = "stream" => DataPlace(v.src)
        /\ v.src \in Place
        /\ v.src.part = "head" => file.at[v.src.off].num = n
        /\ v.src.part = "slot" => file.at[v.src.off].holds[v.src.slot] = n

LEMMA FileTypes ==
    ASSUME IndInv
    PROVE  /\ DOMAIN file.entries \subseteq ObjNum
           /\ \A n \in DOMAIN file.entries : file.entries[n] \in XRefEntry
           /\ DOMAIN file.at \subseteq Nat
           /\ \A o \in DOMAIN file.at : file.at[o] \in Item
  BY FilesAssumption DEF IndInv

LEMMA InitIndInv == Init => IndInv
<1> SUFFICES ASSUME Init PROVE IndInv
  OBVIOUS
<1>1. TypeOK
  BY FilesAssumption
  DEF Init, TypeOK, Nothing, At, Place, NoResult
<1>2. DataPlaces
  BY DEF Init, DataPlaces, DataPlace, Nothing, At, NoResult
<1>3. FramesOK /\ ClosedOK /\ FiledUnderOwnNumber
  BY DEF Init, FramesOK, ClosedOK, FiledUnderOwnNumber, Nothing
<1>4. QED
  BY <1>1, <1>2, <1>3 DEF Init, IndInv

(* Returning an object of the file keeps the invariant.                    *)
LEMMA ReturnInv ==
    ASSUME IndInv, ~Idle, NEW n \in Nat, NEW v \in Object \cup {Null},
           v # Null => n \in DOMAIN entries,
           FromFile(n, v),
           Return(n, v),
           UNCHANGED <<file, open, entries>>,
           position' \in Place, DataPlace(position'),
           DOMAIN objectStreams' \subseteq Nat,
           \A k \in DOMAIN objectStreams' :
              objectStreams'[k] \in Place /\ DataPlace(objectStreams'[k])
    PROVE  IndInv'
<1> DEFINE obj == IF v = Null THEN Null ELSE [v EXCEPT !.gen = entries[n].gen]
<1>1. /\ obj \in Object \cup {Null}
      /\ obj # Null <=> v # Null
      /\ v # Null => obj.kind = v.kind /\ obj.src = v.src
  BY DEF IndInv, TypeOK, Object, Null, XRefEntry
<1>2. cache' = With(cache, n, obj) /\ result' = obj /\ stack' = Callers
  BY DEF Return
<1> HIDE DEF obj
<1>3. /\ DOMAIN cache' = DOMAIN cache \cup {n}
      /\ \A k \in DOMAIN cache' : cache'[k] = IF k = n THEN obj ELSE cache[k]
  BY <1>2 DEF With
<1>4. /\ Callers \in Seq(Frame)
      /\ Len(stack) \in Nat
      /\ Len(Callers) = Len(stack) - 1
      /\ \A i \in 1..(Len(stack) - 1) : Callers[i] = stack[i]
  BY PopStack DEF IndInv, TypeOK, Idle, Callers
<1>5. TypeOK'
  BY <1>1, <1>2, <1>3, <1>4 DEF IndInv, TypeOK
<1>6. DataPlaces'
  BY <1>1, <1>2, <1>3 DEF IndInv, DataPlaces, DataPlace, FromFile, Null
<1>7. FramesOK'
  BY <1>2, <1>4, SMTT(30) DEF IndInv, FramesOK, FrameOK, InUse, Compressed, HasEntry
<1>8. ClosedOK'
  BY <1>2, <1>3, <1>4 DEF IndInv, ClosedOK, HasEntry
<1>9. FiledUnderOwnNumber'
  BY <1>1, <1>3 DEF IndInv, FiledUnderOwnNumber, FromFile
<1>10. QED
  BY <1>5, <1>6, <1>7, <1>8, <1>9 DEF IndInv

(* A step of the innermost activation that loads nothing by itself but     *)
(* replaces the stack keeps the invariant if the new activations are in    *)
(* order.                                                                  *)
LEMMA StackInv ==
    ASSUME IndInv,
           UNCHANGED <<file, open, entries, cache, objectStreams>>,
           position' \in Place, DataPlace(position'),
           result' \in Object \cup {Null, NoResult},
           result'.kind = "stream" => DataPlace(result'.src),
           stack' \in Seq(Frame),
           \A i \in 1..Len(stack') :
              /\ FrameOK(stack'[i])
              /\ open \/ stack'[i].stage = "get"
    PROVE  IndInv'
<1>1. TypeOK'
  BY DEF IndInv, TypeOK
<1>2. DataPlaces'
  BY DEF IndInv, DataPlaces, DataPlace
<1>3. FramesOK'
  BY DEF FramesOK, FrameOK, InUse, Compressed, HasEntry
<1>4. ClosedOK'
  BY DEF IndInv, ClosedOK, HasEntry
<1>5. FiledUnderOwnNumber'
  BY DEF IndInv, FiledUnderOwnNumber
<1>6. QED
  BY <1>1, <1>2, <1>3, <1>4, <1>5 DEF IndInv

(* What the stacks of those steps hold.                                    *)
LEMMA StackFrames ==
    ASSUME IndInv, ~Idle
    PROVE  /\ Top \in Frame /\ FrameOK(Top)
           /\ open \/ Top.stage = "get"
           /\ \A i \in 1..Len(Callers) :
                 FrameOK(Callers[i]) /\ (open \/ Callers[i].stage = "get")
           /\ \A n \in Nat : \A i \in 1..Len(Push(n)) :
                 \/ i \in 1..Len(stack) /\ Push(n)[i] = stack[i]
                 \/ Push(n)[i] = [num |-> n, stage |-> "get"]
           /\ \A s \in {"get", "length", "data", "container"} :
                 /\ \A i \in 1..Len(Enter(s)) :
                       \/ i \in 1..Len(Callers) /\ Enter(s)[i] = Callers[i]
                       \/ Enter(s)[i] = [Top EXCEPT !.stage = s]
                 /\ \A n \in Nat : \A i \in 1..Len(EnterAndPush(s, n)) :
                       \/ i \in 1..Len(Enter(s)) /\ EnterAndPush(s, n)[i] = Enter(s)[i]
                       \/ EnterAndPush(s, n)[i] = [num |-> n, stage |-> "get"]
<1>1. /\ stack \in Seq(Frame)
      /\ Len(stack) \in Nat \ {0}
      /\ Top = stack[Len(stack)]
      /\ Top \in Frame
      /\ Callers \in Seq(Frame)
      /\ Len(Callers) = Len(stack) - 1
      /\ \A i \in 1..(Len(stack) - 1) : Callers[i] = stack[i]
  BY PopStack DEF IndInv, TypeOK, Idle, Callers, Top
<1>2. \A n \in Nat : [num |-> n, stage |-> "get"] \in Frame
  BY DEF Frame
<1>3. \A s \in {"get", "length", "data", "container"} : [Top EXCEPT !.stage = s] \in Frame
  BY <1>1 DEF Frame
<1>4. \A i \in 1..Len(stack) : FrameOK(stack[i]) /\ (open \/ stack[i].stage = "get")
  BY DEF IndInv, FramesOK, ClosedOK
<1>5. ASSUME NEW n \in Nat, NEW i \in 1..Len(Push(n))
      PROVE  \/ i \in 1..Len(stack) /\ Push(n)[i] = stack[i]
             \/ Push(n)[i] = [num |-> n, stage |-> "get"]
  BY <1>1, <1>2, <1>5, PushStack DEF Push
<1>6. ASSUME NEW s \in {"get", "length", "data", "container"}
      PROVE  /\ Enter(s) \in Seq(Frame)
             /\ \A i \in 1..Len(Enter(s)) :
                   \/ i \in 1..Len(Callers) /\ Enter(s)[i] = Callers[i]
                   \/ Enter(s)[i] = [Top EXCEPT !.stage = s]
  <2> DEFINE f == [Top EXCEPT !.stage = s]
  <2>1. f \in Frame
    BY <1>3, <1>6
  <2> HIDE DEF f
  <2>2. Append(Callers, f) \in Seq(Frame)
    BY <1>1, <2>1, PushStack
  <2>3. \A i \in 1..Len(Append(Callers, f)) :
          (i \in 1..Len(Callers) /\ Append(Callers, f)[i] = Callers[i])
          \/ Append(Callers, f)[i] = f
    BY <1>1, <2>1, PushStack
  <2>4. Enter(s) = Append(Callers, f)
    BY DEF Enter, f
  <2>5. QED
    BY <2>2, <2>3, <2>4 DEF f
<1>7. ASSUME NEW s \in {"get", "length", "data", "container"},
             NEW n \in Nat, NEW i \in 1..Len(EnterAndPush(s, n))
      PROVE  \/ i \in 1..Len(Enter(s)) /\ EnterAndPush(s, n)[i] = Enter(s)[i]
             \/ EnterAndPush(s, n)[i] = [num |-> n, stage |-> "get"]
  BY <1>2, <1>6, <1>7, PushStack DEF EnterAndPush
<1>8. /\ Top \in Frame /\ FrameOK(Top)
      /\ open \/ Top.stage = "get"
  BY <1>1, <1>4
<1>9. \A i \in 1..Len(Callers) :
        FrameOK(Callers[i]) /\ (open \/ Callers[i].stage = "get")
  BY <1>1, <1>4
<1>10. QED
  BY <1>5, <1>6, <1>7, <1>8, <1>9

-----------------------------------------------------------------------------
(* The owner's calls.                                                      *)

LEMMA CallInv == IndInv /\ Call => IndInv'
<1> SUFFICES ASSUME IndInv, Call PROVE IndInv'
  OBVIOUS
<1>0. TypeOK /\ DataPlaces /\ FramesOK /\ ClosedOK /\ FiledUnderOwnNumber
  BY DEF IndInv
<1>f. file' \in Files
  BY DEF IndInv, Call, GetIndirectObject, AddIndirectObject, ReplaceIndirectObject,
         DeleteIndirectObject, Close
<1>1. ASSUME NEW n \in ObjNum \ {0}, GetIndirectObject(n)
      PROVE  IndInv'
  <2>1. stack' = <<[num |-> n, stage |-> "get"]>>
    BY <1>1 DEF GetIndirectObject, Push, Idle
  <2>2. stack' \in Seq(Frame) /\ Len(stack') = 1 /\ stack'[1].stage = "get"
    BY <2>1 DEF Frame, ObjNum
  <2>3. \A i \in 1..Len(stack') : FrameOK(stack'[i]) /\ stack'[i].stage = "get"
    BY <2>2 DEF FrameOK
  <2>4. QED
    BY <1>0, <1>1, <2>2, <2>3, StackInv
    DEF GetIndirectObject, TypeOK, DataPlaces, NoResult
<1>2. ASSUME NEW n \in ObjNum, NEW v \in Edit, AddIndirectObject(n, v)
      PROVE  IndInv'
  <2>1. Plain(v) \in Object /\ Plain(v).kind = "value" /\ Plain(v).src = v
    BY DEF Plain, Object
  <2>2. TypeOK'
    BY <1>0, <1>2, <2>1 DEF TypeOK, AddIndirectObject, With, XRefEntry, ObjNum
  <2>3. DataPlaces'
    BY <1>0, <1>2, <2>1 DEF DataPlaces, DataPlace, AddIndirectObject, With
  <2>4. FramesOK' /\ stack' = <<>>
    BY <1>2 DEF FramesOK, AddIndirectObject, Idle
  <2>5. ClosedOK'
    BY <1>0, <1>2, <2>4, SMTT(30) DEF ClosedOK, AddIndirectObject, With, HasEntry
  <2>6. FiledUnderOwnNumber'
    BY <1>0, <1>2, <2>1 DEF FiledUnderOwnNumber, AddIndirectObject, With
  <2>7. QED
    BY <1>f, <2>2, <2>3, <2>4, <2>5, <2>6 DEF IndInv
<1>3. ASSUME NEW n \in Replaceable, NEW v \in Edit, ReplaceIndirectObject(n, v)
      PROVE  IndInv'
  <2>1. /\ Plain(v) \in Object /\ Plain(v).kind = "value" /\ Plain(v).src = v
        /\ n \in Nat
    BY ConstantsAssumption DEF Plain, Object, ObjNum
  <2>2. TypeOK'
    BY <1>0, <1>3, <2>1 DEF TypeOK, ReplaceIndirectObject, With
  <2>3. DataPlaces'
    BY <1>0, <1>3, <2>1 DEF DataPlaces, DataPlace, ReplaceIndirectObject, With
  <2>4. FramesOK' /\ stack' = <<>>
    BY <1>3 DEF FramesOK, ReplaceIndirectObject, Idle
  <2>5. ClosedOK'
    BY <1>0, <1>3, <2>4, SMTT(30) DEF ClosedOK, ReplaceIndirectObject, With, HasEntry
  <2>6. FiledUnderOwnNumber'
    BY <1>0, <1>3, <2>1 DEF FiledUnderOwnNumber, ReplaceIndirectObject, With
  <2>7. QED
    BY <1>f, <2>2, <2>3, <2>4, <2>5, <2>6 DEF IndInv
<1>4. ASSUME NEW n \in Deletable, DeleteIndirectObject(n)
      PROVE  IndInv'
  <2>0. DOMAIN entries' = DOMAIN entries /\ \A k \in DOMAIN entries : entries'[k] \in XRefEntry
    BY <1>0, <1>4 DEF TypeOK, DeleteIndirectObject, XRefEntry
  <2>1. TypeOK'
    BY <1>0, <1>4, <2>0 DEF TypeOK, DeleteIndirectObject, Without
  <2>2. DataPlaces'
    BY <1>0, <1>4 DEF DataPlaces, DataPlace, DeleteIndirectObject, Without
  <2>3. FramesOK' /\ stack' = <<>>
    BY <1>4 DEF FramesOK, DeleteIndirectObject, Idle
  <2>4. ClosedOK'
    BY <1>0, <1>4, <2>3
    DEF ClosedOK, DeleteIndirectObject, Without, HasEntry, TypeOK, XRefEntry
  <2>5. FiledUnderOwnNumber'
    BY <1>0, <1>4 DEF FiledUnderOwnNumber, DeleteIndirectObject, Without
  <2>6. QED
    BY <1>f, <2>1, <2>2, <2>3, <2>4, <2>5 DEF IndInv
<1>5. CASE Close
  <2>1. TypeOK'
    BY <1>0, <1>5 DEF TypeOK, Close, Nothing
  <2>2. DataPlaces' /\ FiledUnderOwnNumber'
    BY <1>0, <1>5 DEF DataPlaces, DataPlace, FiledUnderOwnNumber, Close, Nothing
  <2>3. FramesOK' /\ ClosedOK'
    BY <1>5 DEF FramesOK, ClosedOK, Close, Idle, Nothing, HasEntry
  <2>4. QED
    BY <1>f, <2>1, <2>2, <2>3 DEF IndInv
<1>6. QED
  BY <1>1, <1>2, <1>3, <1>4, <1>5 DEF Call

-----------------------------------------------------------------------------
(* The steps of the innermost activation.                                  *)

(* What an object stream yields is filed under its own number.             *)
LEMMA ObjectStreamYields ==
    ASSUME IndInv, NEW n \in Nat, NEW i \in Nat, NEW s \in Place, DataPlace(s),
           NEW v \in FromObjectStream(n, i, s)
    PROVE  v \in Object \cup {Null} /\ FromFile(n, v)
<1>1. CASE s.part = "data"
  <2> DEFINE holds == file.at[s.off].holds
  <2>1. holds \in Seq(Nat) /\ s.off \in Nat
    BY <1>1, FileTypes DEF IndInv, DataPlace, Item, Place
  <2>2. \/ v = Null
        \/ /\ v = Plain(Slot(s.off, i + 1))
           /\ i < Len(holds)
           /\ holds[i + 1] = n
        \/ \E j \in 1..Len(holds) : holds[j] = n /\ v = Plain(Slot(s.off, j))
    <3> DEFINE slots == {j \in 1..Len(holds) : holds[j] = n}
    <3>1. v \in IF i >= Len(holds) \/ slots = {} THEN {Null}
                ELSE IF holds[i + 1] = n THEN {Plain(Slot(s.off, i + 1))}
                ELSE {Plain(Slot(s.off, j)) :
                         j \in {k \in slots : \A l \in slots : k <= l}}
      BY <1>1, Zenon DEF FromObjectStream
    <3>2. i < Len(holds) \/ i >= Len(holds)
      <4>1. Len(holds) \in Nat
        BY <2>1, LenProperties
      <4> HIDE DEF holds
      <4> QED
        BY <4>1
    <3>3. \A j \in slots : j \in 1..Len(holds) /\ holds[j] = n
      OBVIOUS
    <3> HIDE DEF holds, slots
    <3> QED
      BY <3>1, <3>2, <3>3, Zenon
  <2>3. ASSUME NEW j \in 1..Len(holds), holds[j] = n, v = Plain(Slot(s.off, j))
        PROVE  v \in Object \cup {Null} /\ FromFile(n, v)
    BY <2>1, <2>3 DEF Plain, Slot, Object, Place, FromFile
  <2>4. CASE v = Null
    BY <2>4 DEF FromFile
  <2>5. CASE i < Len(holds) /\ holds[i + 1] = n /\ v = Plain(Slot(s.off, i + 1))
    <3>1. i + 1 \in 1 .. Len(holds)
      BY <2>1, <2>5, LenProperties
    <3> QED
      BY <2>3, <2>5, <3>1
  <2>6. QED
    BY <2>2, <2>3, <2>4, <2>5
<1>2. CASE s.part # "data"
  <2>1. v = Null \/ v = Plain(s)
    BY <1>2 DEF FromObjectStream
  <2>2. QED
    BY <1>2, <2>1 DEF Plain, Object, FromFile, DataPlace
<1>3. QED
  BY <1>1, <1>2

LEMMA ReadsInv ==
    ASSUME IndInv, ~Idle, NEW n \in Nat, n = Top.num,
           FreeEntry(n) \/ LoadNothing(n) \/ LoadPlain(n) \/ LoadFromObjectStream(n)
    PROVE  IndInv'
<1>0. /\ TypeOK /\ DataPlaces /\ FromFile(n, Null)
      /\ HasEntry(n) => entries[n] \in XRefEntry /\ n \in DOMAIN entries
  BY DEF IndInv, FromFile, TypeOK, HasEntry
<1>1. CASE FreeEntry(n)
  BY <1>0, <1>1, ReturnInv DEF FreeEntry, TypeOK, DataPlaces
<1>2. CASE LoadNothing(n)
  <2>1. position' \in Place /\ DataPlace(position')
    BY <1>0, <1>2 DEF LoadNothing, At, Place, DataPlace, InUse, XRefEntry
  <2>2. \A k \in DOMAIN objectStreams' :
           objectStreams'[k] \in Place /\ DataPlace(objectStreams'[k])
    BY <1>0, <1>2 DEF LoadNothing, TypeOK, DataPlaces
  <2>3. QED
    BY <1>0, <1>2, <2>1, <2>2, ReturnInv DEF LoadNothing, TypeOK
<1>3. CASE LoadPlain(n)
  <2> DEFINE o == entries[n].offset
             item == file.at[o]
             w == IF item.kind = "link" THEN Link(At(o, "head"), item.to)
                                        ELSE Plain(At(o, "head"))
             v == Verified(n, item, w)
  <2>1. o \in DOMAIN file.at /\ o \in Nat /\ item \in Item
    BY <1>0, <1>3, FileTypes DEF LoadPlain
  <2>3. /\ At(o, "head") \in Place
        /\ At(o, "head").part = "head"
        /\ At(o, "head").off = o
    BY <2>1, PlaceFacts
  <2>9. item.to \in Nat
    BY <2>1 DEF Item
  <2>2. w \in Object /\ w # Null /\ w.src = At(o, "head") /\ w.kind # "stream"
    BY <2>3, <2>9, ReadFacts
  <2> HIDE DEF w
  <2>8. v \in Object \cup {Null} /\ FromFile(n, v)
    <3>1. CASE item.num = n
      BY <2>2, <2>3, <3>1 DEF Verified, FromFile
    <3>2. CASE item.num # n
      BY <3>2 DEF Verified, FromFile
    <3> QED
      BY <3>1, <3>2
  <2>4. position' \in Place /\ DataPlace(position')
    <3>1. position' = At(o, "end")
      BY <1>3 DEF LoadPlain
    <3> QED
      BY <2>1, <3>1, PlaceFacts DEF DataPlace
  <2>5. Return(n, v) /\ InUse(n)
    BY <1>3 DEF LoadPlain, w
  <2>6. \A k \in DOMAIN objectStreams' :
           objectStreams'[k] \in Place /\ DataPlace(objectStreams'[k])
    BY <1>0, <1>3 DEF LoadPlain, TypeOK, DataPlaces
  <2> HIDE DEF v
  <2>7. QED
    BY <1>0, <1>3, <2>8, <2>4, <2>5, <2>6, ReturnInv, SMTT(30) DEF LoadPlain, TypeOK, InUse
<1>4. CASE LoadFromObjectStream(n)
  <2>1. PICK v \in FromObjectStream(n, entries[n].offset, objectStreams[Container(n)]) :
           Return(n, v)
    BY <1>4 DEF LoadFromObjectStream
  <2>2. /\ objectStreams[Container(n)] \in Place
        /\ DataPlace(objectStreams[Container(n)])
        /\ entries[n].offset \in Nat
        /\ n \in DOMAIN entries
    BY <1>0, <1>4 DEF LoadFromObjectStream, TypeOK, DataPlaces, Compressed, XRefEntry
  <2>3. v \in Object \cup {Null} /\ FromFile(n, v)
    BY <2>1, <2>2, ObjectStreamYields
  <2>4. QED
    BY <1>0, <1>4, <2>1, <2>2, <2>3, ReturnInv DEF LoadFromObjectStream, TypeOK, DataPlaces
<1>5. QED
  BY <1>1, <1>2, <1>3, <1>4

LEMMA ReadStreamDataInv == IndInv /\ ReadStreamData => IndInv'
<1> SUFFICES ASSUME IndInv, ReadStreamData PROVE IndInv'
  OBVIOUS
<1> DEFINE n == Top.num
           o == entries[n].offset
<1>1. ~Idle /\ Top.stage = "data" /\ n \in Nat /\ FrameOK(Top)
  BY StackFrames DEF ReadStreamData, Frame
<1>2. /\ n \in DOMAIN entries /\ o \in DOMAIN file.at /\ o \in Nat
      /\ position \in Place /\ DataPlace(position)
  BY <1>1, FileTypes DEF FrameOK, InUse, HasEntry, IndInv, TypeOK, DataPlaces
<1>3. PICK w \in StreamRead(o) : /\ Return(n, Verified(n, file.at[o], w))
                                 /\ position' = At(position.off, "end")
  BY SMTT(30) DEF ReadStreamData
<1>4. w = Plain(At(o, "head")) \/ w = Stream(position)
  BY <1>3, SMTT(30) DEF StreamRead
<1>5. /\ w \in Object
      /\ w.src \in Place
      /\ w.kind = "stream" => DataPlace(w.src)
      /\ w.src.part = "head" => w.src.off = o
      /\ w.src.part # "slot"
  BY <1>2, <1>4, SMTT(30) DEF Plain, Stream, At, Place, Object, DataPlace
<1> DEFINE v == Verified(n, file.at[o], w)
<1>6. v \in Object \cup {Null} /\ FromFile(n, v)
  BY <1>5 DEF Verified, FromFile
<1>7. position' \in Place /\ DataPlace(position')
  BY <1>2, <1>3 DEF At, Place, DataPlace
<1>8. \A k \in DOMAIN objectStreams' :
         objectStreams'[k] \in Place /\ DataPlace(objectStreams'[k])
  BY DEF ReadStreamData, IndInv, TypeOK, DataPlaces
<1>9. DOMAIN objectStreams' \subseteq Nat /\ UNCHANGED <<file, open, entries>>
  BY DEF ReadStreamData, IndInv, TypeOK
<1>10. Return(n, v)
  BY <1>3
<1> HIDE DEF v, n, o
<1>11. QED
  BY <1>1, <1>2, <1>6, <1>7, <1>8, <1>9, <1>10, ReturnInv

LEMMA ObjectStreamLoadedInv == IndInv /\ ObjectStreamLoaded => IndInv'
<1> SUFFICES ASSUME IndInv, ObjectStreamLoaded PROVE IndInv'
  OBVIOUS
<1> DEFINE n == Top.num
<1>1. ~Idle /\ Top.stage = "container" /\ n \in Nat /\ FrameOK(Top)
  BY StackFrames DEF ObjectStreamLoaded, Frame
<1>2. /\ n \in DOMAIN entries /\ entries[n] \in XRefEntry
      /\ TypeOK /\ DataPlaces /\ FromFile(n, Null)
  BY <1>1 DEF FrameOK, Compressed, HasEntry, IndInv, TypeOK, FromFile
<1>3. UNCHANGED <<file, open, entries, position>>
  BY DEF ObjectStreamLoaded
<1>4. CASE result.kind # "stream"
  <2>1. Return(n, Null) /\ UNCHANGED objectStreams
    BY <1>4 DEF ObjectStreamLoaded
  <2>2. QED
    BY <1>1, <1>2, <1>3, <2>1, ReturnInv DEF TypeOK, DataPlaces
<1>5. CASE result.kind = "stream"
  <2>1. /\ objectStreams' = With(objectStreams, Container(n), result.src)
        /\ \E v \in FromObjectStream(n, entries[n].offset, result.src) : Return(n, v)
    BY <1>5 DEF ObjectStreamLoaded
  <2>2. result.src \in Place /\ DataPlace(result.src) /\ Container(n) \in Nat
    BY <1>2, <1>5 DEF TypeOK, DataPlaces, Object, Null, NoResult, Container, XRefEntry
  <2>3. /\ DOMAIN objectStreams' \subseteq Nat
        /\ \A k \in DOMAIN objectStreams' :
              objectStreams'[k] \in Place /\ DataPlace(objectStreams'[k])
    BY <1>2, <2>1, <2>2 DEF With, TypeOK, DataPlaces
  <2>4. PICK v \in FromObjectStream(n, entries[n].offset, result.src) : Return(n, v)
    BY <2>1
  <2>5. v \in Object \cup {Null} /\ FromFile(n, v)
    BY <1>1, <1>2, <2>2, <2>4, ObjectStreamYields DEF XRefEntry
  <2>6. position' \in Place /\ DataPlace(position')
    BY <1>2, <1>3 DEF TypeOK, DataPlaces
  <2> HIDE DEF n
  <2>7. QED
    BY <1>1, <1>2, <1>3, <2>3, <2>4, <2>5, <2>6, ReturnInv
<1>6. QED
  BY <1>4, <1>5

LEMMA StackStepsInv ==
    ASSUME IndInv, ~Idle, NEW n \in Nat, n = Top.num,
           \/ CacheHit \/ LengthChained \/ LengthResolved
           \/ BeginStream(n) \/ OpenObjectStream(n)
    PROVE  IndInv'
<1>0. /\ TypeOK /\ DataPlaces
      /\ Top \in Frame /\ FrameOK(Top)
      /\ \A i \in 1..Len(Callers) :
            FrameOK(Callers[i]) /\ (open \/ Callers[i].stage = "get")
      /\ \A i \in 1..Len(stack) :
            FrameOK(stack[i]) /\ (open \/ stack[i].stage = "get")
  BY StackFrames DEF IndInv, FramesOK, ClosedOK
<1>1. /\ result.kind = "stream" => DataPlace(result.src)
      /\ NoResult.kind # "stream"
      /\ position \in Place /\ DataPlace(position)
  BY <1>0 DEF TypeOK, DataPlaces, NoResult
<1>2. \A k \in Nat : /\ FrameOK([num |-> k, stage |-> "get"])
                     /\ [num |-> k, stage |-> "get"].stage = "get"
  BY DEF FrameOK
<1>3. CASE CacheHit
  <2>1. /\ result' \in Object \cup {Null, NoResult}
        /\ result'.kind = "stream" => DataPlace(result'.src)
    BY <1>0, <1>3 DEF CacheHit, TypeOK, DataPlaces
  <2>2. stack' \in Seq(Frame) /\ stack' = Callers
    BY <1>0, <1>3, StackTypes DEF CacheHit
  <2>3. QED
    BY <1>0, <1>1, <1>3, <2>1, <2>2, StackInv DEF CacheHit
<1>4. CASE LengthChained
  <2>1. open /\ result.to \in Nat
    BY <1>0, <1>4, StackFrames DEF LengthChained, TypeOK, Object, Null, NoResult
  <2>2. /\ stack' \in Seq(Frame)
        /\ \A i \in 1..Len(stack') : FrameOK(stack'[i])
    BY <1>0, <1>2, <1>4, <2>1, StackTypes, StackFrames DEF LengthChained
  <2>3. QED
    BY <1>1, <1>4, <2>1, <2>2, StackInv DEF LengthChained
<1>5. CASE LengthResolved
  <2>1. open /\ Top.stage = "length"
    BY <1>5, StackFrames DEF LengthResolved
  <2>2. FrameOK([Top EXCEPT !.stage = "data"])
    BY <1>0, <2>1 DEF FrameOK, Frame
  <2>3. stack' \in Seq(Frame) /\ \A i \in 1..Len(stack') : FrameOK(stack'[i])
    BY <1>0, <1>5, <2>2, StackTypes, StackFrames DEF LengthResolved
  <2>4. QED
    BY <1>0, <1>1, <1>5, <2>1, <2>3, StackInv DEF LengthResolved, TypeOK
<1>6. CASE BeginStream(n)
  <2> DEFINE o == entries[n].offset
  <2>1. /\ open /\ InUse(n) /\ n \in DOMAIN entries
        /\ o \in DOMAIN file.at /\ o \in Nat /\ file.at[o] \in Item
    BY <1>0, <1>6, FileTypes DEF BeginStream, InUse, HasEntry, TypeOK, XRefEntry
  <2>2. \A s \in {"data", "length"} : FrameOK([Top EXCEPT !.stage = s])
    BY <1>0, <2>1 DEF FrameOK, Frame
  <2>3. /\ position' \in Place /\ DataPlace(position')
        /\ result' = NoResult
        /\ UNCHANGED <<file, open, entries, cache, objectStreams>>
    BY <1>6, <2>1 DEF BeginStream, At, Place, DataPlace
  <2>4. CASE stack' = Enter("data")
    <3>1. stack' \in Seq(Frame) /\ \A i \in 1..Len(stack') : FrameOK(stack'[i])
      BY <1>0, <2>2, <2>4, StackTypes, StackFrames, ZenonT(40)
    <3>2. QED
      BY <1>1, <2>1, <2>3, <3>1, StackInv
  <2>5. CASE stack' = EnterAndPush("length", file.at[o].to)
    <3>1. file.at[o].to \in Nat
      BY <2>1 DEF Item
    <3>2. \A i \in 1..Len(Enter("length")) : FrameOK(Enter("length")[i])
      BY <1>0, <2>2, StackFrames
    <3>0. PICK l \in Nat : l = file.at[o].to
      BY <3>1
    <3>3. /\ EnterAndPush("length", l) \in Seq(Frame)
          /\ \A i \in 1..Len(EnterAndPush("length", l)) :
                FrameOK(EnterAndPush("length", l)[i])
      <4>1. EnterAndPush("length", l) \in Seq(Frame)
        BY <1>0, StackTypes
      <4>2. ASSUME NEW i \in 1..Len(EnterAndPush("length", l))
            PROVE  FrameOK(EnterAndPush("length", l)[i])
        <5>1. \/ /\ i \in 1..Len(Enter("length"))
                 /\ EnterAndPush("length", l)[i] = Enter("length")[i]
              \/ EnterAndPush("length", l)[i] = [num |-> l, stage |-> "get"]
          BY StackFrames
        <5>2. QED
          BY <1>2, <3>2, <5>1
      <4>3. QED
        BY <4>1, <4>2
    <3>4. stack' \in Seq(Frame) /\ \A i \in 1..Len(stack') : FrameOK(stack'[i])
      BY <2>5, <3>0, <3>3
    <3>5. QED
      BY <1>1, <2>1, <2>3, <3>4, StackInv
  <2>6. QED
    BY <1>6, <2>4, <2>5 DEF BeginStream
<1>7. CASE OpenObjectStream(n)
  <2>1. open /\ Compressed(n) /\ Container(n) \in Nat
    BY <1>0, <1>7 DEF OpenObjectStream, Compressed, HasEntry, Container, TypeOK, XRefEntry
  <2>2. FrameOK([Top EXCEPT !.stage = "container"])
    BY <1>0, <2>1 DEF FrameOK, Frame
  <2>3. \A i \in 1..Len(Enter("container")) : FrameOK(Enter("container")[i])
    BY <1>0, <2>2, StackFrames
  <2>4. stack' \in Seq(Frame) /\ \A i \in 1..Len(stack') : FrameOK(stack'[i])
    BY <1>0, <1>2, <1>7, <2>1, <2>3, StackTypes, StackFrames DEF OpenObjectStream
  <2>5. QED
    BY <1>1, <1>7, <2>1, <2>4, StackInv DEF OpenObjectStream
<1>8. QED
  BY <1>3, <1>4, <1>5, <1>6, <1>7

LEMMA NextIndInv == IndInv /\ [Next]_vars => IndInv'
<1> SUFFICES ASSUME IndInv, [Next]_vars PROVE IndInv'
  OBVIOUS
<1>1. CASE Call
  BY <1>1, CallInv
<1>2. CASE Continue
  <2>1. ~Idle /\ Top.num \in Nat
    BY <1>2, StackFrames
    DEF Continue, CacheHit, LengthChained, LengthResolved, ReadStreamData,
        ObjectStreamLoaded, Frame
  <2>2. QED
    BY <1>2, <2>1, ReadsInv, ReadStreamDataInv, ObjectStreamLoadedInv, StackStepsInv
    DEF Continue, Load
<1>3. CASE UNCHANGED vars
  BY <1>3 DEF vars, IndInv, TypeOK, DataPlaces, DataPlace, FramesOK, FrameOK,
              ClosedOK, FiledUnderOwnNumber, InUse, Compressed, HasEntry
<1>4. QED
  BY <1>1, <1>2, <1>3 DEF Next

LEMMA Invariance == Spec => []IndInv
  BY InitIndInv, NextIndInv, PTL DEF Spec

-----------------------------------------------------------------------------
(* Every state of the parser is well typed.                                *)
THEOREM TypeCorrect == Spec => []TypeOK
<1>1. IndInv => TypeOK
  BY DEF IndInv
<1>2. QED
  BY <1>1, Invariance, PTL

(* No sequence of calls, made before or after close(), makes the parser    *)
(* dereference the syntax parser that close() set to null.                 *)
THEOREM ClosedParserIsNeverRead == Spec => []NoNullParser
<1>1. IndInv => NoNullParser
  BY DEF IndInv, ClosedOK, NoNullParser, Missed, HasEntry
<1>2. QED
  BY <1>1, Invariance, PTL

(* Whatever offsets and indices the cross-reference table gives, an object *)
(* taken from the file is cached under the number it has in the file.      *)
THEOREM ObjectsKeepTheirNumber == Spec => []FiledUnderOwnNumber
<1>1. IndInv => FiledUnderOwnNumber
  BY DEF IndInv
<1>2. QED
  BY <1>1, Invariance, PTL

-----------------------------------------------------------------------------
(* Nested loads.                                                           *)

(* The nesting follows what the file says an object needs: in a file where *)
(* that has an end, ranks fall from each activation to the one it started. *)
IsRank(rank) == rank \in [Nat -> Nat]
Acyclic(f) == \E rank : IsRank(rank) /\ RankedBy(f, rank)

Stages == {"get", "length", "data", "container"}

(* An entry whose object is still to be loaded is the file's own.          *)
OwnEntries ==
    \A n \in DOMAIN entries \ DOMAIN cache :
        HasEntry(n) => n \in DOMAIN file.entries /\ entries[n] = file.entries[n]

LinksFall(rank) ==
    \A n \in DOMAIN cache :
        cache[n].kind = "link" => rank[cache[n].to] < rank[n]

StackFalls(rank) ==
    \A i, j \in 1..Len(stack) : i < j => rank[stack[j].num] < rank[stack[i].num]

(* A reference that came back as a /Length is resolved further down.       *)
ResultFalls(rank) ==
    ~Idle /\ Top.stage = "length" /\ result.kind = "link"
        => rank[result.to] < rank[Top.num]

(* An activation that waits has not cached its object yet.                 *)
WaitingUncached ==
    \A i \in 1..Len(stack) : stack[i].stage # "get" => stack[i].num \notin DOMAIN cache

Orderly(rank) ==
    /\ OwnEntries
    /\ LinksFall(rank)
    /\ StackFalls(rank)
    /\ ResultFalls(rank)
    /\ WaitingUncached

LoadInv == \E rank : IsRank(rank) /\ RankedBy(file, rank) /\ Orderly(rank)

(* The stacks of the steps, activation by activation.                      *)
LEMMA StackShape ==
    ASSUME TypeOK, ~Idle
    PROVE  /\ Len(stack) \in Nat \ {0}
           /\ Top = stack[Len(stack)] /\ Top \in Frame
           /\ Len(Callers) = Len(stack) - 1
           /\ \A i \in 1..(Len(stack) - 1) : Callers[i] = stack[i]
           /\ \A s \in Stages :
                 /\ Len(Enter(s)) = Len(stack)
                 /\ \A i \in 1..(Len(stack) - 1) : Enter(s)[i] = stack[i]
                 /\ Enter(s)[Len(stack)] = [Top EXCEPT !.stage = s]
           /\ \A s \in Stages, n \in Nat :
                 /\ Len(EnterAndPush(s, n)) = Len(stack) + 1
                 /\ \A i \in 1..(Len(stack) - 1) : EnterAndPush(s, n)[i] = stack[i]
                 /\ EnterAndPush(s, n)[Len(stack)] = [Top EXCEPT !.stage = s]
                 /\ EnterAndPush(s, n)[Len(stack) + 1] = [num |-> n, stage |-> "get"]
           /\ \A n \in Nat :
                 /\ Len(Push(n)) = Len(stack) + 1
                 /\ \A i \in 1..Len(stack) : Push(n)[i] = stack[i]
                 /\ Push(n)[Len(stack) + 1] = [num |-> n, stage |-> "get"]
<1> DEFINE L == Len(stack)
<1>1. /\ L \in Nat \ {0} /\ Top = stack[L] /\ Top \in Frame
      /\ Callers \in Seq(Frame) /\ stack \in Seq(Frame)
      /\ Len(Callers) = L - 1
      /\ \A i \in 1..(L - 1) : Callers[i] = stack[i]
  BY PopStack DEF TypeOK, Idle, Callers, Top
<1>2. \A n \in Nat : [num |-> n, stage |-> "get"] \in Frame
  BY DEF Frame
<1>3. ASSUME NEW s \in Stages
      PROVE  /\ Enter(s) \in Seq(Frame)
             /\ Len(Enter(s)) = L
             /\ \A i \in 1..(L - 1) : Enter(s)[i] = stack[i]
             /\ Enter(s)[L] = [Top EXCEPT !.stage = s]
  <2> DEFINE f == [Top EXCEPT !.stage = s]
  <2>1. f \in Frame
    BY <1>1 DEF Frame, Stages
  <2> HIDE DEF f
  <2>2. /\ Append(Callers, f) \in Seq(Frame)
        /\ Len(Append(Callers, f)) = Len(Callers) + 1
        /\ \A i \in 1..Len(Callers) : Append(Callers, f)[i] = Callers[i]
        /\ Append(Callers, f)[Len(Callers) + 1] = f
    BY <1>1, <2>1, AppendProperties
  <2>3. Enter(s) = Append(Callers, f)
    BY DEF Enter, f
  <2> QED
    BY <1>1, <2>2, <2>3 DEF f
<1>4. ASSUME NEW s \in Stages, NEW n \in Nat
      PROVE  /\ Len(EnterAndPush(s, n)) = L + 1
             /\ \A i \in 1..(L - 1) : EnterAndPush(s, n)[i] = stack[i]
             /\ EnterAndPush(s, n)[L] = [Top EXCEPT !.stage = s]
             /\ EnterAndPush(s, n)[L + 1] = [num |-> n, stage |-> "get"]
  <2>1. /\ Len(EnterAndPush(s, n)) = Len(Enter(s)) + 1
        /\ \A i \in 1..Len(Enter(s)) : EnterAndPush(s, n)[i] = Enter(s)[i]
        /\ EnterAndPush(s, n)[Len(Enter(s)) + 1] = [num |-> n, stage |-> "get"]
    BY <1>2, <1>3, AppendProperties DEF EnterAndPush
  <2> QED
    BY <1>1, <1>3, <2>1
<1>5. ASSUME NEW n \in Nat
      PROVE  /\ Len(Push(n)) = L + 1
             /\ \A i \in 1..L : Push(n)[i] = stack[i]
             /\ Push(n)[L + 1] = [num |-> n, stage |-> "get"]
  BY <1>1, <1>2, AppendProperties DEF Push
<1> QED
  BY <1>1, <1>3, <1>4, <1>5

(* An activation returns.                                                  *)
LEMMA PopOrder ==
    ASSUME NEW rank, IsRank(rank), TypeOK, ~Idle, Orderly(rank),
           stack' = Callers,
           result'.kind = "link" => /\ result'.to \in Nat
                                    /\ rank[result'.to] < rank[Top.num],
           DOMAIN cache' \subseteq DOMAIN cache \cup {Top.num}
    PROVE  StackFalls(rank)' /\ ResultFalls(rank)' /\ WaitingUncached'
<1> DEFINE L == Len(stack)
<1>1. /\ L \in Nat \ {0} /\ Top = stack[L]
      /\ Len(stack') = L - 1
      /\ \A i \in 1..(L - 1) : stack'[i] = stack[i]
  BY StackShape
<1>2. \A i \in 1..L : stack[i] \in Frame
  BY ElementOfSeq DEF TypeOK
<1>a. \A i, j \in 1..L : i < j => rank[stack[j].num] < rank[stack[i].num]
  BY DEF Orderly, StackFalls
<1>b. \A i \in 1..L : stack[i].stage # "get" => stack[i].num \notin DOMAIN cache
  BY DEF Orderly, WaitingUncached
<1>3. \A i \in 1..(L - 1) : rank[Top.num] < rank[stack[i].num]
  <2> SUFFICES ASSUME NEW i \in 1..(L - 1)
               PROVE  rank[Top.num] < rank[stack[i].num]
    OBVIOUS
  <2>1. i \in 1..L /\ L \in 1..L /\ i < L
    BY <1>1
  <2> QED
    BY <1>1, <1>a, <2>1
<1>n. \A i \in 1..L : rank[stack[i].num] \in Nat
  BY <1>2 DEF Frame, IsRank
<1>4. StackFalls(rank)'
  BY <1>1, <1>a DEF StackFalls
<1>5. WaitingUncached'
  <2>1. \A i \in 1..(L - 1) : stack[i].num # Top.num
    <3> SUFFICES ASSUME NEW i \in 1..(L - 1), stack[i].num = Top.num PROVE FALSE
      OBVIOUS
    <3>1. i \in 1..L
      BY <1>1
    <3> QED
      BY <1>3, <1>n, <3>1
  <2> QED
    BY <1>1, <2>1 DEF Orderly, WaitingUncached
<1>6. ResultFalls(rank)'
  <2> SUFFICES ASSUME stack' # <<>>, stack'[Len(stack')].stage = "length",
                      result'.kind = "link"
               PROVE  rank[result'.to] < rank[stack'[Len(stack')].num]
    BY DEF ResultFalls, Idle, Top
  <2>1. L - 1 \in 1..(L - 1)
    <3>1. stack' \in Seq(Frame)
      BY StackTypes
    <3> QED
      BY <1>1, <3>1, EmptySeq
  <2>2. stack'[Len(stack')] = stack[L - 1] /\ rank[Top.num] < rank[stack[L - 1].num]
    BY <1>1, <1>3, <2>1
  <2>3. rank[result'.to] \in Nat /\ rank[Top.num] \in Nat /\ rank[stack[L - 1].num] \in Nat
    <3>1. L \in 1..L /\ L - 1 \in 1..L
      BY <1>1, <2>1
    <3>2. rank[result'.to] \in Nat
      BY DEF IsRank
    <3> QED
      BY <1>1, <1>n, <3>1, <3>2
  <2> QED
    BY <2>2, <2>3
<1> QED
  BY <1>4, <1>5, <1>6

(* An activation goes on, or starts another one.                           *)
LEMMA EnterOrder ==
    ASSUME NEW rank, IsRank(rank), TypeOK, ~Idle, Orderly(rank),
           UNCHANGED cache, NEW s \in Stages, NEW n \in Nat,
           \/ /\ stack' = Enter("data")
              /\ Top.num \notin DOMAIN cache
           \/ /\ stack' = EnterAndPush(s, n)
              /\ Top.num \notin DOMAIN cache
              /\ rank[n] < rank[Top.num]
           \/ /\ stack' = Push(n)
              /\ rank[n] < rank[Top.num]
    PROVE  StackFalls(rank)' /\ ResultFalls(rank)' /\ WaitingUncached'
<1> DEFINE L == Len(stack)
<1>0. "data" \in Stages
  BY DEF Stages
<1>1. L \in Nat \ {0} /\ Top = stack[L] /\ Top \in Frame
  BY StackShape
<1>f. \A i \in 1..L : stack[i] \in Frame
  BY ElementOfSeq DEF TypeOK
<1>2. rank[n] \in Nat /\ \A i \in 1..L : rank[stack[i].num] \in Nat
  BY <1>f DEF Frame, IsRank
<1>3. \A t \in Stages : [Top EXCEPT !.stage = t].num = Top.num
                        /\ [Top EXCEPT !.stage = t].stage = t
  BY <1>1 DEF Frame
<1>4. CASE stack' = Enter("data") /\ Top.num \notin DOMAIN cache
  <2>1. /\ Len(stack') = L
        /\ \A i \in 1..(L - 1) : stack'[i] = stack[i]
        /\ stack'[L].num = Top.num /\ stack'[L].stage = "data"
    BY <1>0, <1>3, <1>4, StackShape
  <2>2. \A i \in 1..L : stack'[i].num = stack[i].num
    BY <1>1, <2>1
  <2>3. StackFalls(rank)'
    BY <1>1, <2>1, <2>2 DEF Orderly, StackFalls
  <2>4. WaitingUncached'
    BY <1>1, <1>4, <2>1 DEF Orderly, WaitingUncached
  <2>5. ResultFalls(rank)'
    BY <2>1 DEF ResultFalls, Top
  <2> QED
    BY <2>3, <2>4, <2>5
<1>5. CASE /\ \/ stack' = EnterAndPush(s, n) /\ Top.num \notin DOMAIN cache
              \/ stack' = Push(n)
           /\ rank[n] < rank[Top.num]
  <2>1. /\ Len(stack') = L + 1
        /\ \A i \in 1..(L - 1) : stack'[i] = stack[i]
        /\ stack'[L].num = Top.num
        /\ stack'[L].stage # "get" => Top.num \notin DOMAIN cache
        /\ stack'[L + 1].num = n /\ stack'[L + 1].stage = "get"
    <3>1. CASE stack' = EnterAndPush(s, n) /\ Top.num \notin DOMAIN cache
      <4>1. [Top EXCEPT !.stage = s].num = Top.num
        BY <1>3
      <4>2. /\ Len(stack') = L + 1
            /\ \A i \in 1..(L - 1) : stack'[i] = stack[i]
            /\ stack'[L] = [Top EXCEPT !.stage = s]
            /\ stack'[L + 1] = [num |-> n, stage |-> "get"]
        BY <3>1, StackShape
      <4> QED
        BY <1>5, <3>1, <4>1, <4>2
    <3>2. CASE stack' = Push(n)
      <4>1. /\ Len(stack') = L + 1
            /\ \A i \in 1..L : stack'[i] = stack[i]
            /\ stack'[L + 1] = [num |-> n, stage |-> "get"]
        BY <3>2, StackShape
      <4>2. L \in 1..L /\ \A i \in 1..(L - 1) : i \in 1..L
        BY <1>1
      <4>3. stack'[L] = Top
        BY <1>1, <4>1, <4>2
      <4>4. Top.stage # "get" => Top.num \notin DOMAIN cache
        BY <1>1, <4>2 DEF Orderly, WaitingUncached
      <4> QED
        BY <4>1, <4>2, <4>3, <4>4
    <3> QED
      BY <1>5, <3>1, <3>2
  <2>2. \A i \in 1..L : stack'[i].num = stack[i].num
    BY <1>1, <2>1
  <2>3. \A i \in 1..L : rank[n] < rank[stack[i].num]
    <3>1. \A i \in 1..(L - 1) : rank[Top.num] < rank[stack[i].num]
      BY <1>1 DEF Orderly, StackFalls
    <3> QED
      BY <1>1, <1>2, <1>5, <3>1
  <2>4. StackFalls(rank)'
    <3> SUFFICES ASSUME NEW i \in 1..(L + 1), NEW j \in 1..(L + 1), i < j
                 PROVE  rank[stack'[j].num] < rank[stack'[i].num]
      BY <2>1 DEF StackFalls
    <3>1. i \in 1..L /\ (j \in 1..L \/ j = L + 1)
      BY <1>1
    <3>2. j \in 1..L => rank[stack[j].num] < rank[stack[i].num]
      BY <3>1 DEF Orderly, StackFalls
    <3> QED
      BY <2>1, <2>2, <2>3, <3>1, <3>2
  <2>5. WaitingUncached'
    <3>1. \A i \in 1..(L - 1) : stack'[i].stage # "get" => stack'[i].num \notin DOMAIN cache
      BY <1>1, <2>1 DEF Orderly, WaitingUncached
    <3> QED
      BY <1>1, <2>1, <3>1 DEF WaitingUncached
  <2>6. ResultFalls(rank)'
    BY <2>1 DEF ResultFalls, Top
  <2> QED
    BY <2>4, <2>5, <2>6
<1> QED
  BY <1>4, <1>5, Zenon

LEMMA ReturnOrder ==
    ASSUME NEW rank, IsRank(rank), IndInv, ~Idle, Orderly(rank),
           NEW n \in Nat, n = Top.num, NEW v \in Object \cup {Null},
           v.kind = "link" => rank[v.to] < rank[n],
           v # Null => n \in DOMAIN entries,
           Return(n, v), UNCHANGED <<file, entries>>
    PROVE  Orderly(rank)'
<1> DEFINE obj == IF v = Null THEN Null ELSE [v EXCEPT !.gen = entries[n].gen]
<1>1. /\ obj.kind = "link" => v.kind = "link" /\ obj.to = v.to /\ obj.to \in Nat
  BY DEF Object, Null
<1>2. cache' = With(cache, n, obj) /\ result' = obj /\ stack' = Callers
  BY DEF Return
<1> HIDE DEF obj
<1>3. /\ DOMAIN cache' = DOMAIN cache \cup {n}
      /\ \A k \in DOMAIN cache' : cache'[k] = IF k = n THEN obj ELSE cache[k]
  BY <1>2 DEF With
<1>4. OwnEntries'
  BY <1>3 DEF Orderly, OwnEntries, HasEntry
<1>5. LinksFall(rank)'
  BY <1>1, <1>3 DEF Orderly, LinksFall
<1>6. StackFalls(rank)' /\ ResultFalls(rank)' /\ WaitingUncached'
  BY <1>1, <1>2, <1>3, PopOrder DEF IndInv
<1> QED
  BY <1>4, <1>5, <1>6 DEF Orderly

(* What the file says an entry that is still to be loaded needs.           *)
LEMMA OwnNeeds ==
    ASSUME NEW rank, IsRank(rank), IndInv, RankedBy(file, rank), Orderly(rank),
           NEW n \in Nat, n \notin DOMAIN cache, HasEntry(n)
    PROVE  /\ entries[n].type = 2 => rank[entries[n].gen] < rank[n]
           /\ entries[n].type = 1 /\ entries[n].offset \in DOMAIN file.at =>
                LET item == file.at[entries[n].offset]
                IN  item.kind = "link" \/ (item.kind # "value" /\ item.to # 0)
                       => rank[item.to] < rank[n]
<1>1. n \in DOMAIN file.entries /\ entries[n] = file.entries[n]
  BY DEF Orderly, OwnEntries, HasEntry
<1> DEFINE e == file.entries[n]
<1>2. \A m \in NeedsOf(file, n) : rank[m] < rank[n]
  BY <1>1 DEF RankedBy
<1>3. e.type = 2 => e.gen \in NeedsOf(file, n)
  <2>1. e.type = 2 => NeedsOf(file, n) = {e.gen}
    BY Zenon DEF NeedsOf
  <2> QED
    BY <2>1, Zenon
<1>4. /\ e.type = 1 /\ e.offset \in DOMAIN file.at
      /\ file.at[e.offset].kind = "link"
            \/ (file.at[e.offset].kind # "value" /\ file.at[e.offset].to # 0)
      => file.at[e.offset].to \in NeedsOf(file, n)
  BY SMTT(30) DEF NeedsOf
<1> QED
  BY <1>1, <1>2, <1>3, <1>4

LEMMA CallOrder ==
    ASSUME NEW rank, IsRank(rank), IndInv, Orderly(rank), Call
    PROVE  Orderly(rank)'
<1>0. TypeOK /\ Idle
  BY DEF IndInv, Call, GetIndirectObject, AddIndirectObject, ReplaceIndirectObject,
         DeleteIndirectObject, Close
<1> DEFINE Quiet == stack' = <<>>
<1>1. Quiet => StackFalls(rank)' /\ ResultFalls(rank)' /\ WaitingUncached'
  BY DEF StackFalls, ResultFalls, WaitingUncached, Idle
<1>2. ASSUME NEW n \in ObjNum \ {0}, GetIndirectObject(n)
      PROVE  Orderly(rank)'
  <2>1. stack' = <<[num |-> n, stage |-> "get"]>>
    BY <1>2 DEF GetIndirectObject, Push, Idle
  <2>2. Len(stack') = 1 /\ stack'[1].stage = "get"
    BY <2>1
  <2>3. StackFalls(rank)' /\ ResultFalls(rank)' /\ WaitingUncached'
    BY <2>2 DEF StackFalls, ResultFalls, WaitingUncached, Top
  <2>4. OwnEntries' /\ LinksFall(rank)'
    BY <1>2 DEF GetIndirectObject, Orderly, OwnEntries, LinksFall, HasEntry
  <2> QED
    BY <2>3, <2>4 DEF Orderly
<1>3. ASSUME NEW n \in ObjNum, NEW v \in Edit, AddIndirectObject(n, v)
      PROVE  Orderly(rank)'
  <2>1. /\ DOMAIN cache' = DOMAIN cache \cup {n}
        /\ \A k \in DOMAIN cache' : cache'[k] = IF k = n THEN Plain(v) ELSE cache[k]
        /\ DOMAIN entries' = DOMAIN entries \cup {n}
        /\ \A k \in DOMAIN entries' : k # n => entries'[k] = entries[k]
        /\ Quiet /\ file' = file
    BY <1>0, <1>3 DEF AddIndirectObject, With, Idle
  <2>2. OwnEntries' /\ LinksFall(rank)'
    BY <2>1 DEF Orderly, OwnEntries, LinksFall, HasEntry, Plain
  <2> QED
    BY <1>1, <2>1, <2>2 DEF Orderly
<1>4. ASSUME NEW n \in Replaceable, NEW v \in Edit, ReplaceIndirectObject(n, v)
      PROVE  Orderly(rank)'
  <2>1. /\ DOMAIN cache' = DOMAIN cache \cup {n}
        /\ \A k \in DOMAIN cache' : cache'[k] = IF k = n THEN Plain(v) ELSE cache[k]
        /\ Quiet /\ file' = file /\ entries' = entries
    BY <1>0, <1>4 DEF ReplaceIndirectObject, With, Idle
  <2>2. OwnEntries' /\ LinksFall(rank)'
    BY <2>1 DEF Orderly, OwnEntries, LinksFall, HasEntry, Plain
  <2> QED
    BY <1>1, <2>1, <2>2 DEF Orderly
<1>5. ASSUME NEW n \in Deletable, DeleteIndirectObject(n)
      PROVE  Orderly(rank)'
  <2>1. /\ DOMAIN cache' = DOMAIN cache \ {n}
        /\ \A k \in DOMAIN cache' : cache'[k] = cache[k]
        /\ DOMAIN entries' = DOMAIN entries
        /\ \A k \in DOMAIN entries : k # n => entries'[k] = entries[k]
        /\ Quiet /\ file' = file
    BY <1>0, <1>5 DEF DeleteIndirectObject, Without, Idle
  <2>2. n \in DOMAIN entries => entries'[n].type = 0
    BY <1>0, <1>5 DEF DeleteIndirectObject, TypeOK, XRefEntry
  <2>3. OwnEntries'
    BY <2>1, <2>2 DEF Orderly, OwnEntries, HasEntry
  <2>4. LinksFall(rank)'
    BY <2>1 DEF Orderly, LinksFall
  <2> QED
    BY <1>1, <2>1, <2>3, <2>4 DEF Orderly
<1>6. CASE Close
  <2>1. OwnEntries' /\ LinksFall(rank)'
    BY <1>6 DEF Close, OwnEntries, LinksFall, Nothing
  <2> QED
    BY <1>0, <1>1, <1>6, <2>1 DEF Close, Idle, Orderly
<1> QED
  BY <1>2, <1>3, <1>4, <1>5, <1>6 DEF Call

LEMMA ContinueOrder ==
    ASSUME NEW rank, IsRank(rank), IndInv, RankedBy(file, rank), Orderly(rank),
           Continue
    PROVE  Orderly(rank)'
<1> DEFINE n == Top.num
           e == entries[n]
<1>0. /\ TypeOK /\ ~Idle
      /\ n \in Nat /\ Top \in Frame /\ FrameOK(Top)
      /\ n \in DOMAIN entries => e \in XRefEntry
      /\ UNCHANGED <<file, entries>>
  BY StackFrames
  DEF IndInv, TypeOK, Continue, Load, CacheHit, LengthChained, LengthResolved,
      ReadStreamData, ObjectStreamLoaded, FreeEntry, LoadNothing, LoadPlain,
      BeginStream, OpenObjectStream, LoadFromObjectStream, Missed, Frame
<1>1. UNCHANGED cache => OwnEntries' /\ LinksFall(rank)'
  BY <1>0 DEF Orderly, OwnEntries, LinksFall, HasEntry
<1>2. Top = stack[Len(stack)] /\ Len(stack) \in 1..Len(stack)
  BY <1>0, StackShape
<1>3. Top.stage # "get" => n \notin DOMAIN cache
  BY <1>2 DEF Orderly, WaitingUncached
<1>4. Null \in Object \cup {Null} /\ Null.kind # "link"
  BY DEF Null
<1>5. \A w \in Object \cup {Null} : w.kind = "link" => w.to \in Nat
  BY DEF Object, Null
<1>6. \A s : Plain(s).kind # "link" /\ Stream(s).kind # "link"
  BY DEF Plain, Stream
<1>7. CASE CacheHit
  <2>1. result' = cache[n] /\ n \in DOMAIN cache /\ UNCHANGED cache /\ stack' = Callers
    BY <1>7 DEF CacheHit
  <2>2. result'.kind = "link" => result'.to \in Nat /\ rank[result'.to] < rank[n]
    BY <1>0, <1>5, <2>1 DEF TypeOK, Orderly, LinksFall
  <2>3. DOMAIN cache' \subseteq DOMAIN cache \cup {Top.num}
    BY <2>1
  <2> QED
    BY <1>0, <1>1, <2>1, <2>2, <2>3, PopOrder DEF Orderly
<1>8. CASE LengthChained
  <2>1. /\ UNCHANGED cache /\ stack' = Push(result.to)
        /\ rank[result.to] < rank[n] /\ result.kind = "link"
    BY <1>0, <1>8 DEF LengthChained, Orderly, ResultFalls
  <2>2. PICK m \in Nat : m = result.to
    BY <1>0, <2>1 DEF TypeOK, Object, Null, NoResult
  <2>3. "get" \in Stages
    BY DEF Stages
  <2> QED
    BY <1>0, <1>1, <2>1, <2>2, <2>3, EnterOrder DEF Orderly
<1>9. CASE LengthResolved
  <2>1. UNCHANGED cache /\ stack' = Enter("data") /\ n \notin DOMAIN cache
    BY <1>3, <1>9 DEF LengthResolved
  <2>3. "get" \in Stages /\ 0 \in Nat
    BY DEF Stages
  <2> QED
    BY <1>0, <1>1, <2>1, <2>3, EnterOrder DEF Orderly
<1>10. CASE ReadStreamData
  <2>1. n \in DOMAIN entries
    BY <1>0, <1>10 DEF ReadStreamData, FrameOK, InUse, HasEntry
  <2>2. PICK w \in StreamRead(e.offset) : Return(n, Verified(n, file.at[e.offset], w))
    BY <1>10 DEF ReadStreamData
  <2>3. w = Plain(At(e.offset, "head")) \/ w = Stream(position)
    BY <2>2 DEF StreamRead
  <2>4. w \in Object
    BY <1>0, <2>1, <2>3 DEF Plain, Stream, At, Place, Object, TypeOK, XRefEntry
  <2> DEFINE v == Verified(n, file.at[e.offset], w)
  <2>5. v \in Object \cup {Null} /\ v.kind # "link"
    BY <1>4, <1>6, <2>3, <2>4 DEF Verified
  <2>6. Return(n, v)
    BY <2>2
  <2> HIDE DEF v, n
  <2> QED
    BY <1>0, <2>1, <2>5, <2>6, ReturnOrder DEF n
<1>11. ASSUME NEW c \in {"loaded", "opened"},
              c = "loaded" => ObjectStreamLoaded,
              c = "opened" => LoadFromObjectStream(n)
       PROVE  Orderly(rank)'
  <2>1. n \in DOMAIN entries
    BY <1>0, <1>11 DEF ObjectStreamLoaded, LoadFromObjectStream, FrameOK, Compressed, HasEntry
  <2>2. PICK v : /\ Return(n, v)
                 /\ \/ v = Null
                    \/ \E s \in Place : /\ DataPlace(s)
                                        /\ v \in FromObjectStream(n, e.offset, s)
    <3>1. CASE c = "loaded"
      <4>1. CASE result.kind # "stream"
        BY <1>11, <3>1, <4>1 DEF ObjectStreamLoaded
      <4>2. CASE result.kind = "stream"
        <5>1. result.src \in Place /\ DataPlace(result.src)
          BY <1>0, <4>2 DEF IndInv, TypeOK, DataPlaces, Object, Null, NoResult
        <5> QED
          BY <1>11, <3>1, <4>2, <5>1 DEF ObjectStreamLoaded
      <4> QED
        BY <4>1, <4>2
    <3>2. CASE c = "opened"
      <4>1. /\ Container(n) \in DOMAIN objectStreams
            /\ \E v \in FromObjectStream(n, e.offset, objectStreams[Container(n)]) : Return(n, v)
        BY <1>11, <3>2 DEF LoadFromObjectStream
      <4>2. objectStreams[Container(n)] \in Place /\ DataPlace(objectStreams[Container(n)])
        BY <4>1, SMTT(30) DEF IndInv, TypeOK, DataPlaces
      <4> QED
        BY <4>1, <4>2
    <3> QED
      BY <3>1, <3>2
  <2>3. e.offset \in Nat
    BY <1>0, <2>1, SMTT(30) DEF XRefEntry
  <2>4. v \in Object \cup {Null}
    BY <1>0, <1>4, <2>2, <2>3, ObjectStreamYields, SMTT(30)
  <2>5. v.kind # "link"
    BY <1>4, <1>6, <2>2 DEF FromObjectStream
  <2> HIDE DEF n
  <2> QED
    BY <1>0, <2>1, <2>2, <2>4, <2>5, ReturnOrder DEF n
<1>12. CASE FreeEntry(n)
  BY <1>0, <1>4, <1>12, ReturnOrder DEF FreeEntry
<1>13. CASE LoadNothing(n)
  BY <1>0, <1>4, <1>13, ReturnOrder DEF LoadNothing
<1>14. CASE LoadPlain(n)
  <2> DEFINE o == e.offset
             item == file.at[o]
             w == IF item.kind = "link" THEN Link(At(o, "head"), item.to)
                                        ELSE Plain(At(o, "head"))
             v == Verified(n, item, w)
  <2>1. /\ n \notin DOMAIN cache /\ n \in DOMAIN entries /\ HasEntry(n) /\ e.type = 1
        /\ o \in DOMAIN file.at /\ o \in Nat /\ item \in Item
        /\ Return(n, v)
    BY <1>0, <1>14, FileTypes DEF LoadPlain, Missed, InUse, HasEntry, XRefEntry
  <2>2. item.kind = "link" => rank[item.to] < rank[n]
    BY <1>0, <2>1, OwnNeeds
  <2>3. w \in Object /\ (w.kind = "link" => item.kind = "link" /\ w.to = item.to)
    BY <2>1 DEF Link, Plain, At, Object, Place, Item
  <2> HIDE DEF w
  <2>4. v \in Object \cup {Null} /\ (v.kind = "link" => rank[v.to] < rank[n])
    BY <1>4, <2>2, <2>3 DEF Verified
  <2> HIDE DEF v, n
  <2> QED
    BY <1>0, <2>1, <2>4, ReturnOrder DEF n
<1>15. CASE BeginStream(n)
  <2> DEFINE item == file.at[e.offset]
  <2>1. /\ n \notin DOMAIN cache /\ n \in DOMAIN entries /\ HasEntry(n) /\ e.type = 1
        /\ e.offset \in DOMAIN file.at /\ item \in Item
        /\ UNCHANGED cache /\ item.kind \in {"stream", "empty"}
    BY <1>0, <1>15, FileTypes DEF BeginStream, Missed, InUse, HasEntry
  <2>2. item.to # 0 => rank[item.to] < rank[n]
    BY <1>0, <2>1, OwnNeeds
  <2>3. PICK m \in Nat : m = item.to
    BY <2>1 DEF Item
  <2>4. stack' = Enter("data") \/ (stack' = EnterAndPush("length", m) /\ rank[m] < rank[n])
    BY <1>15, <2>2, <2>3 DEF BeginStream
  <2>5. "length" \in Stages
    BY DEF Stages
  <2> QED
    BY <1>0, <1>1, <2>1, <2>4, <2>5, EnterOrder DEF Orderly
<1>16. CASE OpenObjectStream(n)
  <2>1. /\ n \notin DOMAIN cache /\ n \in DOMAIN entries /\ HasEntry(n) /\ e.type = 2
        /\ UNCHANGED cache /\ stack' = EnterAndPush("container", e.gen)
        /\ e.gen \in Nat
    BY <1>0, <1>16 DEF OpenObjectStream, Missed, Compressed, HasEntry, Container, XRefEntry
  <2>2. rank[e.gen] < rank[n]
    BY <1>0, <2>1, OwnNeeds
  <2>3. PICK m \in Nat : m = e.gen
    BY <2>1
  <2>5. "container" \in Stages
    BY DEF Stages
  <2> QED
    BY <1>0, <1>1, <2>1, <2>2, <2>3, <2>5, EnterOrder DEF Orderly
<1> QED
  BY <1>7, <1>8, <1>9, <1>10, <1>11, <1>12, <1>13, <1>14, <1>15, <1>16, SMTT(30)
  DEF Continue, Load

LEMMA LoadInvariance == (\A f \in Files : Acyclic(f)) /\ Spec => [](IndInv /\ LoadInv)
<1> SUFFICES ASSUME \A f \in Files : Acyclic(f)
             PROVE  Spec => [](IndInv /\ LoadInv)
  OBVIOUS
<1>1. Init => LoadInv
  <2> SUFFICES ASSUME Init PROVE LoadInv
    OBVIOUS
  <2>1. PICK rank : IsRank(rank) /\ RankedBy(file, rank)
    BY DEF Init, Acyclic
  <2>2. Orderly(rank)
    BY DEF Init, Nothing, Orderly, OwnEntries, LinksFall, StackFalls, ResultFalls,
           WaitingUncached, Idle
  <2> QED
    BY <2>1, <2>2 DEF LoadInv
<1>2. IndInv /\ LoadInv /\ [Next]_vars => LoadInv'
  <2> SUFFICES ASSUME IndInv, LoadInv, [Next]_vars PROVE LoadInv'
    OBVIOUS
  <2>1. PICK rank : IsRank(rank) /\ RankedBy(file, rank) /\ Orderly(rank)
    BY SMTT(30) DEF LoadInv
  <2>2. file' = file
    BY DEF Next, Call, Continue, Load, GetIndirectObject, AddIndirectObject,
           ReplaceIndirectObject, DeleteIndirectObject, Close, CacheHit, LengthChained,
           LengthResolved, ReadStreamData, ObjectStreamLoaded, FreeEntry, LoadNothing,
           LoadPlain, BeginStream, OpenObjectStream, LoadFromObjectStream, vars
  <2>3. UNCHANGED vars => Orderly(rank)'
    <3> SUFFICES ASSUME UNCHANGED vars PROVE Orderly(rank)'
      OBVIOUS
    <3>1. OwnEntries' /\ LinksFall(rank)'
      BY <2>1 DEF vars, Orderly, OwnEntries, LinksFall, HasEntry
    <3>2. StackFalls(rank)' /\ WaitingUncached'
      BY <2>1 DEF vars, Orderly, StackFalls, WaitingUncached
    <3>3. ResultFalls(rank)'
      BY <2>1 DEF vars, Orderly, ResultFalls, Idle, Top
    <3> QED
      BY <3>1, <3>2, <3>3 DEF Orderly
  <2>4. Orderly(rank)'
    <3>1. CASE Call
      BY <2>1, <3>1, CallOrder
    <3>2. CASE Continue
      BY <2>1, <3>2, ContinueOrder
    <3> QED
      BY <2>3, <3>1, <3>2 DEF Next
  <2>5. RankedBy(file, rank)'
    BY <2>1, <2>2
  <2> QED
    BY <2>1, <2>4, <2>5 DEF LoadInv
<1> QED
  BY <1>1, <1>2, Invariance, PTL DEF Spec

(* In a file where no object needs itself, loading never comes back to an  *)
(* object that is being loaded, whatever is added, replaced or deleted:    *)
(* the nesting of getIndirectObjectFor (pdf_parser.dart:206) is bounded by *)
(* the file, although nothing in the code bounds it.                       *)
THEOREM LoadsAreNotReentered ==
    (\A f \in Files : Acyclic(f)) /\ Spec => []NoLoadReentered
<1>1. IndInv /\ LoadInv => NoLoadReentered
  <2> SUFFICES ASSUME IndInv, NEW rank, IsRank(rank), StackFalls(rank),
                      NEW i \in 1..Len(stack), NEW j \in 1..Len(stack),
                      stack[i].num = stack[j].num
               PROVE  i = j
    BY DEF LoadInv, Orderly, NoLoadReentered
  <2>1. stack \in Seq(Frame) /\ Len(stack) \in Nat
    BY LenProperties DEF IndInv, TypeOK
  <2>2. rank[stack[i].num] \in Nat
    <3>1. stack[i] \in Frame
      BY <2>1, ElementOfSeq
    <3> QED
      BY <3>1 DEF Frame, IsRank
  <2>3. /\ i < j => rank[stack[j].num] < rank[stack[i].num]
        /\ j < i => rank[stack[i].num] < rank[stack[j].num]
    BY DEF StackFalls
  <2>4. ~(i < j) /\ ~(j < i)
    BY <2>2, <2>3
  <2> QED
    BY <2>1, <2>4
<1> QED
  BY <1>1, LoadInvariance, PTL

(* ... and no load, nested or not, replaces or drops what is cached: an    *)
(* object a caller holds stays the object of its number until a caller     *)
(* replaces or deletes it (pdf_parser.dart:208-226).                       *)
THEOREM LoadsLeaveCache ==
    (\A f \in Files : Acyclic(f)) /\ Spec => LoadsKeepCache
<1>1. IndInv /\ LoadInv /\ [Next]_vars =>
        [~Idle => \A n \in DOMAIN cache : n \in DOMAIN cache' /\ cache'[n] = cache[n]]_vars
  <2> SUFFICES ASSUME IndInv, LoadInv, Next, ~Idle, NEW n \in DOMAIN cache
               PROVE  n \in DOMAIN cache' /\ cache'[n] = cache[n]
    OBVIOUS
  <2>1. Top = stack[Len(stack)] /\ Len(stack) \in 1..Len(stack)
    BY StackShape DEF IndInv
  <2>2. Top.stage # "get" => Top.num \notin DOMAIN cache
    BY <2>1 DEF LoadInv, Orderly, WaitingUncached
  <2>3. Continue
    BY SMTT(30) DEF Next, Call, GetIndirectObject, AddIndirectObject, ReplaceIndirectObject,
           DeleteIndirectObject, Close
  <2>4. UNCHANGED cache \/ \E m, v : Return(m, v) /\ m \notin DOMAIN cache
    BY <2>2, <2>3 DEF Continue, Load, CacheHit, LengthChained, LengthResolved,
       ReadStreamData, ObjectStreamLoaded, FreeEntry, LoadNothing, LoadPlain,
       BeginStream, OpenObjectStream, LoadFromObjectStream, Missed
  <2> QED
    BY <2>4 DEF Return, With
<1> QED
  BY <1>1, LoadInvariance, PTL DEF Spec, LoadsKeepCache

-----------------------------------------------------------------------------
(* The parser and the holder it stands for.                                *)

(* The files and callers of which the parser is a faithful holder.         *)
PlainUse == (\A f \in Files : PlainFile(f)) /\ ReplaceClosed = FALSE

(* The table changes by additions and deletions only.                      *)
OldCompressed ==
    \A n \in DOMAIN entries : entries[n].type = 2 =>
        n \in DOMAIN file.entries /\ entries[n] = file.entries[n]
OldListed == open => DOMAIN file.entries \subseteq DOMAIN entries

(* What is cached is listed, or was looked up in vain.                     *)
CachedListed == \A n \in DOMAIN cache : cache[n] # Null => n \in DOMAIN entries

(* A stream in such a file is its own data, never what happens to follow.  *)
DataOnly ==
    /\ \A n \in DOMAIN cache : cache[n].kind = "stream" => cache[n].src.part = "data"
    /\ \A n \in DOMAIN objectStreams : objectStreams[n].part = "data"
    /\ result.kind = "stream" => result.src.part = "data"

(* The data of a stream is read before anything else is.                   *)
Reading ==
    Top.stage = "data" =>
        /\ Top.num \notin DOMAIN cache
        /\ position = At(entries[Top.num].offset, "data")
        /\ file.at[entries[Top.num].offset].kind = "stream"

(* A load waits for an object stream, and that for nothing.                *)
Opening ==
    LET n == stack[1].num
    IN  /\ stack[1].stage = "container"
        /\ n \notin DOMAIN cache
        /\ Container(n) \notin DOMAIN objectStreams
        /\ \/ /\ Len(stack) = 1
              /\ result # NoResult =>
                    Container(n) \in DOMAIN cache /\ result = cache[Container(n)]
           \/ /\ Len(stack) = 2
              /\ stack[2].num = Container(n)
              /\ stack[2].stage \in {"get", "data"}

PlainStack ==
    stack # <<>> =>
        /\ stack[1].num \in ObjNum \ {0}
        /\ Reading
        /\ (Len(stack) = 1 /\ stack[1].stage \in {"get", "data"}) \/ Opening

PlainInv == OldCompressed /\ OldListed /\ CachedListed /\ DataOnly /\ PlainStack

(* What an object stream is opened from.                                   *)
Inner(c) ==
    IF c \in DOMAIN objectStreams THEN Stream(objectStreams[c])
    ELSE IF c \in DOMAIN cache THEN cache[c]
    ELSE Meaning(c)

SameInner(c) ==
    /\ Inner(c)'.kind = "stream" <=> Inner(c).kind = "stream"
    /\ Inner(c).kind = "stream" => Inner(c)'.src = Inner(c).src

LEMMA BareFacts ==
    /\ Bare(Null) = Null /\ Bare(NoResult) = NoResult
    /\ Null.kind = "null" /\ NoResult.kind = "none"
    /\ \A s : Bare(Plain(s)) = Plain(s) /\ Plain(s).kind = "value"
    /\ \A s : Bare(Stream(s)) = Stream(s) /\ Stream(s).kind = "stream" /\ Stream(s).src = s
    /\ \A s, n : Bare(Link(s, n)) = Link(s, n) /\ Link(s, n).kind = "link"
    /\ \A v \in Object \cup {Null, NoResult} :
          Bare(v).kind = v.kind /\ Bare(v).src = v.src
    /\ \A v \in Object : \A g :
          /\ Bare([v EXCEPT !.gen = g]) = Bare(v)
          /\ [v EXCEPT !.gen = g].kind = v.kind
          /\ [v EXCEPT !.gen = g].src = v.src
<1>1. /\ Bare(Null) = Null /\ Bare(NoResult) = NoResult
      /\ Null.kind = "null" /\ NoResult.kind = "none"
  BY DEF Bare, Null, NoResult
<1>2. \A s : Bare(Plain(s)) = Plain(s) /\ Plain(s).kind = "value"
  BY DEF Bare, Plain
<1>3. \A s : Bare(Stream(s)) = Stream(s) /\ Stream(s).kind = "stream" /\ Stream(s).src = s
  BY DEF Bare, Stream
<1>4. \A s, n : Bare(Link(s, n)) = Link(s, n) /\ Link(s, n).kind = "link"
  BY DEF Bare, Link
<1>5. ASSUME NEW v \in Object \cup {Null, NoResult}
      PROVE  Bare(v).kind = v.kind /\ Bare(v).src = v.src
  BY DEF Bare, Object, Null, NoResult
<1>6. ASSUME NEW v \in Object, NEW g
      PROVE  /\ Bare([v EXCEPT !.gen = g]) = Bare(v)
             /\ [v EXCEPT !.gen = g].kind = v.kind
             /\ [v EXCEPT !.gen = g].src = v.src
  BY DEF Bare, Object
<1> QED
  BY <1>1, <1>2, <1>3, <1>4, <1>5, <1>6

LEMMA CompressedInner ==
    ASSUME NEW n
    PROVE  /\ CompressedMeaning(n) =
                IF Inner(Container(n)).kind = "stream"
                THEN CHOOSE v \in FromObjectStream(n, entries[n].offset,
                                                   Inner(Container(n)).src) : TRUE
                ELSE Null
           /\ CompressedMeaning(n)' =
                IF Inner(Container(n))'.kind = "stream"
                THEN CHOOSE v \in FromObjectStream(n, entries[n].offset,
                                                   Inner(Container(n)).src)' : TRUE
                ELSE Null
  BY DEF CompressedMeaning, Inner

LEMMA MeaningSame ==
    ASSUME NEW n, file' = file,
           n \in DOMAIN entries' <=> n \in DOMAIN entries,
           n \in DOMAIN entries => entries'[n] = entries[n]
    PROVE  /\ Meaning(n)' = Meaning(n)
           /\ Compressed(n)' <=> Compressed(n)
  BY DEF Meaning, InUse, HasEntry, Compressed

LEMMA CompressedSame ==
    ASSUME NEW n, file' = file, entries'[n] = entries[n], SameInner(Container(n)),
           Container(n)' = Container(n)
    PROVE  CompressedMeaning(n)' = CompressedMeaning(n)
<1>1. PICK i, c : i = entries[n].offset /\ c = Container(n)
  OBVIOUS
<1>2. i = entries'[n].offset /\ c = Container(n)'
  BY <1>1
<1>3. CASE Inner(c).kind = "stream"
  <2>1. PICK s : s = Inner(c).src
    OBVIOUS
  <2>2. Inner(Container(n))'.src = s /\ Inner(Container(n))'.kind = "stream"
    BY <1>1, <1>3, <2>1, Zenon DEF SameInner
  <2>3. FromObjectStream(n, i, s)' = FromObjectStream(n, i, s)
    BY DEF FromObjectStream
  <2>4. FromObjectStream(n, entries[n].offset, Inner(Container(n)).src)'
          = FromObjectStream(n, i, s)'
    BY <1>2, <2>2 DEF FromObjectStream
  <2> QED
    BY <1>1, <1>3, <2>1, <2>2, <2>3, <2>4, CompressedInner
<1>4. CASE Inner(c).kind # "stream"
  <2>1. Inner(Container(n))'.kind # "stream"
    BY <1>1, <1>2, <1>4 DEF SameInner, Inner, Meaning, InUse, HasEntry
  <2> QED
    BY <1>1, <1>4, <2>1, CompressedInner
<1> QED
  BY <1>3, <1>4

(* What stands under the other numbers when one is touched.                *)
LEMMA ViewOthers ==
    ASSUME NEW n, file' = file,
           \A k : k # n => /\ k \in DOMAIN entries' <=> k \in DOMAIN entries
                           /\ k \in DOMAIN entries => entries'[k] = entries[k]
                           /\ k \in DOMAIN cache' <=> k \in DOMAIN cache
                           /\ k \in DOMAIN cache => cache'[k] = cache[k],
           \A k : k # n /\ Compressed(k) => SameInner(Container(k)),
           NEW k, k # n
    PROVE  View(k)' = View(k)
<1>1. Meaning(k)' = Meaning(k) /\ (Compressed(k)' <=> Compressed(k))
  BY MeaningSame
<1>2. CASE k \in DOMAIN cache
  BY <1>2 DEF View, Bare
<1>3. CASE k \notin DOMAIN cache /\ Compressed(k)
  <2>1. entries'[k] = entries[k] /\ Container(k)' = Container(k)
    BY <1>3 DEF Compressed, HasEntry, Container
  <2>2. SameInner(Container(k))
    BY <1>3
  <2>3. CompressedMeaning(k)' = CompressedMeaning(k)
    BY <2>1, <2>2, CompressedSame
  <2>4. k \notin DOMAIN cache' /\ Compressed(k)'
    BY <1>1, <1>3
  <2> QED
    BY <1>3, <2>3, <2>4 DEF View
<1>4. CASE k \notin DOMAIN cache /\ ~Compressed(k)
  BY <1>1, <1>4 DEF View
<1> QED
  BY <1>2, <1>3, <1>4

(* The containers of compressed objects stay what they are in the file.    *)
LEMMA Containers ==
    ASSUME PlainUse, IndInv, PlainInv, NEW n, Compressed(n)
    PROVE  /\ Container(n) \in Nat
           /\ Container(n) \notin Replaceable \cup Deletable
           /\ ~Compressed(Container(n))
<1>1. /\ n \in DOMAIN entries /\ entries[n].type = 2
      /\ n \in DOMAIN file.entries /\ entries[n] = file.entries[n]
  BY DEF Compressed, HasEntry, PlainInv, OldCompressed
<1>2. PlainFile(file) /\ entries[n] \in XRefEntry
  BY <1>1 DEF PlainUse, IndInv, TypeOK
<1> DEFINE c == entries[n].gen
<1>3. /\ c \notin Replaceable \cup Deletable
      /\ c \in DOMAIN file.entries => file.entries[c].type # 2
  BY <1>1, <1>2 DEF PlainFile
<1>4. ~Compressed(c)
  BY <1>3 DEF Compressed, HasEntry, PlainInv, OldCompressed
<1> QED
  BY <1>2, <1>3, <1>4 DEF Container, XRefEntry

(* The data of an object stream gives one object for a number.             *)
LEMMA OneSlot ==
    ASSUME IndInv, NEW n \in Nat, NEW i \in Nat, NEW s \in Place, DataPlace(s),
           s.part = "data",
           NEW v \in FromObjectStream(n, i, s), NEW w \in FromObjectStream(n, i, s)
    PROVE  v = w /\ Bare(v) = v
<1> DEFINE holds == file.at[s.off].holds
           slots == {j \in 1..Len(holds) : holds[j] = n}
<1>1. FromObjectStream(n, i, s) =
        IF i >= Len(holds) \/ slots = {} THEN {Null}
        ELSE IF holds[i + 1] = n THEN {Plain(Slot(s.off, i + 1))}
        ELSE {Plain(Slot(s.off, j)) : j \in {k \in slots : \A l \in slots : k <= l}}
  BY DEF FromObjectStream
<1>2. Len(holds) \in Nat
  BY FileTypes, LenProperties DEF IndInv, DataPlace, Item
<1>3. slots \subseteq Nat
  BY <1>2
<1> HIDE DEF slots, holds
<1>4. CASE i >= Len(holds) \/ slots = {}
  BY <1>1, <1>4, BareFacts
<1>5. CASE ~(i >= Len(holds) \/ slots = {}) /\ holds[i + 1] = n
  BY <1>1, <1>5, BareFacts
<1>6. CASE ~(i >= Len(holds) \/ slots = {}) /\ holds[i + 1] # n
  <2>1. PICK j \in slots : v = Plain(Slot(s.off, j)) /\ \A l \in slots : j <= l
    BY <1>1, <1>6
  <2>2. PICK k \in slots : w = Plain(Slot(s.off, k)) /\ \A l \in slots : k <= l
    BY <1>1, <1>6
  <2>3. j \in Nat /\ k \in Nat /\ j <= k /\ k <= j
    <3>1. j \in slots /\ k \in slots
      OBVIOUS
    <3> QED
      BY <1>3, <2>1, <2>2, <3>1, Zenon
  <2>4. j = k
    BY <2>3
  <2> QED
    BY <2>1, <2>2, <2>4, BareFacts
<1> QED
  BY <1>4, <1>5, <1>6

(* A step within a load that no caller sees.                               *)
LEMMA HolderStay ==
    ASSUME ~Idle, stack' # <<>>, stack'[1].num = stack[1].num,
           Table' = Table, call' = call
    PROVE  UNCHANGED Holder!vars
  BY DEF Holder!vars, Asked, Answered, Idle

(* The step with which an activation returns.                              *)
LEMMA HolderPop ==
    ASSUME TypeOK, ~Idle, PlainStack, stack' = Callers,
           Table' = Table, call' = call, Bare(result') = View(Top.num)
    PROVE  [Holder!Next]_(Holder!vars)
<1>1. /\ Len(stack) \in Nat \ {0} /\ Top = stack[Len(stack)]
      /\ Callers \in Seq(Frame)
      /\ Len(Callers) = Len(stack) - 1
      /\ \A i \in 1..(Len(stack) - 1) : Callers[i] = stack[i]
  BY StackShape, StackTypes
<1>2. stack[1].num \in ObjNum \ {0}
  BY DEF PlainStack, Idle
<1>3. CASE Len(stack) = 1
  <2>1. stack' = <<>>
    BY <1>1, <1>3, EmptySeq
  <2>2. Asked = stack[1].num /\ Asked' = 0
    BY <2>1 DEF Asked, Idle
  <2>3. Answered' = Bare(result')
    BY <2>1 DEF Answered, Idle, Bare
  <2>4. Table[Asked] = View(stack[1].num)
    BY <1>2, <2>2 DEF Table
  <2>5. Holder!Answer
    BY <1>1, <1>2, <1>3, <2>2, <2>3, <2>4 DEF Holder!Answer
  <2> QED
    BY <2>5 DEF Holder!Next
<1>4. CASE Len(stack) # 1
  <2>1. stack'[1] = stack[1] /\ stack' # <<>>
    BY <1>1, <1>4
  <2> QED
    BY <2>1, HolderStay
<1> QED
  BY <1>3, <1>4

(* An activation returns an object that is what stood under its number.    *)
LEMMA ReturnPlain ==
    ASSUME PlainUse, IndInv, PlainInv, ~Idle,
           NEW n \in Nat, n = Top.num, n \notin DOMAIN cache,
           NEW v \in Object \cup {Null}, Return(n, v),
           v # Null => n \in DOMAIN entries,
           v.kind = "stream" => v.src.part = "data",
           Bare(v) = View(n),
           \A k : k # n /\ Compressed(k) => SameInner(Container(k)),
           \A k \in DOMAIN objectStreams' : objectStreams'[k].part = "data",
           Len(stack) = 2 => UNCHANGED objectStreams,
           UNCHANGED <<file, open, entries, call>>
    PROVE  PlainInv' /\ [Holder!Next]_(Holder!vars)
<1> DEFINE obj == IF v = Null THEN Null ELSE [v EXCEPT !.gen = entries[n].gen]
<1>1. /\ obj # Null => v # Null
      /\ obj.kind = v.kind /\ obj.src = v.src /\ Bare(obj) = Bare(v)
  BY BareFacts
<1>2. cache' = With(cache, n, obj) /\ result' = obj /\ stack' = Callers
  BY DEF Return
<1> HIDE DEF obj
<1>3. /\ DOMAIN cache' = DOMAIN cache \cup {n}
      /\ \A k \in DOMAIN cache' : cache'[k] = IF k = n THEN obj ELSE cache[k]
  BY <1>2 DEF With
<1>4. Table' = Table
  <2>1. View(n)' = Bare(obj)
    <3>1. n \in DOMAIN cache' /\ cache'[n] = obj
      BY <1>3
    <3> QED
      BY <3>1 DEF View, Bare
  <2>2. \A k : k # n => View(k)' = View(k)
    BY <1>3, ViewOthers
  <2>3. \A k \in ObjNum : View(k)' = View(k)
    BY <1>1, <2>1, <2>2
  <2> QED
    BY <2>3 DEF Table
<1>5. [Holder!Next]_(Holder!vars)
  <2>1. Bare(result') = View(Top.num)
    BY <1>1, <1>2
  <2> QED
    BY <1>2, <1>4, <2>1, HolderPop DEF IndInv, PlainInv
<1>6. OldCompressed' /\ OldListed'
  BY DEF PlainInv, OldCompressed, OldListed
<1>7. CachedListed'
  BY <1>1, <1>3 DEF PlainInv, CachedListed
<1>8. DataOnly'
  BY <1>1, <1>2, <1>3 DEF PlainInv, DataOnly
<1>9. PlainStack'
  <2>1. /\ Len(stack) \in Nat \ {0} /\ Top = stack[Len(stack)]
        /\ stack' \in Seq(Frame)
        /\ Len(stack') = Len(stack) - 1
        /\ \A i \in 1..(Len(stack) - 1) : stack'[i] = stack[i]
    BY <1>2, StackShape, StackTypes DEF IndInv
  <2>2. /\ stack # <<>>
        /\ stack[1].num \in ObjNum \ {0}
        /\ Len(stack) = 1 \/ (Len(stack) = 2 /\ Opening)
    BY DEF PlainInv, PlainStack, Idle, Opening
  <2>3. CASE Len(stack) = 1
    <3>1. stack' = <<>>
      BY <2>1, <2>3, EmptySeq
    <3> QED
      BY <3>1 DEF PlainStack
  <2>4. CASE Len(stack) = 2 /\ Opening
    <3>0. PICK m : m = stack[1].num
      OBVIOUS
    <3>1. /\ m \notin DOMAIN cache /\ Container(m) \notin DOMAIN objectStreams
          /\ n = Container(m) /\ stack[1].stage = "container"
      BY <2>1, <2>4, <3>0 DEF Opening
    <3>2. Compressed(m)
      BY <2>1, <2>4, <3>0, <3>1 DEF IndInv, FramesOK, FrameOK
    <3>3. m # n
      BY <3>1, <3>2, Containers
    <3>4. Len(stack') = 1 /\ stack'[1] = stack[1]
      BY <2>1, <2>4
    <3>5. Container(m)' = n
      BY <3>1 DEF Container
    <3>6. n \in DOMAIN cache' /\ cache'[n] = obj /\ m \notin DOMAIN cache'
      BY <1>3, <3>1, <3>3
    <3>7. Opening'
      BY <1>2, <2>4, <3>0, <3>1, <3>4, <3>5, <3>6 DEF Opening
    <3>8. Reading'
      BY <3>1, <3>4 DEF Reading, Top
    <3> QED
      BY <2>2, <3>4, <3>7, <3>8 DEF PlainStack
  <2> QED
    BY <2>2, <2>3, <2>4
<1> QED
  BY <1>5, <1>6, <1>7, <1>8, <1>9 DEF PlainInv

(* Nothing that the answers are made of has changed.                       *)
LEMMA InnerStays ==
    ASSUME NEW c, UNCHANGED <<file, entries>>,
           /\ c \in DOMAIN cache' <=> c \in DOMAIN cache
           /\ c \in DOMAIN cache => cache'[c] = cache[c]
           /\ c \in DOMAIN objectStreams' <=> c \in DOMAIN objectStreams
           /\ c \in DOMAIN objectStreams => objectStreams'[c] = objectStreams[c]
    PROVE  SameInner(c)
<1>1. Meaning(c)' = Meaning(c)
  BY MeaningSame
<1> QED
  BY <1>1 DEF SameInner, Inner, Stream

LEMMA ContainerInner ==
    ASSUME NEW k, NEW c, c = Container(k), UNCHANGED entries, SameInner(c)
    PROVE  SameInner(Container(k))
<1>1. Container(k)' = c
  BY DEF Container
<1>2. Inner(Container(k))' = Inner(c)'
  BY <1>1 DEF Inner, Meaning, InUse, HasEntry, Stream
<1>3. Inner(Container(k)) = Inner(c)
  OBVIOUS
<1> QED
  BY <1>2, <1>3, Zenon DEF SameInner

LEMMA TableStays ==
    ASSUME UNCHANGED <<file, entries, cache, objectStreams>>
    PROVE  Table' = Table
<1>1. ASSUME NEW k \in ObjNum
      PROVE  View(k)' = View(k)
  <2>1. PICK n : n # k
    <3>1. k + 1 # k
      BY ConstantsAssumption DEF ObjNum
    <3> QED
      BY <3>1
  <2>2. \A i : SameInner(Container(i))
    <3>1. TAKE i
    <3>2. PICK b : b = Container(i)
      OBVIOUS
    <3>3. SameInner(b)
      BY InnerStays
    <3> QED
      BY <3>2, <3>3, ContainerInner
  <2> QED
    BY <2>1, <2>2, ViewOthers
<1> QED
  BY <1>1 DEF Table

(* Returning what stood there already leaves the object streams alone.     *)
LEMMA ReturnInner ==
    ASSUME PlainUse, IndInv, PlainInv, NEW n, n \notin DOMAIN cache,
           NEW v \in Object \cup {Null}, Return(n, v), Bare(v) = View(n),
           UNCHANGED <<file, entries, objectStreams>>, NEW k, Compressed(k)
    PROVE  SameInner(Container(k))
<1>1. PICK c : c = Container(k)
  OBVIOUS
<1>2. ~Compressed(c)
  BY <1>1, Containers
<1>3. /\ DOMAIN cache' = DOMAIN cache \cup {n}
      /\ \A i \in DOMAIN cache : cache'[i] = cache[i]
  BY DEF Return, With
<1>4. CASE c # n
  <2>1. SameInner(c)
    BY <1>3, <1>4, InnerStays
  <2> QED
    BY <1>1, <2>1, ContainerInner
<1>5. CASE c = n
  <2>1. View(n) = Meaning(n)
    BY <1>2, <1>5 DEF View
  <2>2. cache'[n].kind = Meaning(n).kind /\ cache'[n].src = Meaning(n).src
    <3>1. cache'[n] = IF v = Null THEN Null ELSE [v EXCEPT !.gen = entries[n].gen]
      BY DEF Return, With
    <3>2. cache'[n].kind = v.kind /\ cache'[n].src = v.src
      BY <3>1, BareFacts
    <3>3. Bare(v).kind = v.kind /\ Bare(v).src = v.src
      BY BareFacts
    <3> QED
      BY <2>1, <3>2, <3>3
  <2>3. n \notin DOMAIN objectStreams => Inner(n) = Meaning(n) /\ Inner(n)' = cache'[n]
    BY <1>3 DEF Inner
  <2>4. n \in DOMAIN objectStreams => Inner(n)' = Inner(n)
    BY DEF Inner, Stream
  <2>5. SameInner(n)
    BY <2>2, <2>3, <2>4 DEF SameInner
  <2> QED
    BY <1>1, <1>5, <2>5, ContainerInner
<1> QED
  BY <1>4, <1>5

(* An object read where its entry points.                                  *)
LEMMA LoadInPlace ==
    ASSUME PlainUse, IndInv, PlainInv, ~Idle,
           NEW n \in Nat, n = Top.num, n \notin DOMAIN cache,
           ~Compressed(n), NEW v \in Object \cup {Null}, Return(n, v),
           v # Null => n \in DOMAIN entries,
           v.kind = "stream" => v.src.part = "data",
           Bare(v) = Meaning(n),
           UNCHANGED <<file, open, entries, objectStreams, call>>
    PROVE  PlainInv' /\ [Holder!Next]_(Holder!vars)
<1>1. Bare(v) = View(n)
  BY DEF View
<1>2. \A k : Compressed(k) => SameInner(Container(k))
  BY <1>1, ReturnInner
<1>3. \A k \in DOMAIN objectStreams' : objectStreams'[k].part = "data"
  BY DEF PlainInv, DataOnly
<1> QED
  BY <1>1, <1>2, <1>3, ReturnPlain

LEMMA LoadPlainly ==
    ASSUME PlainUse, IndInv, PlainInv, ~Idle, NEW n \in Nat, n = Top.num,
           FreeEntry(n) \/ LoadNothing(n) \/ LoadPlain(n)
    PROVE  PlainInv' /\ [Holder!Next]_(Holder!vars)
<1>1. Missed(n) /\ n \notin DOMAIN cache
  BY DEF FreeEntry, LoadNothing, LoadPlain, Missed
<1>2. CASE FreeEntry(n)
  <2>1. Meaning(n) = Null /\ ~Compressed(n)
    BY <1>2 DEF FreeEntry, Meaning, InUse, Compressed
  <2>2. /\ Return(n, Null)
        /\ UNCHANGED <<file, open, entries, objectStreams, call>>
    BY <1>2 DEF FreeEntry
  <2> QED
    BY <1>1, <2>1, <2>2, BareFacts, LoadInPlace
<1>3. CASE LoadNothing(n)
  <2>1. Meaning(n) = Null /\ ~Compressed(n)
    BY <1>3, SMTT(30) DEF LoadNothing, Meaning, InUse, Compressed
  <2>2. /\ Return(n, Null)
        /\ UNCHANGED <<file, open, entries, objectStreams, call>>
    BY <1>3, SMTT(30) DEF LoadNothing
  <2> QED
    BY <1>1, <2>1, <2>2, BareFacts, LoadInPlace
<1>4. CASE LoadPlain(n)
  <2> DEFINE o == entries[n].offset
             item == file.at[o]
             read == IF item.kind = "link" THEN Link(At(o, "head"), item.to)
                                           ELSE Plain(At(o, "head"))
             v == Verified(n, item, read)
  <2>1. /\ InUse(n) /\ o \in DOMAIN file.at /\ item.kind \in {"value", "link"}
        /\ Return(n, v)
        /\ UNCHANGED <<file, open, entries, objectStreams, call>>
    BY <1>4 DEF LoadPlain
  <2>2. o \in Nat /\ item \in Item
    BY <2>1, FileTypes
  <2>3. read \in Object /\ read.kind # "stream" /\ Bare(read) = read
    <3>1. item.to \in Nat /\ At(o, "head") \in Place
      BY <2>2, PlaceFacts DEF Item
    <3> QED
      BY <3>1, ReadFacts, BareFacts
  <2>4. v \in Object \cup {Null} /\ v.kind # "stream" /\ Bare(v) = v
    <3>1. v = read \/ v = Null
      BY DEF Verified
    <3> QED
      BY <2>3, <3>1, BareFacts
  <2>5. Meaning(n) = v
    BY <2>1 DEF Meaning, Verified
  <2>6. n \in DOMAIN entries /\ ~Compressed(n)
    BY <2>1 DEF InUse, HasEntry, Compressed
  <2> QED
    <3> HIDE DEF v
    <3> QED
      BY <1>1, <2>1, <2>4, <2>5, <2>6, LoadInPlace
<1> QED
  BY <1>2, <1>3, <1>4

(* The data of a stream is read from where the dictionary ended.           *)
LEMMA ReadStreamDataPlainly ==
    ASSUME PlainUse, IndInv, PlainInv, ReadStreamData
    PROVE  PlainInv' /\ [Holder!Next]_(Holder!vars)
<1>1. ~Idle /\ stack # <<>> /\ Top.stage = "data"
  BY DEF ReadStreamData, Idle
<1>2. PICK n \in Nat : n = Top.num
  BY <1>1, StackTypes DEF IndInv, Frame
<1> DEFINE o == entries[n].offset
           item == file.at[o]
<1>3. /\ n \notin DOMAIN cache /\ position = At(o, "data") /\ item.kind = "stream"
  BY <1>1, <1>2 DEF PlainInv, PlainStack, Reading
<1>4. InUse(n) /\ o \in DOMAIN file.at
  <2>1. Len(stack) \in 1..Len(stack) /\ Top = stack[Len(stack)]
    BY <1>1, StackShape DEF IndInv
  <2> QED
    BY <1>1, <1>2, <2>1 DEF IndInv, FramesOK, FrameOK
<1> DEFINE read == Stream(At(o, "data"))
           v == Verified(n, item, read)
<1>5. o \in Nat
  BY <1>4, FileTypes
<1>6. StreamRead(o) = {read}
  BY <1>3 DEF StreamRead
<1>7. Return(n, v) /\ UNCHANGED <<file, open, entries, objectStreams, call>>
  BY <1>2, <1>6 DEF ReadStreamData
<1>8. read \in Object /\ read.src.part = "data" /\ Bare(read) = read
  BY <1>5, BareFacts DEF Object, Stream, At, Place
<1>9. v \in Object \cup {Null} /\ (v.kind = "stream" => v.src.part = "data") /\ Bare(v) = v
  BY <1>8, BareFacts DEF Verified
<1>10. Meaning(n) = v
  BY <1>3, <1>4 DEF Meaning, Verified
<1>11. n \in DOMAIN entries /\ ~Compressed(n)
  BY <1>4 DEF InUse, HasEntry, Compressed
<1> HIDE DEF v, o, item, read
<1> QED
  BY <1>1, <1>2, <1>3, <1>7, <1>9, <1>10, <1>11, LoadInPlace

LEMMA CacheHitPlainly ==
    ASSUME PlainUse, IndInv, PlainInv, CacheHit
    PROVE  PlainInv' /\ [Holder!Next]_(Holder!vars)
<1>1. /\ ~Idle /\ stack # <<>> /\ stack' = Callers
      /\ UNCHANGED <<file, open, entries, cache, objectStreams, position, call>>
  BY DEF CacheHit, Idle
<1>2. PICK n \in Nat : n = Top.num
  BY <1>1, StackTypes DEF IndInv, Frame
<1>3. Top.stage = "get" /\ n \in DOMAIN cache /\ result' = cache[n]
  BY <1>2 DEF CacheHit
<1>4. [Holder!Next]_(Holder!vars)
  <2>1. Table' = Table
    BY <1>1, TableStays
  <2>2. Bare(result') = View(Top.num)
    BY <1>2, <1>3 DEF View
  <2> QED
    BY <1>1, <2>1, <2>2, HolderPop DEF IndInv, PlainInv
<1>5. OldCompressed' /\ OldListed' /\ CachedListed' /\ DataOnly'
  BY <1>1, <1>3 DEF PlainInv, OldCompressed, OldListed, CachedListed, DataOnly
<1>6. PlainStack'
  <2>1. /\ Len(stack) \in Nat \ {0} /\ Top = stack[Len(stack)]
        /\ stack' \in Seq(Frame)
        /\ Len(stack') = Len(stack) - 1
        /\ \A i \in 1..(Len(stack) - 1) : stack'[i] = stack[i]
    BY <1>1, StackShape, StackTypes DEF IndInv
  <2>2. /\ stack[1].num \in ObjNum \ {0}
        /\ Len(stack) = 1 \/ (Len(stack) = 2 /\ Opening)
    BY <1>1 DEF PlainInv, PlainStack, Opening
  <2>3. CASE Len(stack) = 1
    <3>1. stack' = <<>>
      BY <2>1, <2>3, EmptySeq
    <3> QED
      BY <3>1 DEF PlainStack
  <2>4. CASE Len(stack) = 2 /\ Opening
    <3>1. PICK m : m = stack[1].num
      OBVIOUS
    <3>2. /\ m \notin DOMAIN cache /\ Container(m) \notin DOMAIN objectStreams
          /\ n = Container(m) /\ stack[1].stage = "container"
      BY <1>2, <2>1, <2>4, <3>1 DEF Opening
    <3>3. Len(stack') = 1 /\ stack'[1] = stack[1]
      BY <2>1, <2>4
    <3>4. Container(m)' = n
      BY <1>1, <3>2 DEF Container
    <3>5. Opening'
      BY <1>1, <1>3, <3>1, <3>2, <3>3, <3>4 DEF Opening
    <3>6. Reading'
      BY <3>2, <3>3 DEF Reading, Top
    <3> QED
      BY <2>2, <3>3, <3>5, <3>6 DEF PlainStack
  <2> QED
    BY <2>2, <2>3, <2>4
<1> QED
  BY <1>4, <1>5, <1>6 DEF PlainInv

(* A stream's own data comes next: its /Length is a number.                *)
LEMMA BeginStreamPlainly ==
    ASSUME PlainUse, IndInv, PlainInv, ~Idle, NEW n \in Nat, n = Top.num, BeginStream(n)
    PROVE  PlainInv' /\ [Holder!Next]_(Holder!vars)
<1> DEFINE o == entries[n].offset
<1>1. /\ Missed(n) /\ n \notin DOMAIN cache /\ Top = [num |-> n, stage |-> "get"]
      /\ o \in DOMAIN file.at /\ file.at[o].kind \in {"stream", "empty"}
      /\ position' = At(o, "data") /\ result' = NoResult
      /\ UNCHANGED <<file, open, entries, cache, objectStreams, call>>
  BY DEF BeginStream, Missed
<1>2. file.at[o].kind = "stream" /\ file.at[o].to = 0
  <2>1. PlainFile(file)
    BY DEF PlainUse, IndInv
  <2> QED
    BY <1>1, <2>1 DEF PlainFile
<1>3. stack' = Enter("data")
  BY <1>2 DEF BeginStream
<1> HIDE DEF o
<1>4. /\ Len(stack) \in Nat \ {0} /\ Top = stack[Len(stack)]
      /\ Len(stack') = Len(stack)
      /\ \A i \in 1..(Len(stack) - 1) : stack'[i] = stack[i]
      /\ stack'[Len(stack)] = [num |-> n, stage |-> "data"]
  <2>1. "data" \in Stages
    BY DEF Stages
  <2> QED
    BY <1>1, <1>3, <2>1, StackShape DEF IndInv
<1>5. stack # <<>> /\ stack' # <<>> /\ stack'[1].num = stack[1].num
  <2>1. stack # <<>>
    BY DEF Idle
  <2>2. stack' # <<>>
    BY <1>4
  <2>3. CASE Len(stack) = 1
    BY <1>1, <1>4, <2>1, <2>2, <2>3
  <2>4. CASE Len(stack) # 1
    BY <1>4, <2>1, <2>2, <2>4
  <2> QED
    BY <2>3, <2>4
<1>6. [Holder!Next]_(Holder!vars)
  BY <1>1, <1>5, TableStays, HolderStay
<1>7. OldCompressed' /\ OldListed' /\ CachedListed' /\ DataOnly'
  <2>1. result'.kind # "stream"
    BY <1>1, BareFacts
  <2> QED
    BY <1>1, <2>1 DEF PlainInv, OldCompressed, OldListed, CachedListed, DataOnly
<1>8. Top' = [num |-> n, stage |-> "data"]
  BY <1>4 DEF Top
<1>9. Reading'
  BY <1>1, <1>2, <1>8 DEF Reading, o
<1>10. (Len(stack') = 1 /\ stack'[1].stage \in {"get", "data"}) \/ Opening'
  <2>1. CASE Len(stack) = 1
    BY <1>4, <2>1
  <2>2. CASE Len(stack) # 1
    <3>1. Opening
      BY <1>5, <2>2 DEF PlainInv, PlainStack
    <3>2. PICK m : m = stack[1].num
      OBVIOUS
    <3>3. /\ m \notin DOMAIN cache /\ Container(m) \notin DOMAIN objectStreams
          /\ n = Container(m) /\ stack[1].stage = "container" /\ Len(stack) = 2
      BY <1>1, <1>4, <2>2, <3>1, <3>2 DEF Opening
    <3>4. Container(m)' = n
      BY <1>1, <3>3 DEF Container
    <3>5. Opening'
      BY <1>1, <1>4, <3>2, <3>3, <3>4 DEF Opening
    <3> QED
      BY <3>5
  <2> QED
    BY <2>1, <2>2
<1>11. PlainStack'
  BY <1>5, <1>9, <1>10 DEF PlainInv, PlainStack
<1> QED
  BY <1>6, <1>7, <1>11 DEF PlainInv

(* The innermost load is the only one when it is of a compressed object.   *)
LEMMA CompressedAlone ==
    ASSUME PlainUse, IndInv, PlainInv, ~Idle, NEW n, n = Top.num, Compressed(n)
    PROVE  Len(stack) = 1 /\ stack[1] = Top
<1>1. /\ Len(stack) \in Nat \ {0} /\ Top = stack[Len(stack)]
      /\ \A i \in 1..Len(stack) : FrameOK(stack[i])
  BY StackShape DEF IndInv, FramesOK
<1>2. CASE Len(stack) # 1
  <2>1. PICK m : m = stack[1].num
    OBVIOUS
  <2>2. Len(stack) = 2 /\ n = Container(m) /\ stack[1].stage = "container"
    BY <1>1, <1>2, <2>1 DEF PlainInv, PlainStack, Opening, Idle
  <2>3. Compressed(m)
    BY <1>1, <2>1, <2>2 DEF FrameOK
  <2> QED
    BY <2>2, <2>3, Containers
<1> QED
  BY <1>1, <1>2

LEMMA OpenObjectStreamPlainly ==
    ASSUME PlainUse, IndInv, PlainInv, ~Idle,
           NEW n \in Nat, n = Top.num, OpenObjectStream(n)
    PROVE  PlainInv' /\ [Holder!Next]_(Holder!vars)
<1>1. /\ Missed(n) /\ n \notin DOMAIN cache /\ Compressed(n)
      /\ Top = [num |-> n, stage |-> "get"]
      /\ Container(n) \notin DOMAIN objectStreams
      /\ stack' = EnterAndPush("container", Container(n)) /\ result' = NoResult
      /\ UNCHANGED <<file, open, entries, cache, objectStreams, position, call>>
  BY DEF OpenObjectStream, Missed
<1>2. Len(stack) = 1 /\ stack[1] = Top
  BY <1>1, CompressedAlone
<1>3. PICK c \in Nat : c = Container(n)
  BY <1>1, Containers
<1>4. /\ Len(stack') = 2
      /\ stack'[1] = [num |-> n, stage |-> "container"]
      /\ stack'[2] = [num |-> c, stage |-> "get"]
  <2>1. "container" \in Stages
    BY DEF Stages
  <2> QED
    BY <1>1, <1>2, <1>3, <2>1, StackShape DEF IndInv
<1>5. stack # <<>> /\ stack' # <<>> /\ n \in ObjNum \ {0}
  BY <1>1, <1>2, <1>4 DEF PlainInv, PlainStack, Idle
<1>6. [Holder!Next]_(Holder!vars)
  BY <1>1, <1>2, <1>4, <1>5, TableStays, HolderStay
<1>7. OldCompressed' /\ OldListed' /\ CachedListed' /\ DataOnly'
  <2>1. result'.kind # "stream"
    BY <1>1, BareFacts
  <2> QED
    BY <1>1, <2>1 DEF PlainInv, OldCompressed, OldListed, CachedListed, DataOnly
<1>8. Reading'
  BY <1>4 DEF Reading, Top
<1>9. Container(n)' = c
  BY <1>1, <1>3 DEF Container
<1>10. Opening'
  BY <1>1, <1>3, <1>4, <1>9 DEF Opening
<1>11. PlainStack'
  BY <1>4, <1>5, <1>8, <1>10 DEF PlainStack
<1> QED
  BY <1>6, <1>7, <1>11 DEF PlainInv

(* The object taken from a slot is the one CompressedMeaning names.        *)
LEMMA SlotMeaning ==
    ASSUME PlainUse, IndInv, PlainInv, NEW n \in Nat, Compressed(n), n \notin DOMAIN cache,
           NEW s \in Place, DataPlace(s), s.part = "data",
           Inner(Container(n)).kind = "stream", Inner(Container(n)).src = s,
           NEW v \in FromObjectStream(n, entries[n].offset, s)
    PROVE  /\ v \in Object \cup {Null}
           /\ v.kind # "stream"
           /\ n \in DOMAIN entries
           /\ Bare(v) = View(n)
<1>1. n \in DOMAIN entries /\ entries[n].offset \in Nat
  BY DEF Compressed, HasEntry, IndInv, TypeOK, XRefEntry
<1>2. PICK i \in Nat : i = entries[n].offset
  BY <1>1
<1>3. v \in Object \cup {Null}
  BY <1>2, ObjectStreamYields
<1>4. v.kind # "stream"
  <2>1. v = Null \/ \E p : v = Plain(p)
    BY DEF FromObjectStream
  <2> QED
    BY <2>1, BareFacts
<1>5. View(n) = CHOOSE w \in FromObjectStream(n, i, s) : TRUE
  BY <1>2, CompressedInner DEF View
<1>6. View(n) \in FromObjectStream(n, i, s)
  BY <1>2, <1>5
<1>7. View(n) = v /\ Bare(v) = v
  BY <1>2, <1>6, OneSlot
<1> QED
  BY <1>1, <1>3, <1>4, <1>7

LEMMA LoadFromObjectStreamPlainly ==
    ASSUME PlainUse, IndInv, PlainInv, ~Idle,
           NEW n \in Nat, n = Top.num, LoadFromObjectStream(n)
    PROVE  PlainInv' /\ [Holder!Next]_(Holder!vars)
<1>1. /\ n \notin DOMAIN cache /\ Compressed(n) /\ Container(n) \in DOMAIN objectStreams
      /\ UNCHANGED <<file, open, entries, objectStreams, call>>
  BY DEF LoadFromObjectStream, Missed
<1>2. PICK s : s = objectStreams[Container(n)]
  OBVIOUS
<1>3. PICK v \in FromObjectStream(n, entries[n].offset, s) : Return(n, v)
  BY <1>2 DEF LoadFromObjectStream
<1>4. s \in Place /\ DataPlace(s) /\ s.part = "data"
  BY <1>1, <1>2 DEF IndInv, TypeOK, DataPlaces, PlainInv, DataOnly
<1>5. Inner(Container(n)).kind = "stream" /\ Inner(Container(n)).src = s
  BY <1>1, <1>2, BareFacts DEF Inner
<1>6. v \in Object \cup {Null} /\ v.kind # "stream" /\ n \in DOMAIN entries /\ Bare(v) = View(n)
  BY <1>1, <1>3, <1>4, <1>5, SlotMeaning
<1>7. \A k : Compressed(k) => SameInner(Container(k))
  BY <1>1, <1>3, <1>6, ReturnInner
<1>8. \A k \in DOMAIN objectStreams' : objectStreams'[k].part = "data"
  BY <1>1 DEF PlainInv, DataOnly
<1> QED
  BY <1>1, <1>3, <1>6, <1>7, <1>8, ReturnPlain

LEMMA ObjectStreamLoadedPlainly ==
    ASSUME PlainUse, IndInv, PlainInv, ObjectStreamLoaded
    PROVE  PlainInv' /\ [Holder!Next]_(Holder!vars)
<1>1. /\ ~Idle /\ stack # <<>> /\ Top.stage = "container" /\ result # NoResult
      /\ UNCHANGED <<file, open, entries, position, call>>
  BY DEF ObjectStreamLoaded, Idle
<1>2. PICK n \in Nat : n = Top.num
  BY <1>1, StackTypes DEF IndInv, Frame
<1>3. /\ Len(stack) \in Nat \ {0} /\ Top = stack[Len(stack)]
      /\ \A i \in 1..Len(stack) : FrameOK(stack[i])
  BY <1>1, StackShape DEF IndInv, FramesOK
<1>4. Compressed(n)
  BY <1>1, <1>2, <1>3 DEF FrameOK
<1>5. Len(stack) = 1 /\ stack[1] = Top
  BY <1>1, <1>2, <1>4, CompressedAlone
<1>6. PICK c \in Nat : c = Container(n)
  BY <1>4, Containers
<1>7. /\ n \notin DOMAIN cache /\ c \notin DOMAIN objectStreams
      /\ c \in DOMAIN cache /\ result = cache[c]
  BY <1>1, <1>2, <1>5, <1>6 DEF PlainInv, PlainStack, Opening
<1>8. Inner(c) = result
  BY <1>7 DEF Inner
<1>9. CASE result.kind # "stream"
  <2>1. Return(n, Null) /\ UNCHANGED objectStreams
    BY <1>2, <1>9 DEF ObjectStreamLoaded
  <2>2. View(n) = Null
    BY <1>4, <1>6, <1>7, <1>8, <1>9, CompressedInner DEF View
  <2>3. \A k : Compressed(k) => SameInner(Container(k))
    BY <1>1, <1>7, <2>1, <2>2, BareFacts, ReturnInner
  <2>4. \A k \in DOMAIN objectStreams' : objectStreams'[k].part = "data"
    BY <2>1 DEF PlainInv, DataOnly
  <2> QED
    BY <1>1, <1>2, <1>7, <2>1, <2>2, <2>3, <2>4, BareFacts, ReturnPlain
<1>10. CASE result.kind = "stream"
  <2>1. PICK s : s = result.src
    OBVIOUS
  <2>2. /\ objectStreams' = With(objectStreams, c, s)
        /\ \E v \in FromObjectStream(n, entries[n].offset, s) : Return(n, v)
    BY <1>2, <1>6, <1>10, <2>1 DEF ObjectStreamLoaded
  <2>3. PICK v \in FromObjectStream(n, entries[n].offset, s) : Return(n, v)
    BY <2>2
  <2>4. s \in Place /\ DataPlace(s) /\ s.part = "data"
    BY <1>10, <2>1 DEF IndInv, TypeOK, DataPlaces, PlainInv, DataOnly, Object, Null, NoResult
  <2>5. /\ v \in Object \cup {Null} /\ v.kind # "stream"
        /\ n \in DOMAIN entries /\ Bare(v) = View(n)
    BY <1>4, <1>6, <1>7, <1>8, <1>10, <2>1, <2>3, <2>4, SlotMeaning
  <2>6. /\ DOMAIN objectStreams' = DOMAIN objectStreams \cup {c}
        /\ objectStreams'[c] = s
        /\ \A k \in DOMAIN objectStreams : k # c => objectStreams'[k] = objectStreams[k]
    BY <2>2 DEF With
  <2>7. ASSUME NEW k, Compressed(k)
        PROVE  SameInner(Container(k))
    <3>1. PICK b : b = Container(k)
      OBVIOUS
    <3>2. b # n
      BY <1>4, <2>7, <3>1, Containers
    <3>3. /\ b \in DOMAIN cache' <=> b \in DOMAIN cache
          /\ b \in DOMAIN cache => cache'[b] = cache[b]
      BY <2>3, <3>2 DEF Return, With
    <3>4. SameInner(b)
      <4>1. CASE b = c
        <5>1. Inner(b)' = Stream(s)
          BY <2>6, <4>1 DEF Inner, Stream
        <5> QED
          BY <1>8, <1>10, <2>1, <4>1, <5>1, BareFacts DEF SameInner
      <4>2. CASE b # c
        BY <1>1, <2>6, <3>3, <4>2, InnerStays
      <4> QED
        BY <4>1, <4>2
    <3> QED
      BY <1>1, <3>1, <3>4, ContainerInner
  <2>8. \A k \in DOMAIN objectStreams' : objectStreams'[k].part = "data"
    BY <2>4, <2>6 DEF PlainInv, DataOnly
  <2> QED
    BY <1>1, <1>2, <1>5, <1>7, <2>3, <2>5, <2>7, <2>8, ReturnPlain
<1> QED
  BY <1>9, <1>10

LEMMA ContinuePlainly ==
    ASSUME PlainUse, IndInv, PlainInv, Continue
    PROVE  PlainInv' /\ [Holder!Next]_(Holder!vars)
<1>1. CASE LengthChained \/ LengthResolved
  <2>1. stack # <<>> /\ Top.stage = "length"
    BY <1>1 DEF LengthChained, LengthResolved, Idle
  <2>2. Len(stack) \in Nat \ {0} /\ Top = stack[Len(stack)]
    BY <2>1, StackShape DEF IndInv, Idle
  <2>3. FALSE
    BY <2>1, <2>2 DEF PlainInv, PlainStack, Opening
  <2> QED
    BY <2>3
<1>2. CASE ~Idle /\ Load(Top.num)
  <2>1. PICK n \in Nat : n = Top.num
    BY <1>2, StackTypes DEF IndInv, Frame
  <2>2. Load(n)
    BY <1>2, <2>1
  <2> QED
    BY <1>2, <2>1, <2>2, LoadPlainly, BeginStreamPlainly, OpenObjectStreamPlainly,
       LoadFromObjectStreamPlainly DEF Load
<1> QED
  BY <1>1, <1>2, CacheHitPlainly, ReadStreamDataPlainly, ObjectStreamLoadedPlainly
     DEF Continue

(* What a call changes is what stands under one number.                    *)
LEMMA TouchOne ==
    ASSUME NEW n \in ObjNum, file' = file,
           \A k : k # n => /\ k \in DOMAIN entries' <=> k \in DOMAIN entries
                           /\ k \in DOMAIN entries => entries'[k] = entries[k]
                           /\ k \in DOMAIN cache' <=> k \in DOMAIN cache
                           /\ k \in DOMAIN cache => cache'[k] = cache[k],
           UNCHANGED objectStreams,
           \A k : k # n /\ Compressed(k) /\ Container(k) = n => SameInner(n),
           NEW w, View(n)' = w
    PROVE  Table' = Holder!Put(n, w)
<1>1. ASSUME NEW k, k # n, Compressed(k)
      PROVE  SameInner(Container(k))
  <2>1. PICK c : c = Container(k)
    OBVIOUS
  <2>2. Container(k)' = c
    BY <1>1, <2>1 DEF Container, Compressed, HasEntry
  <2>3. SameInner(c)
    <3>1. CASE c = n
      BY <1>1, <2>1, <3>1
    <3>2. CASE c # n
      <4>1. Meaning(c)' = Meaning(c)
        BY <3>2, MeaningSame
      <4> QED
        BY <3>2, <4>1 DEF SameInner, Inner, Stream
    <3> QED
      BY <3>1, <3>2
  <2>4. Inner(Container(k))' = Inner(c)'
    BY <2>2 DEF Inner, Meaning, InUse, HasEntry, Stream
  <2>5. Inner(Container(k)) = Inner(c)
    BY <2>1
  <2> QED
    BY <2>3, <2>4, <2>5, Zenon DEF SameInner
<1>2. \A k \in ObjNum : k # n => View(k)' = View(k)
  BY <1>1, ViewOthers
<1>3. \A k \in ObjNum : View(k)' = IF k = n THEN w ELSE View(k)
  BY <1>2
<1> QED
  BY <1>3 DEF Table, Holder!Put

(* The calls of the parser's owner are the calls of a holder.              *)
LEMMA AddPlainly ==
    ASSUME PlainUse, IndInv, PlainInv, NEW n \in ObjNum, NEW v \in Edit,
           AddIndirectObject(n, v)
    PROVE  PlainInv' /\ [Holder!Next]_(Holder!vars)
<1>1. /\ stack = <<>> /\ IsNextObjNum(n)
      /\ cache' = With(cache, n, Plain(v))
      /\ entries' = With(entries, n, [type |-> 1, offset |-> 0, gen |-> 0])
      /\ call' = Called("add", n)
      /\ UNCHANGED <<file, open, objectStreams, position, stack, result>>
  BY DEF AddIndirectObject, Idle
<1>2. n \notin DOMAIN entries
  BY <1>1 DEF IsNextObjNum, IndInv, TypeOK, ObjNum
<1>3. /\ DOMAIN cache' = DOMAIN cache \cup {n} /\ cache'[n] = Plain(v)
      /\ \A k \in DOMAIN cache : k # n => cache'[k] = cache[k]
      /\ DOMAIN entries' = DOMAIN entries \cup {n} /\ entries'[n].type = 1
      /\ \A k \in DOMAIN entries : entries'[k] = entries[k]
  BY <1>1, <1>2 DEF With
<1>4. View(n) = Null
  <2>1. n \in DOMAIN cache => cache[n] = Null
    BY <1>2 DEF PlainInv, CachedListed
  <2>2. ~Compressed(n) /\ Meaning(n) = Null
    BY <1>2 DEF Compressed, HasEntry, Meaning, InUse
  <2> QED
    BY <2>1, <2>2, BareFacts DEF View
<1>5. View(n)' = Plain(v)
  <2>1. View(n)' = Bare(Plain(v))
    BY <1>3 DEF View, Bare
  <2> QED
    BY <2>1, BareFacts
<1>6. SameInner(n)
  <2>1. Inner(n)' = IF n \in DOMAIN objectStreams THEN Stream(objectStreams[n]) ELSE Plain(v)
    BY <1>1, <1>3 DEF Inner, Stream
  <2>2. n \notin DOMAIN objectStreams => Inner(n) = Null
    BY <1>2 DEF Inner, Meaning, InUse, HasEntry, PlainInv, CachedListed
  <2>3. n \in DOMAIN objectStreams => Inner(n) = Stream(objectStreams[n])
    BY DEF Inner
  <2> QED
    BY <2>1, <2>2, <2>3, BareFacts DEF SameInner
<1>7. Table' = Holder!Put(n, Plain(v))
  BY <1>1, <1>3, <1>5, <1>6, TouchOne
<1>8. [Holder!Next]_(Holder!vars)
  <2>1. Holder!Add(Plain(v))
    <3>1. Table[n] = Null
      BY <1>4 DEF Table
    <3>2. Asked = 0 /\ Asked' = Asked /\ Answered' = Answered
      BY <1>1 DEF Asked, Answered, Idle, Bare
    <3>3. call' = Holder!Called("add", n)
      BY <1>1 DEF Called, Holder!Called
    <3> QED
      BY <1>7, <3>1, <3>2, <3>3 DEF Holder!Add
  <2> QED
    BY <2>1 DEF Holder!Next
<1>9. OldCompressed' /\ OldListed' /\ CachedListed'
  BY <1>1, <1>3 DEF PlainInv, OldCompressed, OldListed, CachedListed
<1>10. DataOnly'
  <2>1. cache'[n].kind # "stream"
    BY <1>3, BareFacts
  <2> QED
    BY <1>1, <1>3, <2>1 DEF PlainInv, DataOnly
<1>11. PlainStack'
  BY <1>1 DEF PlainStack
<1> QED
  BY <1>8, <1>9, <1>10, <1>11 DEF PlainInv

LEMMA ReplacePlainly ==
    ASSUME PlainUse, IndInv, PlainInv, NEW n \in Replaceable, NEW v \in Edit,
           ReplaceIndirectObject(n, v)
    PROVE  PlainInv' /\ [Holder!Next]_(Holder!vars)
<1>1. /\ stack = <<>> /\ open
      /\ cache' = With(cache, n, Plain(v))
      /\ call' = Called("replace", n)
      /\ UNCHANGED <<file, open, entries, objectStreams, position, stack, result>>
  BY DEF ReplaceIndirectObject, Idle, PlainUse
<1>2. n \in ObjNum \ {0}
  BY ConstantsAssumption
<1>3. n \in DOMAIN entries
  <2>1. PlainFile(file)
    BY DEF PlainUse, IndInv
  <2> QED
    BY <1>1, <2>1 DEF PlainFile, PlainInv, OldListed
<1>4. /\ DOMAIN cache' = DOMAIN cache \cup {n} /\ cache'[n] = Plain(v)
      /\ \A k \in DOMAIN cache : k # n => cache'[k] = cache[k]
  BY <1>1 DEF With
<1>5. View(n)' = Plain(v)
  <2>1. View(n)' = Bare(Plain(v))
    BY <1>4 DEF View, Bare
  <2> QED
    BY <2>1, BareFacts
<1>6. \A k : Compressed(k) => Container(k) # n
  BY Containers
<1>7. Table' = Holder!Put(n, Plain(v))
  BY <1>1, <1>2, <1>4, <1>5, <1>6, TouchOne
<1>8. [Holder!Next]_(Holder!vars)
  <2>1. Holder!Replace(n, Plain(v))
    <3>1. Asked = 0 /\ Asked' = Asked /\ Answered' = Answered
      BY <1>1 DEF Asked, Answered, Idle, Bare
    <3>2. call' = Holder!Called("replace", n)
      BY <1>1 DEF Called, Holder!Called
    <3> QED
      BY <1>7, <3>1, <3>2 DEF Holder!Replace
  <2> QED
    BY <1>2, <2>1 DEF Holder!Next
<1>9. OldCompressed' /\ OldListed' /\ CachedListed'
  BY <1>1, <1>3, <1>4 DEF PlainInv, OldCompressed, OldListed, CachedListed
<1>10. DataOnly'
  <2>1. cache'[n].kind # "stream"
    BY <1>4, BareFacts
  <2> QED
    BY <1>1, <1>4, <2>1 DEF PlainInv, DataOnly
<1>11. PlainStack'
  BY <1>1 DEF PlainStack
<1> QED
  BY <1>8, <1>9, <1>10, <1>11 DEF PlainInv

LEMMA DeletePlainly ==
    ASSUME PlainUse, IndInv, PlainInv, NEW n \in Deletable, DeleteIndirectObject(n)
    PROVE  PlainInv' /\ [Holder!Next]_(Holder!vars)
<1>1. /\ stack = <<>>
      /\ cache' = Without(cache, n)
      /\ entries' = [k \in DOMAIN entries |->
                        IF k = n THEN [entries[k] EXCEPT !.type = 0] ELSE entries[k]]
      /\ call' = Called("delete", n)
      /\ UNCHANGED <<file, open, objectStreams, position, stack, result>>
  BY DEF DeleteIndirectObject, Idle
<1>2. n \in ObjNum \ {0}
  BY ConstantsAssumption
<1>3. /\ DOMAIN cache' = DOMAIN cache \ {n}
      /\ \A k \in DOMAIN cache' : cache'[k] = cache[k]
      /\ DOMAIN entries' = DOMAIN entries
      /\ \A k \in DOMAIN entries : k # n => entries'[k] = entries[k]
      /\ n \in DOMAIN entries => entries'[n].type = 0
  <2>1. n \in DOMAIN entries => entries[n] \in XRefEntry
    BY DEF IndInv, TypeOK
  <2> QED
    BY <1>1, <2>1 DEF Without, XRefEntry
<1>4. View(n)' = Null
  BY <1>3 DEF View, Compressed, HasEntry, Meaning, InUse
<1>5. \A k : Compressed(k) => Container(k) # n
  BY Containers
<1>6. Table' = Holder!Put(n, Null)
  <2>1. \A k : k # n => /\ k \in DOMAIN cache' <=> k \in DOMAIN cache
                        /\ k \in DOMAIN cache => cache'[k] = cache[k]
    BY <1>3
  <2> QED
    BY <1>1, <1>2, <1>3, <1>4, <1>5, <2>1, TouchOne
<1>7. [Holder!Next]_(Holder!vars)
  <2>1. Holder!Delete(n)
    <3>1. Asked = 0 /\ Asked' = Asked /\ Answered' = Answered
      BY <1>1 DEF Asked, Answered, Idle, Bare
    <3>2. call' = Holder!Called("delete", n)
      BY <1>1 DEF Called, Holder!Called
    <3> QED
      BY <1>6, <3>1, <3>2 DEF Holder!Delete, Holder!Removed
  <2> QED
    BY <1>2, <2>1 DEF Holder!Next
<1>8. OldCompressed' /\ OldListed' /\ CachedListed'
  BY <1>1, <1>3 DEF PlainInv, OldCompressed, OldListed, CachedListed
<1>9. DataOnly'
  BY <1>1, <1>3 DEF PlainInv, DataOnly
<1>10. PlainStack'
  BY <1>1 DEF PlainStack
<1> QED
  BY <1>7, <1>8, <1>9, <1>10 DEF PlainInv

LEMMA ClosePlainly ==
    ASSUME PlainUse, IndInv, PlainInv, Close
    PROVE  PlainInv' /\ [Holder!Next]_(Holder!vars)
<1>1. /\ stack = <<>> /\ open' = FALSE
      /\ cache' = Nothing /\ objectStreams' = Nothing /\ entries' = Nothing
      /\ call' = Called("close", 0)
      /\ UNCHANGED <<file, position, stack, result>>
  BY DEF Close, Idle
<1>2. DOMAIN Nothing = {}
  BY DEF Nothing
<1>3. Table' = Holder!Cleared
  <2>1. ASSUME NEW k \in ObjNum
        PROVE  View(k)' = Null
    BY <1>1, <1>2 DEF View, Compressed, HasEntry, Meaning, InUse
  <2> QED
    BY <2>1 DEF Table, Holder!Cleared
<1>4. [Holder!Next]_(Holder!vars)
  <2>1. Asked = 0 /\ Asked' = Asked /\ Answered' = Answered
    BY <1>1 DEF Asked, Answered, Idle, Bare
  <2>2. call' = Holder!Called("close", 0)
    BY <1>1 DEF Called, Holder!Called
  <2>3. Holder!Close
    BY <1>3, <2>1, <2>2 DEF Holder!Close
  <2> QED
    BY <2>3 DEF Holder!Next
<1>5. OldCompressed' /\ OldListed' /\ CachedListed' /\ DataOnly'
  BY <1>1, <1>2 DEF PlainInv, OldCompressed, OldListed, CachedListed, DataOnly
<1>6. PlainStack'
  BY <1>1 DEF PlainStack
<1> QED
  BY <1>4, <1>5, <1>6 DEF PlainInv

LEMMA AskPlainly ==
    ASSUME IndInv, PlainInv, NEW n \in ObjNum \ {0}, GetIndirectObject(n)
    PROVE  PlainInv' /\ [Holder!Next]_(Holder!vars)
<1>1. /\ stack = <<>> /\ call' = Called("get", n) /\ result' = NoResult
      /\ UNCHANGED <<file, open, entries, cache, objectStreams, position>>
      /\ stack' = <<[num |-> n, stage |-> "get"]>>
  BY DEF GetIndirectObject, Idle, Push
<1>2. Len(stack') = 1 /\ stack'[1] = [num |-> n, stage |-> "get"] /\ stack' # <<>>
  BY <1>1
<1>3. [Holder!Next]_(Holder!vars)
  <2>1. Table' = Table
    BY <1>1, TableStays
  <2>2. Asked = 0 /\ Asked' = n /\ Answered' = NoResult
    BY <1>1, <1>2 DEF Asked, Answered, Idle
  <2>3. call' = Holder!Called("get", n)
    BY <1>1 DEF Called, Holder!Called
  <2>4. Holder!Ask(n)
    BY <2>1, <2>2, <2>3 DEF Holder!Ask
  <2> QED
    BY <2>4 DEF Holder!Next
<1>4. OldCompressed' /\ OldListed' /\ CachedListed' /\ DataOnly'
  <2>1. result'.kind # "stream"
    BY <1>1, BareFacts
  <2> QED
    BY <1>1, <2>1 DEF PlainInv, OldCompressed, OldListed, CachedListed, DataOnly
<1>5. PlainStack'
  <2>1. Top'.stage = "get"
    BY <1>2 DEF Top
  <2> QED
    BY <1>2, <2>1 DEF PlainStack, Reading
<1> QED
  BY <1>3, <1>4, <1>5 DEF PlainInv

LEMMA CallPlainly ==
    ASSUME PlainUse, IndInv, PlainInv, Call
    PROVE  PlainInv' /\ [Holder!Next]_(Holder!vars)
  BY AskPlainly, AddPlainly, ReplacePlainly, DeletePlainly, ClosePlainly DEF Call

(* A set of numbers that is not empty has a least one.                     *)
LEMMA LeastNumber ==
    ASSUME NEW S, S \subseteq Nat, S # {}
    PROVE  \E m \in S : \A k \in S : m <= k
<1>1. PICK m \in S : \A k \in S : <<k, m>> \notin OpToRel(<, Nat)
  BY WFMin, NatLessThanWellFounded, Zenon
<1>2. \A k \in S : ~(k < m)
  BY <1>1 DEF OpToRel
<1>3. ASSUME NEW k \in S
      PROVE  m <= k
  <2>1. m \in Nat /\ k \in Nat /\ ~(k < m)
    BY <1>2
  <2> QED
    BY <2>1
<1> QED
  BY <1>3

LEMMA MeaningTypes ==
    ASSUME IndInv, NEW n
    PROVE  /\ Meaning(n) \in Object \cup {Null}
           /\ Meaning(n).kind = "stream" =>
                /\ Meaning(n).src \in Place
                /\ DataPlace(Meaning(n).src)
           /\ Bare(Meaning(n)) = Meaning(n)
<1>1. CASE InUse(n) /\ entries[n].offset \in DOMAIN file.at
  <2> DEFINE o == entries[n].offset
             item == file.at[o]
  <2>1. o \in Nat /\ item \in Item /\ o \in DOMAIN file.at
    BY <1>1, FileTypes
  <2>2. \/ Meaning(n) = Null
        \/ Meaning(n) = Link(At(o, "head"), item.to)
        \/ Meaning(n) = Plain(At(o, "head"))
        \/ Meaning(n) = Stream(At(o, "data"))
    BY <1>1 DEF Meaning
  <2>3. Link(At(o, "head"), item.to) \in Object
    BY <2>1 DEF Object, Link, At, Place, Item
  <2>4. Plain(At(o, "head")) \in Object
    BY <2>1 DEF Object, Plain, At, Place
  <2>5. /\ Stream(At(o, "data")) \in Object
        /\ At(o, "data") \in Place /\ DataPlace(At(o, "data"))
    BY <2>1 DEF Object, Stream, At, Place, DataPlace
  <2> QED
    BY <2>2, <2>3, <2>4, <2>5, BareFacts
<1>2. CASE ~(InUse(n) /\ entries[n].offset \in DOMAIN file.at)
  <2>1. Meaning(n) = Null
    BY <1>2 DEF Meaning
  <2> QED
    BY <2>1, BareFacts
<1> QED
  BY <1>1, <1>2

LEMMA ViewTypes ==
    ASSUME IndInv, cache = Nothing, objectStreams = Nothing, NEW n \in ObjNum
    PROVE  View(n) \in Object \cup {Null}
<1>1. n \notin DOMAIN cache /\ DOMAIN objectStreams = {} /\ DOMAIN cache = {}
  BY DEF Nothing
<1>2. CASE ~Compressed(n)
  BY <1>1, <1>2, MeaningTypes DEF View
<1>3. CASE Compressed(n)
  <2>1. n \in Nat /\ entries[n] \in XRefEntry
    BY <1>3, ConstantsAssumption DEF Compressed, HasEntry, IndInv, TypeOK, ObjNum
  <2>2. PICK i, c : i \in Nat /\ i = entries[n].offset /\ c = Container(n)
    BY <2>1 DEF XRefEntry
  <2>3. PICK v : v = Meaning(c)
    OBVIOUS
  <2>4. Inner(Container(n)) = v
    BY <1>1, <2>2, <2>3 DEF Inner
  <2>5. CASE v.kind = "stream"
    <3>1. PICK s : s = v.src
      OBVIOUS
    <3>2. s \in Place /\ DataPlace(s)
      BY <2>3, <2>5, <3>1, MeaningTypes
    <3>3. \E w : w \in FromObjectStream(n, i, s)
      <4>1. CASE s.part = "data"
        <5> DEFINE holds == file.at[s.off].holds
                   slots == {j \in 1..Len(holds) : holds[j] = n}
        <5>1. FromObjectStream(n, i, s) =
                IF i >= Len(holds) \/ slots = {} THEN {Null}
                ELSE IF holds[i + 1] = n THEN {Plain(Slot(s.off, i + 1))}
                ELSE {Plain(Slot(s.off, j)) : j \in {k \in slots : \A l \in slots : k <= l}}
          BY <4>1 DEF FromObjectStream
        <5>2. Len(holds) \in Nat
          BY <3>2, <4>1, FileTypes, LenProperties DEF DataPlace, Item
        <5>3. slots \subseteq Nat
          BY <5>2
        <5> HIDE DEF slots, holds
        <5>4. slots # {} => \E k \in slots : \A l \in slots : k <= l
          BY <5>3, LeastNumber
        <5> QED
          BY <5>1, <5>4
      <4>2. CASE s.part # "data"
        BY <4>2 DEF FromObjectStream
      <4> QED
        BY <4>1, <4>2
    <3>4. View(n) \in FromObjectStream(n, i, s)
      BY <1>1, <1>3, <2>2, <2>4, <2>5, <3>1, <3>3, CompressedInner DEF View
    <3> QED
      BY <2>1, <2>2, <3>2, <3>4, ObjectStreamYields
  <2>6. CASE v.kind # "stream"
    BY <1>1, <1>3, <2>4, <2>6, CompressedInner DEF View
  <2> QED
    BY <2>5, <2>6
<1> QED
  BY <1>2, <1>3

(* At first the table is what the file says.                               *)
LEMMA InitPlainly ==
    ASSUME Init
    PROVE  PlainInv /\ Holder!Init
<1>1. IndInv
  BY InitIndInv
<1>2. /\ DOMAIN cache = {} /\ DOMAIN objectStreams = {} /\ entries = file.entries
      /\ stack = <<>> /\ result = NoResult
  BY DEF Init, Nothing
<1>3. PlainInv
  BY <1>2, BareFacts DEF PlainInv, OldCompressed, OldListed, CachedListed, DataOnly, PlainStack
<1>4. Holder!Init
  <2>1. Table \in [ObjNum -> Object \cup {Null}]
    <3>1. \A n \in ObjNum : View(n) \in Object \cup {Null}
      BY <1>1, ViewTypes DEF Init
    <3> QED
      BY <3>1 DEF Table
  <2>2. Asked = 0 /\ Answered = NoResult
    BY <1>2, BareFacts DEF Asked, Answered, Idle
  <2>3. call = Holder!Called("parse", 0)
    BY DEF Init, Called, Holder!Called
  <2> QED
    BY <2>1, <2>2, <2>3 DEF Holder!Init
<1> QED
  BY <1>3, <1>4

(* In a file whose lengths are direct (and whose object streams nobody     *)
(* replaces) every sequence of calls gets the answers it would get from    *)
(* the plain table of objects: neither the cache, nor the one cursor, nor  *)
(* the object streams opened on the way can be told from outside, in       *)
(* whatever order objects are asked for.  The safety half of               *)
(* ImplementsHolder; that requests are answered at all stays with TLC.     *)
THEOREM ParserImplementsHolder == PlainUse /\ Spec => Holder!Safety
<1> SUFFICES ASSUME PlainUse PROVE Spec => Holder!Safety
  OBVIOUS
<1>1. Init => IndInv /\ PlainInv /\ Holder!Init
  BY InitIndInv, InitPlainly
<1>2. IndInv /\ PlainInv /\ [Next]_vars
        => IndInv' /\ PlainInv' /\ [Holder!Next]_(Holder!vars)
  <2> SUFFICES ASSUME IndInv, PlainInv, [Next]_vars
               PROVE  IndInv' /\ PlainInv' /\ [Holder!Next]_(Holder!vars)
    OBVIOUS
  <2>1. IndInv'
    BY NextIndInv
  <2>2. CASE UNCHANGED vars
    <3>1. UNCHANGED <<file, open, entries, cache, objectStreams, position, stack, result, call>>
      BY <2>2 DEF vars
    <3>2. Table' = Table
      BY <3>1, TableStays
    <3>3. UNCHANGED Holder!vars
      BY <3>1, <3>2 DEF Holder!vars, Asked, Answered, Idle, Bare
    <3>4. OldCompressed' /\ OldListed' /\ CachedListed' /\ DataOnly'
      BY <3>1 DEF PlainInv, OldCompressed, OldListed, CachedListed, DataOnly
    <3>5. PlainStack'
      BY <3>1 DEF PlainInv, PlainStack, Reading, Opening, Top, Container
    <3> QED
      BY <2>1, <3>3, <3>4, <3>5 DEF PlainInv
  <2> QED
    BY <2>1, <2>2, CallPlainly, ContinuePlainly DEF Next
<1> QED
  BY <1>1, <1>2, PTL DEF Spec, Holder!Safety
=============================================================================
