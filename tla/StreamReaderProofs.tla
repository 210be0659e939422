------------------------- MODULE StreamReaderProofs -------------------------
(***************************************************************************)
(* Proofs about StreamReader, for all files, buffer sizes and patterns,    *)
(* and for failures between any two bytes.                                 *)
(*                                                                         *)
(* EndFound says where a search has arrived; IndInv adds what it knows on  *)
(* the way: SearchOK, MatchOK and TrimOK, one for each of its loops.       *)
(***************************************************************************)
EXTENDS StreamReader, SequenceTheorems, TLAPS

Readers ==
    [position : 0 .. Size, buffer : Seq(Byte), bufferStart : 0 .. Size, bufferEnd : 0 .. Size]

Answers == [searched : BOOLEAN, start : 0 .. Size, length : 0 .. Size, thrown : BOOLEAN]

(* A failure is noted.                                                     *)
FileOK ==
    /\ file \in Seq(Byte)
    /\ present \in 0 .. Size
    /\ works \in BOOLEAN /\ failed \in BOOLEAN
    /\ ~failed => Delivering

ReaderOK(r) ==
    /\ r \in Readers
    /\ r.bufferEnd = r.bufferStart + Len(r.buffer)
    /\ \A i \in 1 .. Len(r.buffer) : r.buffer[i] = file[r.bufferStart + i]

LocalsOK ==
    /\ pc \in {"idle", "search", "match", "trim", "data", "space", "keyword"}
    /\ searching \in BOOLEAN
    /\ startPos \in 0 .. Size
    /\ matched \in 0 .. Len(Pattern)
    /\ length \in Int
    /\ answer \in Answers

(* The end the code looks for.                                             *)
RightEnd(f) ==
    f \in Ends(startPos) /\ IsFirst(f, Ends(startPos)) /\ OnItsOwnLine(f, startPos)

(* It has not been passed at n.                                            *)
NoneBefore(n) == \A f \in Ends(startPos) : RightEnd(f) => n <= f

SearchOK ==
    /\ length = 0
    /\ reader.position >= startPos
    /\ ~failed => NoneBefore(reader.position)

MatchOK ==
    /\ length = 0
    /\ matched \in 1 .. Len(Pattern) - 1
    /\ reader.position - matched >= startPos
    /\ \A i \in 1 .. matched : file[reader.position - matched + i] = Pattern[i]
    /\ ~failed => NoneBefore(reader.position - matched)

TrimOK ==
    /\ length \in Nat
    /\ \E p \in startPos + length .. Size : PatternAt(p) /\ AllWhite(startPos + length, p)
    /\ ~failed =>
          \A f \in Ends(startPos) :
              RightEnd(f) => startPos + length <= f /\ AllWhite(startPos + length, f)

DataOK == length \in Nat /\ reader.position = startPos /\ FoundIsEnd /\ FirstEndFound

PlaceOK ==
    /\ pc = "search" => searching /\ SearchOK
    /\ pc = "match" => searching /\ MatchOK
    /\ pc = "trim" => searching /\ TrimOK
    /\ pc = "data" /\ searching => DataOK

IndInv == FileOK /\ ReaderOK(reader) /\ LocalsOK /\ PlaceOK

-----------------------------------------------------------------------------
(* The operations of the reader.                                           *)

LEMMA PositionMoved ==
    ASSUME FileOK, NEW r, ReaderOK(r), NEW pos \in 0 .. Size
    PROVE  /\ ReaderOK([r EXCEPT !.position = pos])
           /\ [r EXCEPT !.position = pos].position = pos
<1> DEFINE moved == [r EXCEPT !.position = pos]
<1>1. moved \in Readers /\ moved.position = pos
  BY DEF ReaderOK, Readers
<1>2. moved.buffer = r.buffer /\ moved.bufferStart = r.bufferStart /\ moved.bufferEnd = r.bufferEnd
  BY DEF ReaderOK, Readers
<1> HIDE DEF moved
<1>3. ReaderOK(moved)
  BY <1>1, <1>2 DEF ReaderOK
<1> QED
  BY <1>1, <1>3 DEF moved

LEMMA PositionSought ==
    ASSUME FileOK, NEW r, ReaderOK(r), NEW pos \in Int
    PROVE  /\ ReaderOK(Seek(r, pos))
           /\ pos \in 0 .. Size => Seek(r, pos).position = pos
<1> DEFINE to == IF pos < 0 THEN 0 ELSE Lesser(pos, Size)
<1>1. Size \in Nat
  BY DEF FileOK, Size
<1>2. to \in 0 .. Size /\ (pos \in 0 .. Size => to = pos)
  BY <1>1 DEF Lesser
<1> HIDE DEF to
<1>3. Seek(r, pos) = [r EXCEPT !.position = to]
  BY DEF Seek, to
<1> QED
  BY <1>2, <1>3, PositionMoved

LEMMA BlockOfFile ==
    ASSUME FileOK, NEW pos \in 0 .. Size, NEW n \in Nat
    PROVE  /\ ReadBlock(pos, n) \in Seq(Byte)
           /\ Len(ReadBlock(pos, n)) \in 0 .. Size - pos
           /\ Len(ReadBlock(pos, n)) <= n
           /\ \A i \in 1 .. Len(ReadBlock(pos, n)) : ReadBlock(pos, n)[i] = file[pos + i]
           /\ present = Size /\ pos < Size /\ n > 0 => Len(ReadBlock(pos, n)) > 0
<1> DEFINE last == Lesser(pos + n, present)
<1>1. last \in 0 .. Size /\ last - pos <= n /\ Size \in Nat /\ present \in Int
  BY DEF FileOK, Size, Lesser
<1>2. \A i \in pos + 1 .. last : file[i] \in Byte
  BY <1>1, ElementOfSeq DEF FileOK, Size
<1>3. /\ SubSeq(file, pos + 1, last) \in Seq(Byte)
      /\ Len(SubSeq(file, pos + 1, last)) = IF pos + 1 <= last THEN last - (pos + 1) + 1 ELSE 0
      /\ \A i \in 1 .. last - (pos + 1) + 1 :
            SubSeq(file, pos + 1, last)[i] = file[pos + 1 + i - 1]
  BY <1>1, <1>2, SubSeqProperties DEF FileOK, Size
<1>4. ReadBlock(pos, n) = SubSeq(file, pos + 1, last)
  BY DEF ReadBlock
<1>5. present = Size /\ pos < Size /\ n > 0 => pos + 1 <= last
  BY <1>1 DEF Lesser
<1> HIDE DEF last
<1> QED
  BY <1>1, <1>3, <1>4, <1>5

LEMMA BufferFilled ==
    ASSUME FileOK, NEW r, ReaderOK(r)
    PROVE  /\ ReaderOK(Filled(r))
           /\ Filled(r).position = r.position
           /\ Delivering /\ ~AtEnd(r) => InBuffer(Filled(r))
<1> DEFINE data == ReadBlock(r.position, BufferSize)
<1>1. r.position \in 0 .. Size /\ BufferSize \in Nat /\ BufferSize > 0 /\ Size \in Nat
  BY BufferSizeAssumption DEF ReaderOK, Readers, FileOK, Size
<1>2. /\ data \in Seq(Byte)
      /\ Len(data) \in 0 .. Size - r.position
      /\ \A i \in 1 .. Len(data) : data[i] = file[r.position + i]
      /\ present = Size /\ r.position < Size => Len(data) > 0
  BY <1>1, BlockOfFile
<1> HIDE DEF data
<1>3. CASE works
  <2>1. Filled(r) = [r EXCEPT !.buffer = data, !.bufferStart = r.position,
                              !.bufferEnd = r.position + Len(data)]
    BY <1>3 DEF Filled, data
  <2>2. /\ Filled(r) \in Readers
        /\ Filled(r).position = r.position /\ Filled(r).buffer = data
        /\ Filled(r).bufferStart = r.position /\ Filled(r).bufferEnd = r.position + Len(data)
    <3>1. r \in Readers /\ r.position + Len(data) \in 0 .. Size
      BY <1>1, <1>2 DEF ReaderOK
    <3>2. Filled(r) \in Readers
      BY <1>1, <1>2, <2>1, <3>1 DEF Readers
    <3>3. Filled(r).position = r.position /\ Filled(r).buffer = data
      BY <2>1, <3>1 DEF Readers
    <3>4. Filled(r).bufferStart = r.position /\ Filled(r).bufferEnd = r.position + Len(data)
      BY <2>1, <3>1 DEF Readers
    <3> QED
      BY <3>2, <3>3, <3>4
  <2>3. Delivering /\ ~AtEnd(r) => Len(data) > 0
    BY <1>1, <1>2 DEF Delivering, AtEnd
  <2> QED
    BY <1>1, <1>2, <2>2, <2>3 DEF ReaderOK, InBuffer
<1>4. CASE ~works
  BY <1>4 DEF Filled, Delivering
<1> QED
  BY <1>3, <1>4

(* A byte read is the byte of the file at the position, or none.           *)
LEMMA BytePeeked ==
    ASSUME FileOK, NEW r, ReaderOK(r)
    PROVE  /\ ReaderOK(PeekByte(r).reader)
           /\ PeekByte(r).reader.position = r.position
           /\ PeekByte(r).byte # Eof => r.position < Size
           /\ PeekByte(r).byte \in Byte \cup {Eof, RangeError}
           /\ PeekByte(r).byte \in Byte => PeekByte(r).byte = file[r.position + 1]
           /\ Delivering /\ r.position < Size => PeekByte(r).byte \in Byte
<1> DEFINE q == IF AtEnd(r) \/ InBuffer(r) THEN r ELSE Filled(r)
<1>1. /\ ReaderOK(q) /\ q.position = r.position
      /\ Delivering /\ ~AtEnd(r) => InBuffer(q)
  BY BufferFilled
<1> HIDE DEF q
<1>2. PeekByte(r) = [reader |-> q, byte |-> IF AtEnd(r) THEN Eof ELSE ByteIn(q)]
  BY DEF PeekByte, q
<1>3. /\ q.position \in Int /\ q.bufferStart \in Int /\ q.buffer \in Seq(Byte)
      /\ q.bufferEnd = q.bufferStart + Len(q.buffer) /\ Len(q.buffer) \in Nat
      /\ \A i \in 1 .. Len(q.buffer) : q.buffer[i] = file[q.bufferStart + i]
  BY <1>1 DEF ReaderOK, Readers
<1>4. InBuffer(q) => /\ ByteIn(q) = q.buffer[q.position - q.bufferStart + 1]
                     /\ q.position - q.bufferStart + 1 \in 1 .. Len(q.buffer)
  <2> SUFFICES ASSUME InBuffer(q)
               PROVE  /\ ByteIn(q) = q.buffer[q.position - q.bufferStart + 1]
                      /\ q.position - q.bufferStart + 1 \in 1 .. Len(q.buffer)
    OBVIOUS
  <2>1. q.bufferStart <= q.position /\ q.position < q.bufferEnd
    BY DEF InBuffer
  <2>2. ~(q.position >= q.bufferEnd) /\ ~(q.position < q.bufferStart)
    BY <1>3, <2>1
  <2>3. ByteIn(q) = q.buffer[q.position - q.bufferStart + 1]
    BY <2>2, Zenon DEF ByteIn
  <2> QED
    BY <1>3, <2>1, <2>3
<1>5. InBuffer(q) => ByteIn(q) \in Byte /\ ByteIn(q) = file[q.position + 1]
  <2> DEFINE k == q.position - q.bufferStart + 1
  <2>1. q.bufferStart + k = q.position + 1
    BY <1>3
  <2>2. k \in 1 .. Len(q.buffer) => q.buffer[k] \in Byte /\ q.buffer[k] = file[q.bufferStart + k]
    BY <1>3, ElementOfSeq
  <2> QED
    BY <1>4, <2>1, <2>2
<1>6. ~InBuffer(q) => ByteIn(q) \in {Eof, RangeError}
  <2>1. \/ q.position >= q.bufferEnd
        \/ q.position < q.bufferStart
        \/ q.bufferStart <= q.position /\ q.position < q.bufferEnd
    BY <1>3
  <2> QED
    BY <2>1, Zenon DEF InBuffer, ByteIn
<1>7. ~AtEnd(r) <=> r.position < Size
  BY DEF AtEnd, ReaderOK, Readers, FileOK, Size
<1>8. PeekByte(r).reader = q /\ PeekByte(r).byte = IF AtEnd(r) THEN Eof ELSE ByteIn(q)
  BY <1>2
<1>9. Eof \notin Byte /\ RangeError \notin Byte
  BY ByteAssumption
<1> QED
  BY <1>1, <1>5, <1>6, <1>7, <1>8, <1>9

LEMMA ByteOfFile ==
    ASSUME FileOK, NEW r, ReaderOK(r)
    PROVE  /\ ReaderOK(ReadByte(r).reader)
           /\ ReadByte(r).byte \in Byte \cup {Eof, RangeError}
           /\ ReadByte(r).byte = Eof => ReadByte(r).reader.position = r.position
           /\ ReadByte(r).byte # Eof => /\ r.position < Size
                                        /\ ReadByte(r).reader.position = r.position + 1
           /\ ReadByte(r).byte \in Byte => ReadByte(r).byte = file[r.position + 1]
           /\ Delivering /\ r.position < Size => ReadByte(r).byte \in Byte
<1> DEFINE peeked == PeekByte(r)
<1>1. /\ ReaderOK(peeked.reader)
      /\ peeked.reader.position = r.position
      /\ peeked.byte # Eof => r.position < Size
      /\ peeked.byte \in Byte \cup {Eof, RangeError}
      /\ peeked.byte \in Byte => peeked.byte = file[r.position + 1]
      /\ Delivering /\ r.position < Size => peeked.byte \in Byte
  BY BytePeeked
<1>2. DOMAIN peeked = {"reader", "byte"} /\ peeked = [reader |-> peeked.reader, byte |-> peeked.byte]
  BY DEF PeekByte
<1>3. ReadByte(r) = IF peeked.byte = Eof THEN peeked
                    ELSE [peeked EXCEPT !.reader.position = @ + 1]
  BY DEF ReadByte
<1> HIDE DEF peeked
<1>4. CASE peeked.byte = Eof
  BY <1>1, <1>3, <1>4
<1>5. CASE peeked.byte # Eof
  <2>1. /\ ReadByte(r).byte = peeked.byte
        /\ ReadByte(r).reader = [peeked.reader EXCEPT !.position = @ + 1]
    BY <1>2, <1>3, <1>5
  <2>2. r.position + 1 \in 0 .. Size
    <3>1. r.position \in 0 .. Size /\ Size \in Nat
      BY DEF ReaderOK, Readers, FileOK, Size
    <3> QED
      BY <1>1, <1>5, <3>1
  <2>3. ReadByte(r).reader = [peeked.reader EXCEPT !.position = r.position + 1]
    BY <1>1, <2>1
  <2> QED
    BY <1>1, <1>5, <2>1, <2>2, <2>3, PositionMoved
<1> QED
  BY <1>4, <1>5

LEMMA LineEndSkipped ==
    ASSUME FileOK, NEW r, ReaderOK(r)
    PROVE  ReaderOK(AfterEndOfLine(r).reader)
<1> DEFINE first == ReadByte(r)
           next == PeekByte(first.reader)
<1>1. ReaderOK(first.reader)
  BY ByteOfFile
<1> HIDE DEF first
<1>2. ReaderOK(next.reader)
  BY <1>1, BytePeeked
<1> HIDE DEF next
<1>3. ReaderOK(ReadByte(next.reader).reader)
  BY <1>2, ByteOfFile
<1> QED
  BY <1>1, <1>2, <1>3 DEF AfterEndOfLine, first, next

LEMMA DataRead ==
    ASSUME FileOK, NEW r, ReaderOK(r), NEW count \in Int
    PROVE  ReaderOK(ReadBytes(r, count)) /\ Len(BytesAt(r, count)) \in 0 .. Size
<1>1. Size \in Nat /\ r.position \in 0 .. Size
  BY DEF FileOK, Size, ReaderOK, Readers
<1>2. Len(BytesAt(r, count)) \in 0 .. Size - r.position
  <2>1. CASE AtEnd(r) \/ count <= 0 \/ ~works
    BY <1>1, <2>1, EmptySeq DEF BytesAt
  <2>2. CASE ~(AtEnd(r) \/ count <= 0 \/ ~works)
    <3>1. Lesser(count, Size - r.position) \in Nat
      BY <1>1, <2>2 DEF Lesser
    <3> QED
      BY <1>1, <2>2, <3>1, BlockOfFile DEF BytesAt
  <2> QED
    BY <2>1, <2>2
<1>3. r.position + Len(BytesAt(r, count)) \in 0 .. Size
  BY <1>1, <1>2
<1>4. ReadBytes(r, count) = [r EXCEPT !.position = r.position + Len(BytesAt(r, count))]
  BY DEF ReadBytes
<1> QED
  BY <1>1, <1>2, <1>3, <1>4, PositionMoved

-----------------------------------------------------------------------------
(* Ends of streams.                                                        *)

LEMMA PatternFacts ==
    /\ Pattern \in Seq(Byte) /\ Len(Pattern) \in Nat /\ Len(Pattern) > 1
    /\ \A i \in 1 .. Len(Pattern) : Pattern[i] \in Byte /\ Pattern[i] \notin White
BY PatternAssumption, ElementOfSeq

LEMMA PatternBytewise ==
    ASSUME FileOK, NEW p \in Nat
    PROVE  PatternAt(p) <=> /\ p + Len(Pattern) <= Size
                            /\ \A i \in 1 .. Len(Pattern) : file[p + i] = Pattern[i]
<1> DEFINE n == Len(Pattern)
           part == SubSeq(file, p + 1, p + n)
<1>1. n \in Nat /\ n > 1 /\ Size \in Nat
  BY PatternFacts DEF FileOK, Size
<1>2. CASE p + n <= Size
  <2>1. \A i \in p + 1 .. p + n : file[i] \in Byte
    BY <1>1, <1>2, ElementOfSeq DEF FileOK, Size
  <2>2. p + 1 \in Int /\ p + n \in Int
    BY <1>1
  <2>3. /\ part \in Seq(Byte)
        /\ Len(part) = IF p + 1 <= p + n THEN (p + n) - (p + 1) + 1 ELSE 0
        /\ \A i \in 1 .. (p + n) - (p + 1) + 1 : part[i] = file[(p + 1) + i - 1]
    BY <2>1, <2>2, SubSeqProperties DEF FileOK, Size
  <2>4. Len(part) = n /\ \A i \in 1 .. n : part[i] = file[p + i]
    BY <1>1, <2>3
  <2> HIDE DEF part
  <2>5. part = Pattern <=> \A i \in 1 .. n : part[i] = Pattern[i]
    BY <2>3, <2>4, PatternFacts, SeqEqual
  <2> QED
    BY <1>2, <2>4, <2>5 DEF PatternAt, part
<1>3. CASE ~(p + n <= Size)
  BY <1>3 DEF PatternAt
<1> QED
  BY <1>2, <1>3

(* The place Untrimmed chooses is the only one of its kind.                *)
LEMMA UntrimmedFound ==
    ASSUME NEW from \in Int, NEW end \in Int, NEW p \in from .. end,
           AllWhite(p, end), p = from \/ file[p] \notin White
    PROVE  Untrimmed(from, end) = p
<1> DEFINE Is(q) == AllWhite(q, end) /\ (q = from \/ file[q] \notin White)
<1>1. ASSUME NEW q \in from .. end, Is(q)
      PROVE  q = p
  BY <1>1 DEF AllWhite
<1> HIDE DEF Is
<1>2. (CHOOSE q \in from .. end : Is(q)) = p
  <2>1. Is(p)
    BY DEF Is
  <2> QED
    BY <1>1, <2>1
<1> QED
  BY <1>2 DEF Untrimmed, Is

(* A place where the bytes read so far do not go on like the pattern is    *)
(* none of the ends, and none lies inside of them.                         *)
LEMMA MismatchPassed ==
    ASSUME FileOK, startPos \in Nat, NEW p \in Nat, NEW m \in Nat, m < Len(Pattern),
           p >= startPos, p + m <= Size,
           \A i \in 1 .. m : file[p + i] = Pattern[i],
           p + m < Size => file[p + m + 1] # Pattern[m + 1],
           NoneBefore(p)
    PROVE  NoneBefore(p + m) /\ NoneBefore(p + m + 1)
<1>1. Size \in Nat
  BY DEF FileOK, Size
<1>2. ASSUME NEW f \in Ends(startPos), RightEnd(f)
      PROVE  f >= p + m + 1
  <2>1. f \in startPos .. Size /\ f \in Nat /\ PatternAt(f) /\ f >= p
    BY <1>2, <1>1 DEF Ends, NoneBefore
  <2>2. f # p
    <3>0. p + m + 1 = p + (m + 1)
      OBVIOUS
    <3>1. m + 1 \in 1 .. Len(Pattern)
      BY PatternFacts
    <3>2. PatternAt(p) => p + m < Size /\ file[p + (m + 1)] = Pattern[m + 1]
      BY <1>1, <3>1, PatternBytewise, PatternFacts
    <3> QED
      BY <2>1, <3>0, <3>2
  <2>3. f > p => file[f] \in White
    BY <1>2, <2>1 DEF RightEnd, OnItsOwnLine
  <2>4. ASSUME f > p, f <= p + m
        PROVE  FALSE
    <3>1. f - p \in 1 .. m /\ file[p + (f - p)] = Pattern[f - p]
      BY <2>1, <2>4
    <3> QED
      BY <2>1, <2>3, <2>4, <3>1, PatternFacts
  <2> QED
    BY <2>1, <2>2, <2>4
<1> QED
  BY <1>2 DEF NoneBefore, Ends

LEMMA SameEnds ==
    ASSUME UNCHANGED <<file, startPos>>
    PROVE  /\ Size' = Size /\ Ends(startPos)' = Ends(startPos)
           /\ \A f : RightEnd(f)' <=> RightEnd(f)
           /\ \A p : PatternAt(p)' <=> PatternAt(p)
           /\ \A f : Untrimmed(startPos, f)' = Untrimmed(startPos, f)
BY DEF Size, Ends, RightEnd, IsFirst, OnItsOwnLine, PatternAt, Untrimmed, AllWhite

-----------------------------------------------------------------------------
(* The steps.                                                              *)

LEMMA Initially == Init => IndInv
<1> SUFFICES ASSUME Init PROVE IndInv
  OBVIOUS
<1>1. file \in Seq(Byte) /\ Size \in Nat /\ present = Size
  BY FilesAssumption DEF Init, ReaderInit, Size
<1>2. FileOK
  <2>1. works \in BOOLEAN /\ failed \in BOOLEAN /\ works /\ ~failed
    BY Zenon DEF Init, ReaderInit
  <2> QED
    BY <1>1, <2>1 DEF FileOK, Delivering
<1>3. ReaderOK(reader)
  <2>1. <<>> \in Seq(Byte) /\ Len(<<>>) = 0
    BY EmptySeq
  <2> QED
    BY <1>1, <2>1 DEF Init, ReaderInit, ReaderOK, Readers
<1>4. LocalsOK
  <2>1. answer \in Answers
    <3>1. 0 \in 0 .. Size /\ FALSE \in BOOLEAN
      BY <1>1
    <3> QED
      BY <3>1, Zenon DEF Init, NoAnswer, Answers
  <2>2. searching \in BOOLEAN
    BY Zenon DEF Init
  <2> QED
    BY <1>1, <2>1, <2>2, PatternFacts DEF Init, LocalsOK
<1> QED
  BY <1>2, <1>3, <1>4 DEF IndInv, PlaceOK, Init

LEMMA Gone ==
    ASSUME IndInv, NEW read, ReaderOK(read.reader), NEW to, Goes(read, to), UNCHANGED streamVars
    PROVE  /\ FileOK' /\ ReaderOK(reader)' /\ Size' = Size
           /\ answer' \in Answers'
           /\ reader' = read.reader
           /\ pc' = IF read.byte = RangeError THEN "idle" ELSE to
<1>1. FileOK' /\ Size' = Size
  BY DEF IndInv, FileOK, streamVars, Size, Delivering
<1>2. ReaderOK(reader)'
  BY DEF Goes, ReaderOK, Readers, streamVars, Size
<1>3. answer' \in Answers'
  <2>1. 0 \in 0 .. Size
    BY DEF IndInv, FileOK, Size
  <2>2. NoAnswer \in Answers
    BY <2>1, Zenon DEF NoAnswer, Answers
  <2> QED
    BY <1>1, <2>2 DEF Goes, IndInv, LocalsOK, Answers
<1> QED
  BY <1>1, <1>2, <1>3 DEF Goes

LEMMA BeginStep ==
    ASSUME IndInv, NEW pos \in 0 .. MaxPosition, NEW declared \in Lengths, Begin(pos, declared)
    PROVE  IndInv'
<1> DEFINE behind == AfterEndOfLine(Seek(reader, pos))
           to == IF declared > 0 THEN "data" ELSE "search"
<1>1. pos \in Int /\ declared \in Int
  BY BoundsAssumption
<1>2. ReaderOK(behind.reader)
  BY <1>1, PositionSought, LineEndSkipped DEF IndInv
<1>3. Goes(behind, to) /\ startPos' = behind.reader.position /\ UNCHANGED streamVars
  BY DEF Begin
<1>4. /\ FileOK' /\ ReaderOK(reader)' /\ Size' = Size
      /\ answer' \in Answers'
      /\ reader' = behind.reader
      /\ pc' = IF behind.byte = RangeError THEN "idle" ELSE to
  BY <1>2, <1>3, Gone
<1> HIDE DEF behind
<1>5. startPos' \in 0 .. Size /\ reader'.position = startPos'
  BY <1>2, <1>3, <1>4 DEF ReaderOK, Readers
<1>6. /\ searching' = (declared <= 0)
      /\ length' = IF declared > 0 THEN declared ELSE 0
      /\ matched' = 0
  BY DEF Begin
<1>7. LocalsOK'
  BY <1>1, <1>4, <1>5, <1>6, PatternFacts DEF LocalsOK
<1>8. ASSUME pc' = "search"
      PROVE  searching' /\ SearchOK'
  <2>1. declared <= 0
    BY <1>1, <1>4, <1>8
  <2>2. NoneBefore(reader.position)'
    BY <1>4, <1>5 DEF NoneBefore, Ends
  <2>3. length' = 0 /\ reader'.position >= startPos'
    BY <1>1, <1>4, <1>5, <1>6, <2>1 DEF IndInv, FileOK, Size
  <2> QED
    BY <1>6, <2>1, <2>2, <2>3 DEF SearchOK
<1>9. ~(pc' = "data" /\ searching')
  <2>1. CASE declared > 0
    <3>1. ~(declared <= 0)
      BY <1>1, <2>1
    <3> QED
      BY <1>6, <3>1
  <2>2. CASE ~(declared > 0)
    BY <1>4, <2>2
  <2> QED
    BY <2>1, <2>2
<1> QED
  BY <1>4, <1>7, <1>8, <1>9 DEF IndInv, PlaceOK

LEMMA SearchStep ==
    ASSUME IndInv, Search
    PROVE  IndInv'
<1> DEFINE read == ReadByte(reader)
           p == reader.position
<1>1. /\ ReaderOK(read.reader)
      /\ read.byte \in Byte \cup {Eof, RangeError}
      /\ read.byte = Eof => read.reader.position = p
      /\ read.byte # Eof => p < Size /\ read.reader.position = p + 1
      /\ read.byte \in Byte => read.byte = file[p + 1]
      /\ Delivering /\ p < Size => read.byte \in Byte
  BY ByteOfFile DEF IndInv
<1>2. /\ pc = "search" /\ searching /\ ~AtEnd(reader) /\ UNCHANGED <<streamVars, searching, startPos, length>>
      /\ SearchOK /\ FileOK /\ LocalsOK
  BY DEF Search, IndInv, PlaceOK
<1>3. p \in 0 .. Size /\ Size \in Nat /\ p < Size /\ p >= startPos /\ startPos \in 0 .. Size
  BY <1>2 DEF IndInv, FileOK, Size, ReaderOK, Readers, AtEnd, SearchOK, LocalsOK
<1>4. Pattern[1] \in Byte /\ Len(Pattern) > 1 /\ Len(Pattern) \in Nat
  BY PatternFacts
<1>5. CASE read.byte = Pattern[1]
  <2>1. Goes(read, "match") /\ matched' = 1 /\ read.byte \in Byte
    BY <1>4, <1>5 DEF Search
  <2>2. /\ FileOK' /\ ReaderOK(reader)' /\ Size' = Size
        /\ answer' \in Answers'
        /\ reader' = read.reader
        /\ pc' = "match"
    BY <1>1, <1>2, <2>1, Gone, ByteAssumption
  <2>3. reader'.position = p + 1 /\ file[p + 1] = Pattern[1]
    BY <1>1, <1>5, <2>1, <2>2, ByteAssumption
  <2> HIDE DEF read
  <2>4. LocalsOK'
    BY <1>2, <1>4, <2>1, <2>2 DEF LocalsOK, streamVars
  <2>5. MatchOK'
    <3>1. ~failed' => NoneBefore(reader.position - matched)'
      BY <1>2, <1>3, <2>1, <2>3, SameEnds DEF SearchOK, NoneBefore, streamVars
    <3> QED
      BY <1>2, <1>3, <1>4, <2>1, <2>3, <3>1 DEF SearchOK, MatchOK, streamVars
  <2> QED
    BY <1>2, <2>2, <2>4, <2>5 DEF IndInv, PlaceOK
<1>6. CASE read.byte # Pattern[1]
  <2>1. Goes(read, "search") /\ matched' = matched
    BY <1>6 DEF Search
  <2>2. /\ FileOK' /\ ReaderOK(reader)' /\ Size' = Size
        /\ answer' \in Answers'
        /\ reader' = read.reader
        /\ pc' \in {"idle", "search"}
    BY <1>1, <1>2, <2>1, Gone
  <2>3. LocalsOK'
    BY <1>2, <2>1, <2>2 DEF LocalsOK, streamVars
  <2>4. reader'.position \in {p, p + 1}
    BY <1>1, <2>2
  <2>5. ~failed => file[p + 1] # Pattern[1]
    BY <1>1, <1>2, <1>3, <1>6 DEF FileOK
  <2> HIDE DEF read
  <2>6. ~failed => NoneBefore(p) /\ NoneBefore(p + 1)
    <3>1. SUFFICES ASSUME ~failed PROVE NoneBefore(p) /\ NoneBefore(p + 1)
      OBVIOUS
    <3>2. NoneBefore(p) /\ p \in Nat /\ startPos \in Nat
      BY <1>2, <1>3, <3>1 DEF SearchOK
    <3> HIDE DEF p
    <3>3. p + 0 = p /\ p + 0 + 1 = p + 1 /\ 0 + 1 = 1 /\ p + 0 <= Size
      BY <1>3, <3>2
    <3>4. 0 < Len(Pattern) /\ \A i \in 1 .. 0 : file[p + i] = Pattern[i]
      BY <1>4
    <3>5. NoneBefore(p + 0) /\ NoneBefore(p + 0 + 1)
      BY <1>2, <1>3, <2>5, <3>1, <3>2, <3>3, <3>4, MismatchPassed
    <3> QED
      BY <3>3, <3>5
  <2>7. SearchOK'
    <3>1. ~failed' => NoneBefore(reader.position)'
      BY <1>2, <2>4, <2>6, SameEnds DEF NoneBefore, streamVars
    <3> QED
      BY <1>2, <1>3, <2>4, <3>1 DEF SearchOK
  <2> QED
    BY <1>2, <2>2, <2>3, <2>7 DEF IndInv, PlaceOK
<1> QED
  BY <1>5, <1>6

LEMMA NotFoundStep ==
    ASSUME IndInv, NotFound
    PROVE  IndInv'
<1>1. /\ pc = "search" /\ searching /\ AtEnd(reader) /\ SearchOK /\ FileOK /\ LocalsOK
      /\ reader' = Seek(reader, startPos) /\ pc' = "data"
      /\ UNCHANGED <<streamVars, searchVars, answer>>
  BY DEF NotFound, IndInv, PlaceOK
<1>2. startPos \in 0 .. Size /\ Size \in Nat /\ reader.position \in 0 .. Size /\ reader.position >= Size
  BY <1>1 DEF LocalsOK, FileOK, Size, IndInv, ReaderOK, Readers, AtEnd
<1>3. ReaderOK(Seek(reader, startPos)) /\ Seek(reader, startPos).position = startPos
  BY <1>2, PositionSought DEF IndInv
<1>4. FileOK' /\ Size' = Size /\ LocalsOK'
  BY <1>1 DEF FileOK, Size, Delivering, LocalsOK, Answers, streamVars, searchVars
<1>5. ReaderOK(reader)'
  BY <1>1, <1>3 DEF ReaderOK, Readers, Size, streamVars
<1>6. ASSUME ~failed, NEW f \in Ends(startPos), RightEnd(f)
      PROVE  FALSE
  <2>1. f >= reader.position /\ PatternAt(f) /\ f \in Nat
    BY <1>1, <1>2, <1>6 DEF SearchOK, NoneBefore, Ends
  <2> QED
    BY <1>2, <2>1, PatternFacts DEF PatternAt
<1>7. FirstEndFound'
  BY <1>1, <1>3, <1>6, SameEnds
    DEF FirstEndFound, SearchOK, RightEnd, IsFirst, OnItsOwnLine, streamVars, searchVars
<1>8. DataOK'
  BY <1>1, <1>3, <1>7 DEF DataOK, FoundIsEnd, SearchOK, searchVars
<1> QED
  BY <1>1, <1>4, <1>5, <1>8 DEF IndInv, PlaceOK

LEMMA MatchStep ==
    ASSUME IndInv, Match
    PROVE  IndInv'
<1> DEFINE read == ReadByte(reader)
           n == matched
<1>1. /\ ReaderOK(read.reader)
      /\ read.byte \in Byte \cup {Eof, RangeError}
      /\ read.byte = Eof => read.reader.position = reader.position
      /\ read.byte # Eof => reader.position < Size /\ read.reader.position = reader.position + 1
      /\ read.byte \in Byte => read.byte = file[reader.position + 1]
      /\ Delivering /\ reader.position < Size => read.byte \in Byte
  BY ByteOfFile DEF IndInv
<1>2. /\ pc = "match" /\ searching /\ UNCHANGED <<streamVars, searching, startPos>>
      /\ MatchOK /\ FileOK /\ LocalsOK
  BY DEF Match, IndInv, PlaceOK
<1>p. PICK p \in Int : p = reader.position - n
  BY <1>2 DEF IndInv, ReaderOK, Readers, MatchOK
<1>3. /\ reader.position \in 0 .. Size /\ Size \in Nat /\ startPos \in 0 .. Size
      /\ n \in 1 .. Len(Pattern) - 1 /\ p >= startPos /\ p \in Nat /\ reader.position = p + n
      /\ Len(Pattern) \in Nat
  <2>1. reader.position \in 0 .. Size /\ Size \in Nat
    BY <1>2 DEF ReaderOK, Readers, FileOK, Size, IndInv
  <2>2. startPos \in 0 .. Size
    BY <1>2 DEF LocalsOK
  <2>3. n \in 1 .. Len(Pattern) - 1 /\ startPos <= reader.position - n
    BY <1>2 DEF MatchOK
  <2> QED
    BY <1>p, <2>1, <2>2, <2>3, PatternFacts
<1>4. /\ length = 0 /\ \A i \in 1 .. n : file[p + i] = Pattern[i]
      /\ ~failed => NoneBefore(p)
  BY <1>2, <1>p DEF MatchOK
<1>5. n + 1 \in 1 .. Len(Pattern) /\ Pattern[n + 1] \in Byte
  BY <1>3, PatternFacts
<1>6. CASE Matched(read, matched + 1)
  <2>1. read.byte \in Byte /\ read.byte = Pattern[n + 1] /\ matched' = n + 1
    BY <1>5, <1>6 DEF Matched
  <2>2. /\ file[p + (n + 1)] = Pattern[n + 1] /\ p + n < Size
        /\ read.reader.position = p + (n + 1)
    <3>1. /\ read.byte # Eof /\ read.byte = file[reader.position + 1]
          /\ reader.position < Size /\ read.reader.position = reader.position + 1
      BY <1>1, <2>1, ByteAssumption
    <3> HIDE DEF read
    <3>2. reader.position + 1 = p + (n + 1) /\ p + n < Size
      BY <1>3, <3>1
    <3> QED
      BY <2>1, <3>1, <3>2
  <2>3. \A i \in 1 .. n + 1 : file[p + i] = Pattern[i]
    <3> HIDE DEF read
    <3>1. \A i \in 1 .. n + 1 : i \in 1 .. n \/ i = n + 1
      BY <1>3
    <3> QED
      BY <1>4, <2>2, <3>1
  <2>4. read.byte # RangeError
    BY <2>1, ByteAssumption
  <2>5. CASE n + 1 < Len(Pattern)
    <3>1. Goes(read, "match") /\ length' = length
      BY <1>6, <2>5 DEF Matched
    <3>2. /\ FileOK' /\ ReaderOK(reader)' /\ Size' = Size
          /\ answer' \in Answers'
          /\ reader' = read.reader
          /\ pc' = "match"
      BY <1>1, <1>2, <2>4, <3>1, Gone
    <3> HIDE DEF read
    <3>3. LocalsOK'
      BY <1>2, <1>5, <2>1, <3>1, <3>2 DEF LocalsOK
    <3>4. reader'.position - matched' = p
      BY <1>3, <2>1, <2>2, <3>2
    <3>5. ~failed' => NoneBefore(reader.position - matched)'
      BY <1>2, <1>4, <3>4, SameEnds DEF NoneBefore, streamVars
    <3>6. MatchOK'
      BY <1>2, <1>3, <1>4, <2>1, <2>3, <2>5, <3>1, <3>4, <3>5 DEF MatchOK, streamVars
    <3> QED
      BY <1>2, <3>2, <3>3, <3>6 DEF IndInv, PlaceOK
  <2>6. CASE ~(n + 1 < Len(Pattern))
    <3>1. Goes(read, "trim") /\ length' = read.reader.position - Len(Pattern) - startPos
      BY <1>6, <2>6 DEF Matched
    <3>2. /\ FileOK' /\ ReaderOK(reader)' /\ Size' = Size
          /\ answer' \in Answers'
          /\ reader' = read.reader
          /\ pc' = "trim"
      BY <1>1, <1>2, <2>4, <3>1, Gone
    <3> HIDE DEF read
    <3>3. n + 1 = Len(Pattern) /\ length' = p - startPos /\ length' \in Nat /\ p = startPos + length'
      <4>1. n + 1 = Len(Pattern)
        BY <1>3, <2>6
      <4>2. length' = (p + Len(Pattern)) - Len(Pattern) - startPos
        BY <2>2, <3>1, <4>1
      <4> QED
        BY <1>3, <4>1, <4>2
    <3>4. LocalsOK'
      BY <1>2, <1>5, <2>1, <3>2, <3>3 DEF LocalsOK
    <3>5. PatternAt(p) /\ p \in startPos .. Size /\ p \in Ends(startPos)
      BY <1>2, <1>3, <2>2, <2>3, <3>3, PatternBytewise DEF Ends
    <3>6. ~failed => \A f \in Ends(startPos) : RightEnd(f) => f = p
      BY <1>3, <1>4, <3>5 DEF NoneBefore, RightEnd, IsFirst, Ends
    <3>7. \A i \in p + 1 .. p : file[i] \in White
      BY <1>3
    <3>8. /\ UNCHANGED <<file, startPos, failed>> /\ p \in p .. Size'
          /\ \A i \in p + 1 .. p : file'[i] \in White
      BY <1>2, <1>3, <3>2, <3>7 DEF streamVars
    <3>9. PatternAt(p)' /\ (~failed' => \A f \in Ends(startPos)' : RightEnd(f)' => f = p)
      BY <3>5, <3>6, <3>8, SameEnds
    <3>10. TrimOK'
      <4>1. startPos' + length' = p
        BY <3>3, <3>8
      <4>2. \E q \in startPos' + length' .. Size' : PatternAt(q)' /\ AllWhite(startPos + length, q)'
        BY <3>8, <3>9, <4>1 DEF AllWhite
      <4>3. ~failed' =>
              \A f \in Ends(startPos)' :
                  RightEnd(f)' => startPos' + length' <= f /\ AllWhite(startPos + length, f)'
        BY <1>3, <3>8, <3>9, <4>1 DEF AllWhite
      <4> QED
        BY <3>3, <4>2, <4>3 DEF TrimOK
    <3> QED
      BY <1>2, <3>2, <3>4, <3>10 DEF IndInv, PlaceOK
  <2> QED
    BY <2>5, <2>6
<1>7. CASE read.byte # Pattern[matched + 1] /\ Goes(read, "search") /\ UNCHANGED <<matched, length>>
  <2>1. /\ FileOK' /\ ReaderOK(reader)' /\ Size' = Size
        /\ answer' \in Answers'
        /\ reader' = read.reader
        /\ pc' \in {"idle", "search"}
    BY <1>1, <1>2, <1>7, Gone
  <2>2. LocalsOK'
    BY <1>2, <1>7, <2>1 DEF LocalsOK
  <2>3. reader'.position \in {p + n, p + n + 1}
    BY <1>1, <1>3, <2>1
  <2>4. ~failed => (p + n < Size => file[p + n + 1] # Pattern[n + 1])
    BY <1>1, <1>2, <1>3, <1>7 DEF FileOK
  <2> HIDE DEF read
  <2>5. ~failed => NoneBefore(p + n) /\ NoneBefore(p + n + 1)
    <3>1. SUFFICES ASSUME ~failed PROVE NoneBefore(p + n) /\ NoneBefore(p + n + 1)
      OBVIOUS
    <3>2. n \in Nat /\ n < Len(Pattern) /\ startPos \in Nat /\ p + n <= Size
      BY <1>3
    <3> QED
      BY <1>2, <1>3, <1>4, <2>4, <3>1, <3>2, MismatchPassed
  <2>6. SearchOK'
    <3>1. ~failed' => NoneBefore(reader.position)'
      BY <1>2, <2>3, <2>5, SameEnds DEF NoneBefore, streamVars
    <3> QED
      BY <1>2, <1>3, <1>4, <1>7, <2>3, <3>1 DEF SearchOK
  <2> QED
    BY <1>2, <2>1, <2>2, <2>6 DEF IndInv, PlaceOK
<1> QED
  BY <1>6, <1>7 DEF Match

LEMMA TrimStep ==
    ASSUME IndInv, Trim
    PROVE  IndInv'
<1> DEFINE sought == Seek(reader, startPos + length - 1)
           last == ReadByte(sought)
<1>1. /\ pc = "trim" /\ searching /\ UNCHANGED <<streamVars, searching, startPos, matched>>
      /\ TrimOK /\ FileOK /\ LocalsOK /\ ReaderOK(reader)
  BY DEF Trim, IndInv, PlaceOK
<1>2. startPos \in 0 .. Size /\ Size \in Nat /\ length \in Nat
  BY <1>1 DEF FileOK, Size, LocalsOK, TrimOK
<1>3. PICK e \in Nat : e = startPos + length
  BY <1>2
<1>4. PICK p \in e .. Size : PatternAt(p) /\ AllWhite(e, p)
  BY <1>1, <1>3 DEF TrimOK
<1>5. /\ e <= Size /\ e >= startPos /\ p \in Ends(startPos)
      /\ ~failed => \A f \in Ends(startPos) : RightEnd(f) => e <= f /\ AllWhite(e, f)
  BY <1>1, <1>2, <1>3, <1>4 DEF TrimOK, Ends
<1>6. ReaderOK(sought) /\ (length > 0 => sought.position = e - 1 /\ e - 1 \in 0 .. Size)
  BY <1>1, <1>2, <1>3, <1>5, PositionSought
<1> HIDE DEF sought
<1>7. /\ ReaderOK(last.reader)
      /\ last.byte \in Byte \cup {Eof, RangeError}
      /\ last.byte \in Byte => last.byte = file[sought.position + 1]
      /\ Delivering /\ sought.position < Size => last.byte \in Byte
  BY <1>1, <1>6, ByteOfFile
<1>8. length > 0 =>
        /\ last.byte \in Byte => last.byte = file[e]
        /\ ~failed => last.byte \in Byte
  BY <1>1, <1>2, <1>5, <1>6, <1>7 DEF FileOK
<1>9. UNCHANGED <<file, startPos, failed>> /\ searching'
  BY <1>1 DEF streamVars
<1>10. CASE length > 0 /\ last.byte \in White
  <2>1. Goes(last, "trim") /\ length' = length - 1
    BY <1>10 DEF Trim, sought
  <2> HIDE DEF last
  <2>2. last.byte \in Byte /\ last.byte # RangeError /\ file[e] \in White
    BY <1>8, <1>10, WhiteAssumption, ByteAssumption
  <2>3. /\ FileOK' /\ ReaderOK(reader)' /\ Size' = Size /\ answer' \in Answers'
        /\ pc' = "trim"
    BY <1>1, <1>7, <2>1, <2>2, Gone
  <2>4. LocalsOK'
    BY <1>1, <1>2, <2>1, <2>3 DEF LocalsOK
  <2>5. \A f \in Int : AllWhite(e, f) => AllWhite(e - 1, f)
    BY <2>2 DEF AllWhite
  <2>6. PICK d \in Nat : d = e - 1 /\ d = startPos' + length'
    BY <1>2, <1>3, <1>9, <1>10, <2>1
  <2>7. /\ p \in d .. Size /\ AllWhite(d, p)
        /\ ~failed => \A f \in Ends(startPos) : RightEnd(f) => d <= f /\ AllWhite(d, f)
    BY <1>2, <1>4, <1>5, <2>5, <2>6 DEF Ends
  <2>8. /\ p \in d .. Size' /\ PatternAt(p)' /\ AllWhite(d, p)'
        /\ ~failed' => \A f \in Ends(startPos)' : RightEnd(f)' => d <= f /\ AllWhite(d, f)'
    BY <1>4, <1>9, <2>3, <2>7, SameEnds DEF AllWhite
  <2>9. length' \in Nat
    BY <1>2, <1>10, <2>1
  <2>10. TrimOK'
    BY <2>6, <2>8, <2>9 DEF TrimOK, AllWhite
  <2> QED
    BY <1>9, <2>3, <2>4, <2>10 DEF IndInv, PlaceOK
<1>11. CASE ~(length > 0 /\ last.byte \in White)
  <2>1. /\ length' = length
        /\ IF length > 0 THEN Goes(Back(last), "data")
           ELSE reader' = Seek(reader, startPos) /\ pc' = "data" /\ UNCHANGED answer
    BY <1>11 DEF Trim, sought
  <2>2. /\ FileOK' /\ ReaderOK(reader)' /\ Size' = Size /\ answer' \in Answers'
        /\ pc' \in {"idle", "data"} /\ (pc' = "data" => reader'.position = startPos)
    <3>1. CASE length > 0
      <4>1. /\ Goes(Back(last), "data") /\ ReaderOK(Seek(last.reader, startPos))
            /\ Seek(last.reader, startPos).position = startPos
        BY <1>1, <1>2, <1>7, <2>1, <3>1, PositionSought
      <4>2. /\ Back(last).byte = last.byte
            /\ Back(last).reader = IF last.byte = RangeError THEN last.reader
                                   ELSE Seek(last.reader, startPos)
        BY DEF Back, ReadByte, PeekByte
      <4> HIDE DEF last
      <4>3. ReaderOK(Back(last).reader)
        BY <1>7, <4>1, <4>2
      <4>4. /\ FileOK' /\ ReaderOK(reader)' /\ Size' = Size /\ answer' \in Answers'
            /\ reader' = Back(last).reader
            /\ pc' = IF Back(last).byte = RangeError THEN "idle" ELSE "data"
        BY <1>1, <4>1, <4>3, Gone
      <4> QED
        BY <4>1, <4>2, <4>4
    <3>2. CASE ~(length > 0)
      <4>1. /\ reader' = Seek(reader, startPos) /\ pc' = "data" /\ answer' = answer
            /\ ReaderOK(Seek(reader, startPos)) /\ Seek(reader, startPos).position = startPos
        BY <1>1, <1>2, <2>1, <3>2, PositionSought
      <4>2. FileOK' /\ Size' = Size /\ answer' \in Answers'
        BY <1>1, <4>1 DEF FileOK, Size, Delivering, streamVars, LocalsOK, Answers
      <4>3. ReaderOK(reader)'
        BY <4>1, <1>9 DEF ReaderOK, Readers, Size
      <4> QED
        BY <4>1, <4>2, <4>3
    <3> QED
      BY <3>1, <3>2
  <2>3. LocalsOK'
    BY <1>1, <2>1, <2>2 DEF LocalsOK
  <2>4. ASSUME pc' = "data"
        PROVE  DataOK'
    <3>1. reader'.position = startPos /\ length' = length /\ e = reader'.position + length'
      BY <1>2, <1>3, <2>1, <2>2, <2>4
    <3>2. PatternAt(p)' /\ AllWhite(e, p)' /\ p \in e .. Size'
      BY <1>4, <1>9, <2>2, SameEnds DEF AllWhite
    <3>3. FoundIsEnd'
      BY <3>1, <3>2 DEF FoundIsEnd, AllWhite
    <3>4. ASSUME ~failed, NEW f \in Ends(startPos), RightEnd(f)
          PROVE  Untrimmed(startPos, f) = e
      <4>1. AllWhite(e, f) /\ f \in Int /\ e \in startPos .. f /\ startPos \in Int
        BY <1>2, <1>5, <3>4 DEF Ends
      <4>2. e = startPos \/ file[e] \notin White
        BY <1>2, <1>3, <1>8, <1>11, <3>4
      <4> QED
        BY <4>1, <4>2, UntrimmedFound
    <3>5. ~failed => \A f \in Ends(startPos) : RightEnd(f) => length = Untrimmed(startPos, f) - startPos
      BY <1>2, <1>3, <3>4
    <3>6. Ends(startPos)' # {}
      BY <1>5, <1>9, SameEnds
    <3>7. ~failed' => \A f \in Ends(startPos)' :
                        RightEnd(f)' => length' = Untrimmed(startPos, f)' - startPos'
      BY <1>9, <3>1, <3>5, SameEnds
    <3>8. FirstEndFound'
      BY <1>9, <3>1, <3>6, <3>7 DEF FirstEndFound, RightEnd
    <3> QED
      BY <1>2, <1>9, <3>1, <3>3, <3>8 DEF DataOK
  <2> QED
    BY <2>2, <2>3, <2>4 DEF IndInv, PlaceOK
<1> QED
  BY <1>10, <1>11

(* Steps behind the data move the reader and end the call or go on.        *)
LEMMA PastData ==
    ASSUME IndInv, NEW read, ReaderOK(read.reader), NEW to \in {"idle", "space", "keyword"},
           Goes(read, to), UNCHANGED <<streamVars, searchVars>>
    PROVE  IndInv'
<1>1. /\ FileOK' /\ ReaderOK(reader)' /\ Size' = Size /\ answer' \in Answers'
      /\ pc' \in {"idle", "space", "keyword"}
  BY Gone
<1>2. LocalsOK'
  BY <1>1 DEF IndInv, LocalsOK, searchVars
<1> QED
  BY <1>1, <1>2 DEF IndInv, PlaceOK

LEMMA ReadDataStep ==
    ASSUME IndInv, ReadData
    PROVE  IndInv'
<1>1. /\ pc' \in {"idle", "space"} /\ reader' = ReadBytes(reader, length)
      /\ UNCHANGED <<streamVars, searchVars>>
  BY DEF ReadData
<1>2. /\ FileOK /\ ReaderOK(reader) /\ LocalsOK /\ length \in Int /\ searching \in BOOLEAN
      /\ reader.position \in 0 .. Size
  BY DEF IndInv, LocalsOK, ReaderOK, Readers
<1>3. ReaderOK(ReadBytes(reader, length)) /\ Len(BytesAt(reader, length)) \in 0 .. Size
  BY <1>2, DataRead
<1>4. FileOK' /\ Size' = Size
  BY <1>1, <1>2 DEF FileOK, Size, Delivering, streamVars
<1>5. ReaderOK(reader)'
  BY <1>1, <1>3 DEF ReaderOK, Readers, Size, streamVars
<1>6. answer' \in Answers
  <2>1. answer' = [searched |-> searching, start |-> reader.position,
                   length |-> Len(BytesAt(reader, length)), thrown |-> FALSE]
    BY DEF ReadData
  <2>2. FALSE \in BOOLEAN
    OBVIOUS
  <2> QED
    BY <1>2, <1>3, <2>1, <2>2, Zenon DEF Answers
<1>7. LocalsOK'
  BY <1>1, <1>2, <1>4, <1>6 DEF LocalsOK, Answers, searchVars
<1> QED
  BY <1>1, <1>4, <1>5, <1>7 DEF IndInv, PlaceOK

LEMMA SkipSpaceStep ==
    ASSUME IndInv, SkipSpace
    PROVE  IndInv'
<1> DEFINE peeked == PeekByte(reader)
           read == ReadByte(peeked.reader)
<1>1. ReaderOK(peeked.reader)
  BY BytePeeked DEF IndInv
<1> HIDE DEF peeked
<1>2. ReaderOK(read.reader)
  BY <1>1, ByteOfFile DEF IndInv
<1>3. /\ Goes(read, "space") \/ Goes(peeked, "keyword")
      /\ UNCHANGED <<streamVars, searchVars>>
  BY DEF SkipSpace, peeked
<1> HIDE DEF read
<1> QED
  BY <1>1, <1>2, <1>3, PastData

LEMMA ReadKeywordStep ==
    ASSUME IndInv, ReadKeyword
    PROVE  IndInv'
<1> DEFINE peeked == PeekByte(reader)
           read == ReadByte(peeked.reader)
           thrown == [peeked EXCEPT !.byte = RangeError]
<1>1. ReaderOK(peeked.reader) /\ peeked = [reader |-> peeked.reader, byte |-> peeked.byte]
  BY BytePeeked DEF IndInv, PeekByte
<1>2. /\ \/ Goes(peeked, "idle")
         \/ Goes(thrown, "idle")
         \/ Goes(read, "keyword")
      /\ UNCHANGED <<streamVars, searchVars>>
  BY DEF ReadKeyword
<1> HIDE DEF peeked
<1>3. ReaderOK(read.reader) /\ ReaderOK(thrown.reader)
  BY <1>1, ByteOfFile DEF IndInv
<1> HIDE DEF read, thrown
<1> QED
  BY <1>1, <1>2, <1>3, PastData

LEMMA FaultStep ==
    ASSUME IndInv, Fault
    PROVE  IndInv'
<1>1. /\ file' = file /\ UNCHANGED <<pc, searchVars, answer, reader>>
      /\ failed \/ failed' \/ UNCHANGED <<present, works>>
      /\ failed => failed'
      /\ present' \in 0 .. Size /\ works' \in BOOLEAN /\ failed' \in BOOLEAN
      /\ ~failed' => works' /\ present' = Size
  BY DEF Fault, Fail, Recover, Truncate, IndInv, FileOK, Delivering
<1>2. UNCHANGED <<file, startPos>>
  BY <1>1 DEF searchVars
<1>3. Size' = Size
  BY <1>1 DEF Size
<1>4. FileOK' /\ ReaderOK(reader)' /\ LocalsOK'
  <2>1. FileOK'
    BY <1>1, <1>3 DEF FileOK, Delivering, IndInv
  <2>2. ReaderOK(reader)'
    BY <1>1, <1>3 DEF ReaderOK, Readers, IndInv
  <2>3. LocalsOK'
    BY <1>1, <1>3 DEF LocalsOK, Answers, IndInv, searchVars
  <2> QED
    BY <2>1, <2>2, <2>3
<1>5. /\ SearchOK => SearchOK'
      /\ MatchOK => MatchOK'
      /\ DataOK => DataOK'
  <2>1. ASSUME NEW n, NoneBefore(n)
        PROVE  \A f \in Ends(startPos)' : RightEnd(f)' => n <= f
    BY <1>2, <2>1, SameEnds DEF NoneBefore
  <2>2. SearchOK => SearchOK'
    BY <1>1, <2>1 DEF SearchOK, NoneBefore, searchVars
  <2>3. MatchOK => MatchOK'
    BY <1>1, <2>1 DEF MatchOK, NoneBefore, searchVars
  <2>4. FoundIsEnd => FoundIsEnd'
    BY <1>1, <1>2, <1>3, SameEnds DEF FoundIsEnd, AllWhite, searchVars
  <2>5. FirstEndFound => FirstEndFound'
    BY <1>1, <1>2, SameEnds DEF FirstEndFound, RightEnd, searchVars
  <2> QED
    BY <1>1, <2>2, <2>3, <2>4, <2>5 DEF DataOK, searchVars
<1>6. TrimOK => TrimOK'
  BY <1>1, <1>2, <1>3, SameEnds DEF TrimOK, AllWhite, searchVars
<1> QED
  BY <1>1, <1>4, <1>5, <1>6 DEF IndInv, PlaceOK, searchVars

LEMMA Inductive ==
    ASSUME IndInv, [Next]_vars
    PROVE  IndInv'
<1>1. CASE UNCHANGED vars
  <2>1. UNCHANGED <<file, present, works, failed, reader, pc, searching, startPos, matched, length, answer>>
    BY <1>1 DEF vars, readerVars, streamVars
  <2>2. /\ FileOK' /\ ReaderOK(reader)' /\ LocalsOK'
    BY <2>1 DEF IndInv, FileOK, Delivering, Size, ReaderOK, Readers, LocalsOK, Answers
  <2>3. PlaceOK'
    BY <2>1, SameEnds DEF IndInv, PlaceOK, SearchOK, MatchOK, TrimOK, DataOK, NoneBefore,
                          FoundIsEnd, FirstEndFound, RightEnd, AllWhite
  <2> QED
    BY <2>2, <2>3 DEF IndInv
<1> QED
  BY <1>1, BeginStep, SearchStep, NotFoundStep, MatchStep, TrimStep, ReadDataStep,
     SkipSpaceStep, ReadKeywordStep, FaultStep DEF Next, Step

(* Every reachable state of a read is well typed.                          *)
THEOREM TypeCorrect == Spec => []TypeOK
<1>1. IndInv => TypeOK
  BY DEF IndInv, FileOK, ReaderOK, Readers, LocalsOK, Answers, TypeOK, ReaderTypeOK
<1> QED
  BY <1>1, Initially, Inductive, PTL DEF Spec

(* The buffer holds the bytes of the file at its place, whatever seeks,    *)
(* reads and failures came before (fx_stream.dart:261).                    *)
THEOREM BufferHoldsFile == Spec => []BufferIsFile
<1>1. IndInv => BufferIsFile
  <2> SUFFICES ASSUME IndInv PROVE BufferIsFile
    OBVIOUS
  <2> DEFINE b == reader.bufferStart
             e == reader.bufferEnd
             part == SubSeq(file, b + 1, e)
  <2>1. /\ file \in Seq(Byte) /\ b \in 0 .. Len(file) /\ e \in 0 .. Len(file)
        /\ reader.buffer \in Seq(Byte) /\ Len(reader.buffer) \in Nat
        /\ e = b + Len(reader.buffer)
        /\ \A i \in 1 .. Len(reader.buffer) : reader.buffer[i] = file[b + i]
    BY DEF IndInv, FileOK, ReaderOK, Readers, Size
  <2> HIDE DEF b, e
  <2>2. \A i \in b + 1 .. e : file[i] \in Byte
    BY <2>1, ElementOfSeq
  <2>3. b + 1 \in Int /\ e \in Int
    BY <2>1
  <2>4. /\ part \in Seq(Byte)
        /\ Len(part) = IF b + 1 <= e THEN e - (b + 1) + 1 ELSE 0
        /\ \A i \in 1 .. e - (b + 1) + 1 : part[i] = file[(b + 1) + i - 1]
    BY <2>1, <2>2, <2>3, SubSeqProperties
  <2> HIDE DEF part
  <2>5. Len(part) = Len(reader.buffer) /\ \A i \in 1 .. Len(part) : part[i] = file[b + i]
    BY <2>1, <2>4
  <2>6. reader.buffer = part
    BY <2>1, <2>4, <2>5, SeqEqual
  <2> QED
    BY <2>1, <2>6 DEF BufferIsFile, part, b, e
<1> QED
  BY <1>1, Initially, Inductive, PTL DEF Spec

(* What a search takes for the end of a stream is one, and the first one   *)
(* on a line of its own when no read failed (pdf_syntax_parser.dart:356).  *)
THEOREM SearchFindsEnd == Spec => []EndFound
<1>1. IndInv => EndFound
  BY DEF IndInv, PlaceOK, DataOK, EndFound, FoundIsEnd, FirstEndFound
<1> QED
  BY <1>1, Initially, Inductive, PTL DEF Spec
=============================================================================
