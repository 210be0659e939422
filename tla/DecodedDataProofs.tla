------------------------- MODULE DecodedDataProofs --------------------------
(***************************************************************************)
(* Proofs about the two parts that hand out decoded data.                  *)
(*                                                                         *)
(* ScanlineDecoder, over any source: its lines are whatever they are when  *)
(* the decoder is made.  AnswersAreLines says nothing of the decoder.      *)
(* IndInv adds that the source stands where the counter says (Aligned),    *)
(* that a call has not passed its line (Ahead), and what the line kept for *)
(* the next call is: the one before the counter, and stale inside of a     *)
(* call only (Keeps).                                                      *)
(*                                                                         *)
(* PdfStream, over any filters.  ReadsLastWritten is not inductive: what   *)
(* is kept must be what decoding the raw data would give (RawIsWritten),   *)
(* also when a /Filter changes, hence no dictionary may be that of two     *)
(* streams (OwnDicts).                                                     *)
(***************************************************************************)
EXTENDS ScanlineDecoder, PdfStream, TLAPS

(* The line the source yielded last, by its number.                        *)
Yielded(n, l) == IF n < Len(lines) THEN l = lines[n + 1] ELSE l \in PastEnd

Aligned ==
    /\ ~works => nextLine = 0 /\ request = Idle
    /\ nextLine > 0 =>
          position = IF nextLine - 1 < Len(lines) THEN nextLine - 1 ELSE Len(lines)

Ahead ==
    /\ request # Idle => nextLine > 0
    /\ request.op = "get" => nextLine - 1 <= request.line

Keeps ==
    /\ lastScanline = "stale" => request.op = "get"
    /\ lastScanline = "current" => nextLine > 1 /\ Yielded(nextLine - 2, line)
    /\ lastScanline = "null" /\ request = Idle /\ nextLine > 1 => nextLine - 2 >= Len(lines)

IndInv == TypeOK /\ Aligned /\ Ahead /\ Keeps /\ AnswersAreLines

-----------------------------------------------------------------------------
(* The source.                                                             *)

LEMMA LineRead ==
    ASSUME TypeOK, Aligned, nextLine > 0, GetNextLine
    PROVE  /\ UNCHANGED <<lines, works>> /\ works
           /\ position' = IF nextLine < Len(lines) THEN nextLine ELSE Len(lines)
           /\ Yielded(nextLine - 1, line')
           /\ line' \in Line \cup {NoLine}
           /\ line' = NoLine => nextLine - 1 >= Len(lines)
<1>1. /\ lines \in Seq(Line) /\ Len(lines) \in Nat /\ nextLine \in Nat /\ nextLine - 1 \in Nat
      /\ position = IF nextLine - 1 < Len(lines) THEN nextLine - 1 ELSE Len(lines)
  BY DEF TypeOK, SourceTypeOK, Aligned
<1>2. CASE nextLine - 1 < Len(lines)
  <2>1. /\ position = nextLine - 1 /\ position' = nextLine /\ line' = lines[nextLine]
        /\ nextLine \in 1 .. Len(lines)
    BY <1>1, <1>2 DEF GetNextLine
  <2>2. lines[nextLine] \in Line /\ NoLine \notin Line
    BY <1>1, <2>1, LineAssumption
  <2> QED
    BY <1>1, <1>2, <2>1, <2>2 DEF GetNextLine, Yielded
<1>3. CASE ~(nextLine - 1 < Len(lines))
  <2>1. position' = Len(lines) /\ line' \in PastEnd
    BY <1>1, <1>3 DEF GetNextLine
  <2>2. PastEnd \subseteq Line \cup {NoLine}
    BY LineAssumption DEF PastEnd
  <2> QED
    BY <1>1, <1>3, <2>1, <2>2 DEF GetNextLine, Yielded
<1> QED
  BY <1>2, <1>3

LEMMA Initially == Init /\ lines \in Seq(Line) => IndInv
<1> SUFFICES ASSUME Init, lines \in Seq(Line) PROVE IndInv
  OBVIOUS
<1>1. works \in BOOLEAN
  BY DEF Init, SourceInit
<1>2. TypeOK
  BY <1>1 DEF Init, SourceInit, TypeOK, SourceTypeOK
<1>3. Aligned /\ Ahead /\ Keeps
  BY DEF Init, SourceInit, Aligned, Ahead, Keeps, Idle
<1> QED
  BY <1>2, <1>3 DEF IndInv, Init, AnswersAreLines

LEMMA AnswerStays ==
    ASSUME AnswersAreLines, UNCHANGED <<answer, lines, works>>
    PROVE  AnswersAreLines'
BY DEF AnswersAreLines, IsLine

-----------------------------------------------------------------------------
(* The steps.                                                              *)

LEMMA RewindingStep ==
    ASSUME IndInv, Rewinding
    PROVE  IndInv'
<1>1. PICK n \in Number : GetBackwards(n) \/ SkipBackwards(n)
  BY DEF Rewinding
<1>2. /\ works /\ position' = 0 /\ UNCHANGED <<lines, works, line, answer>> /\ nextLine' = 1
      /\ TypeOK /\ AnswersAreLines
  BY <1>1 DEF GetBackwards, SkipBackwards, SourceRewind, IndInv
<1>3. n \in Nat
  BY MaxLineAssumption DEF Number
<1>4. AnswersAreLines'
  BY <1>2, AnswerStays
<1>5. CASE GetBackwards(n)
  <2>1. /\ request' = [op |-> "get", line |-> n] /\ lastScanline' \in {"null", "stale"}
    BY <1>5 DEF GetBackwards, Left
  <2> QED
    BY <1>2, <1>3, <1>4, <2>1
      DEF IndInv, TypeOK, SourceTypeOK, Aligned, Ahead, Keeps, Idle
<1>6. CASE SkipBackwards(n)
  <2>1. request' = (IF n = 0 THEN Idle ELSE [op |-> "skip", line |-> n]) /\ lastScanline' = "null"
    BY <1>6 DEF SkipBackwards
  <2> QED
    BY <1>2, <1>3, <1>4, <2>1
      DEF IndInv, TypeOK, SourceTypeOK, Aligned, Ahead, Keeps, Idle
<1> QED
  BY <1>1, <1>5, <1>6

LEMMA WaitingStep ==
    ASSUME IndInv, Waiting
    PROVE  IndInv'
<1>1. PICK n \in Number : GetLast(n) \/ GetFails(n) \/ GetForwards(n) \/ SkipForwards(n)
  BY DEF Waiting
<1>2. /\ UNCHANGED <<lines, works, position, line, nextLine>> /\ request = Idle /\ n \in Nat
      /\ TypeOK /\ Aligned /\ Ahead /\ Keeps /\ AnswersAreLines /\ nextLine \in Nat
      /\ lines \in Seq(Line) /\ Len(lines) \in Nat
  <2>1. UNCHANGED <<lines, works, position, line, nextLine>> /\ request = Idle
    BY <1>1 DEF GetLast, GetFails, GetForwards, SkipForwards, sourceVars
  <2>2. lines \in Seq(Line) /\ Len(lines) \in Nat /\ nextLine \in Nat
    BY DEF IndInv, TypeOK, SourceTypeOK
  <2> QED
    BY <2>1, <2>2, MaxLineAssumption DEF IndInv, Number
<1>3. CASE GetLast(n)
  <2>1. /\ nextLine = n + 2 /\ UNCHANGED <<lastScanline, request>>
        /\ answer' = [line |-> n, data |-> IF lastScanline = "null" THEN NoLine ELSE line,
                      kept |-> lastScanline # "stale"]
    BY <1>3 DEF GetLast, Answer
  <2>2. lastScanline # "stale" /\ works
    BY <1>2, <2>1 DEF Keeps, Aligned, Idle
  <2>3. answer'.kept
    BY <2>1, <2>2, Zenon
  <2>4. IsLine(n, IF lastScanline = "null" THEN NoLine ELSE line)
    BY <1>2, <2>1, <2>2 DEF Keeps, IsLine, Yielded, TypeOK, PastEnd
  <2>5. answer'.line = n /\ answer'.data = IF lastScanline = "null" THEN NoLine ELSE line
    BY <2>1
  <2>6. AnswersAreLines'
    BY <1>2, <2>3, <2>4, <2>5 DEF AnswersAreLines, IsLine
  <2> QED
    BY <1>2, <2>1, <2>6 DEF IndInv, TypeOK, SourceTypeOK, Aligned, Ahead, Keeps, Yielded
<1>4. CASE GetFails(n)
  <2>1. /\ ~works /\ UNCHANGED <<lastScanline, request>>
        /\ answer' = [line |-> n, data |-> NoLine, kept |-> TRUE]
    BY <1>4 DEF GetFails, Answer
  <2>2. answer'.kept
    BY <2>1, Zenon
  <2>3. answer'.data = NoLine
    BY <2>1
  <2>4. AnswersAreLines'
    BY <1>2, <2>1, <2>2, <2>3 DEF AnswersAreLines, IsLine
  <2> QED
    BY <1>2, <2>1, <2>4 DEF IndInv, TypeOK, SourceTypeOK, Aligned, Ahead, Keeps, Yielded
<1>5. CASE GetForwards(n) \/ SkipForwards(n)
  <2>1. /\ UNCHANGED answer /\ nextLine > 0 /\ nextLine - 1 <= n
        /\ \/ request' = [op |-> "get", line |-> n] /\ lastScanline' = lastScanline
           \/ request' = [op |-> "skip", line |-> n] /\ lastScanline' = "null"
    BY <1>2, <1>5 DEF GetForwards, SkipForwards, Unread
  <2>2. AnswersAreLines'
    BY <1>2, <2>1, AnswerStays
  <2>3. works
    BY <1>2, <2>1 DEF Aligned
  <2> QED
    BY <1>2, <2>1, <2>2, <2>3
      DEF IndInv, TypeOK, SourceTypeOK, Aligned, Ahead, Keeps, Yielded, Idle
<1> QED
  BY <1>1, <1>3, <1>4, <1>5

LEMMA ReadingStep ==
    ASSUME IndInv, Reading
    PROVE  IndInv'
<1>1. /\ request.op \in {"get", "skip"} /\ request # Idle /\ nextLine > 0 /\ nextLine \in Nat
      /\ GetNextLine /\ nextLine' = nextLine + 1
      /\ TypeOK /\ Aligned /\ Ahead /\ Keeps /\ AnswersAreLines
      /\ Len(lines) \in Nat /\ request \in [op : {"get", "skip"}, line : Number]
  <2>1. request.op \in {"get", "skip"} /\ GetNextLine /\ nextLine' = nextLine + 1
    BY DEF Reading, PassLine, ReadLine, SkipLine
  <2>2. request # Idle
    BY <2>1 DEF Idle
  <2>3. nextLine \in Nat /\ Len(lines) \in Nat /\ request \in [op : {"get", "skip"}, line : Number]
    BY <2>2 DEF IndInv, TypeOK, SourceTypeOK
  <2> QED
    BY <2>1, <2>2, <2>3 DEF IndInv, Ahead
<1>2. /\ UNCHANGED <<lines, works>> /\ works
      /\ position' = IF nextLine < Len(lines) THEN nextLine ELSE Len(lines)
      /\ Yielded(nextLine - 1, line')
      /\ line' \in Line \cup {NoLine}
      /\ line' = NoLine => nextLine - 1 >= Len(lines)
  BY <1>1, LineRead
<1>3. Aligned' /\ SourceTypeOK' /\ nextLine' \in Nat /\ nextLine' - 2 = nextLine - 1 /\ nextLine' > 1
  BY <1>1, <1>2 DEF Aligned, TypeOK, SourceTypeOK
<1>4. CASE PassLine
  <2>1. /\ nextLine - 1 < request.line /\ UNCHANGED <<request, answer>> /\ request.op = "get"
        /\ lastScanline' \in {"null", "stale"}
    BY <1>4 DEF PassLine, Left
  <2>2. AnswersAreLines'
    BY <1>1, <1>2, <2>1, AnswerStays
  <2>3. request.line \in Nat
    BY <1>1, MaxLineAssumption DEF Number
  <2> QED
    BY <1>1, <1>3, <2>1, <2>2, <2>3 DEF IndInv, TypeOK, Ahead, Keeps, Idle
<1>5. CASE ReadLine
  <2>1. /\ nextLine - 1 >= request.line /\ request' = Idle
        /\ lastScanline' = Kept(line') /\ request.op = "get"
        /\ answer' = [line |-> request.line, data |-> line', kept |-> TRUE]
    BY <1>5 DEF ReadLine, Answer
  <2>2. request.line = nextLine - 1
    BY <1>1, <2>1, MaxLineAssumption DEF Ahead, Number
  <2>3. answer'.kept
    BY <2>1, Zenon
  <2>4. answer'.line = nextLine - 1 /\ answer'.data = line'
    BY <2>1, <2>2
  <2>5. AnswersAreLines'
    BY <1>2, <2>3, <2>4 DEF AnswersAreLines, IsLine, Yielded
  <2>6. Keeps'
    BY <1>1, <1>2, <1>3, <2>1 DEF Keeps, Kept, Yielded, Idle, PastEnd
  <2> QED
    BY <1>1, <1>3, <2>1, <2>5, <2>6 DEF IndInv, TypeOK, Ahead, Kept, Idle
<1>6. ASSUME NEW pause \in BOOLEAN, SkipLine(pause)
      PROVE  IndInv'
  <2>1. /\ request' \in {request, Idle} /\ UNCHANGED answer /\ request.op = "skip"
        /\ lastScanline' = Kept(line')
    BY <1>6 DEF SkipLine
  <2>2. AnswersAreLines'
    BY <1>1, <1>2, <2>1, AnswerStays
  <2>3. Keeps'
    BY <1>1, <1>2, <1>3, <2>1 DEF Keeps, Kept, Yielded, Idle, PastEnd
  <2> QED
    BY <1>1, <1>3, <2>1, <2>2, <2>3 DEF IndInv, TypeOK, Ahead, Kept, Idle
<1> QED
  BY <1>4, <1>5, <1>6 DEF Reading

LEMMA Inductive ==
    ASSUME IndInv, [Next]_vars
    PROVE  IndInv'
<1>1. CASE UNCHANGED vars
  BY <1>1 DEF vars, sourceVars, IndInv, TypeOK, SourceTypeOK, Aligned, Ahead, Keeps, Yielded,
              AnswersAreLines, IsLine
<1> QED
  BY <1>1, RewindingStep, WaitingStep, ReadingStep DEF Next

(* Every reachable state of a decoder over lines is well typed.            *)
THEOREM TypeCorrect == lines \in Seq(Line) /\ Spec => []TypeOK
<1>1. IndInv => TypeOK
  BY DEF IndInv
<1> QED
  BY <1>1, Initially, Inductive, PTL DEF Spec

(* Line number n is what the n-th call of getNextLine behind a rewind      *)
(* yields, whatever was asked for, skipped to or skipped halfway before;   *)
(* the list handed out still holds it (scanlinedecoder.dart:27).           *)
THEOREM LinesAnswered == lines \in Seq(Line) /\ Spec => []AnswersAreLines
<1>1. IndInv => AnswersAreLines
  BY DEF IndInv
<1> QED
  BY <1>1, Initially, Inductive, PTL DEF Spec

-----------------------------------------------------------------------------
(* What PdfStream answers, for callers who change no dictionary once data  *)
(* are decoded and set decoded data where no filter is declared.           *)

Careful == DictsFinal /\ SetsUnfiltered

(* What a stream may keep: decoding is not looked into.                    *)
Decoded == {Decode(d, list) : d \in Data, list \in FilterLists}
Record == [made : {TRUE}, dict : DictId, raw : Data,
           decoded : Data \cup {Undecoded} \cup Decoded]

StreamsTyped ==
    /\ filters \in [DictId -> FilterLists \cup {"none"}]
    /\ stream \in [Stream -> {NotMade} \cup Record]
    /\ written \in [Stream -> [decoded : BOOLEAN, data : Data]]
    /\ copy \in [Stream -> Stream \cup {NoStream}]
    /\ acc.of \in Stream => Made(acc.of)
    /\ acc \in [of : Stream \cup {NoStream}, data : Data \cup {Undecoded} \cup Decoded]

(* A dictionary belongs to one stream.                                     *)
OwnDicts ==
    \A s \in Stream :
        Made(s) =>
            /\ FiltersOf(s) # "none"
            /\ \A t \in Stream : Made(t) /\ s # t => stream[t].dict # stream[s].dict

(* The raw data are what was written last, and what is kept is decoded     *)
(* from them.                                                              *)
RawIsWritten ==
    \A s \in Stream :
        Made(s) =>
            /\ stream[s].raw = written[s].data
            /\ written[s].decoded => FiltersOf(s) = <<>>
            /\ stream[s].decoded # Undecoded =>
                  stream[s].decoded = Decode(stream[s].raw, FiltersOf(s))

(* A clone nobody wrote to has the raw data and the filters of its stream. *)
CopiesSame ==
    \A s, t \in Stream :
        copy[t] = s =>
            /\ Made(t) /\ Made(s) /\ stream[t].raw = stream[s].raw
            /\ FiltersOf(t) = FiltersOf(s)

StreamInv == StreamsTyped /\ OwnDicts /\ RawIsWritten /\ CopiesSame

(* Without a filter, decoding is nothing.                                  *)
LEMMA DecodedByNone == ASSUME NEW d PROVE Decode(d, <<>>) = d
<1>1. DOMAIN <<>> = {}
  OBVIOUS
<1> QED
  BY <1>1 DEF Decode, FoldLeft, MapThenFoldSet

(* The getter answers what decoding the raw data gives, kept or not.       *)
LEMMA DataAreDecoded ==
    ASSUME RawIsWritten, NEW s \in Stream, Made(s)
    PROVE  DataOf(s) = Decode(stream[s].raw, FiltersOf(s))
BY DEF RawIsWritten, DataOf

LEMMA InvAnswers ==
    ASSUME StreamInv
    PROVE  ReadsLastWritten /\ CopiesAgree
<1>1. ASSUME NEW s \in Stream, Made(s)
      PROVE  DataOf(s) = IF written[s].decoded THEN written[s].data
                                 ELSE Decode(written[s].data, FiltersOf(s))
  <2>1. DataOf(s) = Decode(written[s].data, FiltersOf(s))
    BY <1>1, DataAreDecoded DEF StreamInv, RawIsWritten
  <2>2. written[s].decoded => FiltersOf(s) = <<>>
    BY <1>1 DEF StreamInv, RawIsWritten
  <2> QED
    BY <2>1, <2>2, DecodedByNone
<1>2. ASSUME NEW s \in Stream, NEW t \in Stream, Made(s), copy[t] = s
      PROVE  DataOf(t) = DataOf(s)
  <2>1. /\ Made(t) /\ stream[t].raw = stream[s].raw
        /\ FiltersOf(t) = FiltersOf(s)
    BY <1>2 DEF StreamInv, CopiesSame
  <2> QED
    BY <1>2, <2>1, DataAreDecoded DEF StreamInv
<1> QED
  BY <1>1, <1>2 DEF ReadsLastWritten, CopiesAgree

LEMMA InitStreams == ASSUME StreamInit PROVE StreamInv
<1>1. EmptyData \in Data
  BY DataAssumption
<1>2. NoStream \notin Stream
  BY DataAssumption
<1>3. \A s \in Stream : ~Made(s) /\ copy[s] = NoStream
  BY DEF StreamInit, Made
<1>4. StreamsTyped
  BY <1>1, <1>2, <1>3 DEF StreamInit, StreamsTyped
<1> QED
  BY <1>2, <1>3, <1>4 DEF StreamInv, OwnDicts, RawIsWritten, CopiesSame

(* What a write forgets: who was a clone of the stream.                    *)
LEMMA WritesTyped ==
    ASSUME StreamsTyped, NEW s \in Stream, NEW b \in BOOLEAN, NEW data \in Data,
           Writes(s, b, data)
    PROVE  /\ written' \in [Stream -> [decoded : BOOLEAN, data : Data]]
           /\ copy' \in [Stream -> Stream \cup {NoStream}]
           /\ written'[s].decoded = b /\ written'[s].data = data
           /\ \A t \in Stream \ {s} : written'[t] = written[t]
           /\ \A o, t \in Stream : copy'[t] = o => copy[t] = o /\ t # s /\ o # s
BY DataAssumption DEF StreamsTyped, Writes

LEMMA MakesStream ==
    ASSUME StreamInv, NEW s \in Stream, NEW d \in DictId, NEW list \in FilterLists,
           NEW raw \in Data, NEW kept \in Data \cup {Undecoded},
           NewDict(d, list), Makes(s, d, raw, kept)
    PROVE  /\ filters' \in [DictId -> FilterLists \cup {"none"}]
           /\ stream' \in [Stream -> {NotMade} \cup Record]
           /\ stream'[s].dict = d /\ stream'[s].raw = raw /\ stream'[s].decoded = kept
           /\ Made(s)' /\ FiltersOf(s)' = list
           /\ OwnDicts'
           /\ \A t \in Stream \ {s} :
                 /\ stream'[t] = stream[t] /\ Made(t)' = Made(t)
                 /\ Made(t) => FiltersOf(t)' = FiltersOf(t)
<1>1. StreamsTyped /\ "none" \notin FilterLists
  BY FiltersAssumption DEF StreamInv
<1>2. /\ filters' \in [DictId -> FilterLists \cup {"none"}] /\ filters'[d] = list
      /\ filters[d] = "none" /\ \A e \in DictId \ {d} : filters'[e] = filters[e]
  BY <1>1 DEF StreamsTyped, NewDict
<1>3. A(d, raw, kept) \in Record
  BY DEF A, Record
<1>4. NotMade \notin Record
  BY DEF NotMade, Record
<1>5. /\ stream' \in [Stream -> {NotMade} \cup Record]
      /\ stream'[s] = A(d, raw, kept) /\ \A t \in Stream \ {s} : stream'[t] = stream[t]
  BY <1>1, <1>3 DEF StreamsTyped, Makes
<1>6. /\ stream'[s].dict = d /\ stream'[s].raw = raw /\ stream'[s].decoded = kept
      /\ Made(s)'
  <2>1. stream'[s] # NotMade
    BY <1>3, <1>4, <1>5
  <2> QED
    BY <1>5, <2>1 DEF Made, A
<1>7. ASSUME NEW t \in Stream \ {s}
      PROVE  /\ stream'[t] = stream[t] /\ Made(t)' = Made(t)
             /\ Made(t) =>
                   stream[t].dict \in DictId \ {d} /\ FiltersOf(t)' = FiltersOf(t)
  <2>1. stream'[t] = stream[t] /\ Made(t)' = Made(t)
    BY <1>5 DEF Made
  <2>2. ASSUME Made(t) PROVE stream[t].dict \in DictId \ {d}
    <3>1. stream[t] \in Record
      BY <1>1, <2>2 DEF StreamsTyped, Made
    <3>2. filters[stream[t].dict] # "none"
      BY <2>2 DEF StreamInv, OwnDicts, FiltersOf
    <3> QED
      BY <1>2, <3>1, <3>2 DEF Record
  <2> QED
    BY <1>2, <2>1, <2>2 DEF FiltersOf
<1>8. FiltersOf(s)' = list
  BY <1>2, <1>6 DEF FiltersOf
<1>9. OwnDicts'
  <2>1. ASSUME NEW t \in Stream, NEW u \in Stream, Made(t)', Made(u)', t # u
        PROVE  stream'[t].dict # stream'[u].dict
    BY <1>6, <1>7, <2>1 DEF StreamInv, OwnDicts
  <2>2. ASSUME NEW t \in Stream, Made(t)' PROVE FiltersOf(t)' # "none"
    BY <1>1, <1>7, <1>8, <2>2 DEF StreamInv, OwnDicts
  <2> QED
    BY <2>1, <2>2 DEF OwnDicts
<1> QED
  BY <1>2, <1>5, <1>6, <1>7, <1>8, <1>9

(* The constructors; what is kept from the start needs no decoding.        *)
LEMMA MakingKeeps ==
    ASSUME StreamInv, NEW s \in Stream, NEW d \in DictId, NEW list \in FilterLists,
           NEW raw \in Data, NEW kept \in Data \cup {Undecoded}, NEW b \in BOOLEAN,
           kept # Undecoded => kept = raw /\ list = <<>>, b => list = <<>>,
           NewDict(d, list), Makes(s, d, raw, kept),
           Writes(s, b, raw), acc' = acc
    PROVE  StreamInv'
<1>1. StreamsTyped /\ ~Made(s)
  BY DEF StreamInv, Makes
<1>2. /\ stream'[s].raw = raw /\ stream'[s].decoded = kept
      /\ Made(s)' /\ FiltersOf(s)' = list /\ OwnDicts'
      /\ \A t \in Stream \ {s} :
            /\ stream'[t] = stream[t] /\ Made(t)' = Made(t)
            /\ Made(t) => FiltersOf(t)' = FiltersOf(t)
  BY MakesStream
<1>3. /\ written'[s].decoded = b /\ written'[s].data = raw
      /\ \A t \in Stream \ {s} : written'[t] = written[t]
      /\ \A o, t \in Stream : copy'[t] = o => copy[t] = o /\ t # s /\ o # s
  BY <1>1, WritesTyped
<1>4. StreamsTyped'
  <2>1. /\ filters' \in [DictId -> FilterLists \cup {"none"}]
        /\ stream' \in [Stream -> {NotMade} \cup Record]
    BY MakesStream
  <2>2. /\ written' \in [Stream -> [decoded : BOOLEAN, data : Data]]
        /\ copy' \in [Stream -> Stream \cup {NoStream}]
    BY <1>1, WritesTyped
  <2>3. acc'.of \in Stream => Made(acc.of)'
    BY <1>1, <1>2 DEF StreamsTyped
  <2> QED
    BY <1>1, <2>1, <2>2, <2>3 DEF StreamsTyped
<1>5. RawIsWritten'
  <2>1. /\ stream'[s].raw = written'[s].data
        /\ written'[s].decoded => FiltersOf(s)' = <<>>
    BY <1>2, <1>3
  <2>2. stream'[s].decoded # Undecoded =>
           stream'[s].decoded = Decode(stream'[s].raw, FiltersOf(s)')
    BY <1>2, DecodedByNone
  <2>3. ASSUME NEW t \in Stream \ {s}, Made(t)'
        PROVE  /\ stream'[t].raw = written'[t].data
               /\ written'[t].decoded => FiltersOf(t)' = <<>>
               /\ stream'[t].decoded # Undecoded =>
                     stream'[t].decoded = Decode(stream'[t].raw, FiltersOf(t)')
    BY <1>2, <1>3, <2>3 DEF StreamInv, RawIsWritten
  <2> QED
    BY <2>1, <2>2, <2>3 DEF RawIsWritten
<1>6. CopiesSame'
  <2>1. ASSUME NEW o \in Stream, NEW t \in Stream, copy'[t] = o
        PROVE  /\ Made(t)' /\ Made(o)' /\ stream'[t].raw = stream'[o].raw
               /\ FiltersOf(t)' = FiltersOf(o)'
    <3>1. copy[t] = o /\ t # s /\ o # s
      BY <1>3, <2>1
    <3>2. /\ Made(t) /\ Made(o) /\ stream[t].raw = stream[o].raw
          /\ FiltersOf(t) = FiltersOf(o)
      BY <3>1 DEF StreamInv, CopiesSame
    <3> QED
      BY <1>2, <3>1, <3>2
  <2> QED
    BY <2>1 DEF CopiesSame
<1> QED
  BY <1>2, <1>4, <1>5, <1>6 DEF StreamInv

(* A clone is a stream with the raw data and the filters of another.       *)
LEMMA CloningKeeps ==
    ASSUME StreamInv, NEW s \in Stream, NEW t \in Stream, NEW d \in DictId,
           Clone(s, t, d)
    PROVE  StreamInv'
<1> DEFINE list == FiltersOf(s)
           raw == stream[s].raw
<1>1. /\ StreamsTyped /\ Made(s) /\ ~Made(t) /\ s # t
      /\ NewDict(d, list) /\ Makes(t, d, raw, Undecoded)
  BY DEF StreamInv, Clone, Makes
<1>2. raw \in Data /\ list \in FilterLists
  <2>1. stream[s] \in Record
    BY <1>1 DEF StreamsTyped, Made
  <2>2. list # "none"
    BY <1>1 DEF StreamInv, OwnDicts
  <2> QED
    BY <1>1, <2>1, <2>2 DEF StreamsTyped, Record, FiltersOf
<1>3. /\ filters' \in [DictId -> FilterLists \cup {"none"}]
      /\ stream' \in [Stream -> {NotMade} \cup Record]
      /\ stream'[t].raw = raw /\ stream'[t].decoded = Undecoded
      /\ Made(t)' /\ FiltersOf(t)' = list /\ OwnDicts'
      /\ \A u \in Stream \ {t} :
            /\ stream'[u] = stream[u] /\ Made(u)' = Made(u)
            /\ Made(u) => FiltersOf(u)' = FiltersOf(u)
  BY <1>1, <1>2, MakesStream
<1> HIDE DEF list, raw
<1>4. /\ written' = [written EXCEPT ![t] = written[s]] /\ copy' = [copy EXCEPT ![t] = s]
      /\ acc' = acc
  BY DEF Clone
<1>5. written'[t] = written[s] /\ \A u \in Stream \ {t} : written'[u] = written[u]
  BY <1>1, <1>4 DEF StreamsTyped
<1>6. copy'[t] = s /\ \A u \in Stream \ {t} : copy'[u] = copy[u]
  BY <1>1, <1>4 DEF StreamsTyped
<1>7. StreamsTyped'
  <2>1. acc'.of \in Stream => Made(acc.of)'
    BY <1>1, <1>3, <1>4 DEF StreamsTyped
  <2>2. /\ written' \in [Stream -> [decoded : BOOLEAN, data : Data]]
        /\ copy' \in [Stream -> Stream \cup {NoStream}]
    BY <1>1, <1>4 DEF StreamsTyped
  <2> QED
    BY <1>1, <1>3, <1>4, <2>1, <2>2 DEF StreamsTyped
<1>8. RawIsWritten'
  <2>1. ASSUME NEW u \in Stream \ {t}, Made(u)'
        PROVE  /\ stream'[u].raw = written'[u].data
               /\ written'[u].decoded => FiltersOf(u)' = <<>>
               /\ stream'[u].decoded # Undecoded =>
                     stream'[u].decoded = Decode(stream'[u].raw, FiltersOf(u)')
    BY <1>3, <1>5, <2>1 DEF StreamInv, RawIsWritten
  <2>2. /\ stream'[t].raw = written'[t].data
        /\ written'[t].decoded => FiltersOf(t)' = <<>>
    BY <1>1, <1>3, <1>5 DEF StreamInv, RawIsWritten, list, raw
  <2> QED
    BY <1>3, <2>1, <2>2 DEF RawIsWritten
<1>9. CopiesSame'
  <2>1. ASSUME NEW o \in Stream, NEW u \in Stream, copy'[u] = o
        PROVE  /\ Made(u)' /\ Made(o)' /\ stream'[u].raw = stream'[o].raw
               /\ FiltersOf(u)' = FiltersOf(o)'
    <3>1. CASE u = t
      BY <1>1, <1>3, <1>6, <2>1, <3>1 DEF list, raw
    <3>2. CASE u # t
      <4>1. /\ Made(u) /\ Made(o) /\ stream[u].raw = stream[o].raw
            /\ FiltersOf(u) = FiltersOf(o)
        BY <1>6, <2>1, <3>2 DEF StreamInv, CopiesSame
      <4> QED
        BY <1>1, <1>3, <3>2, <4>1
    <3> QED
      BY <3>1, <3>2
  <2> QED
    BY <2>1 DEF CopiesSame
<1> QED
  BY <1>3, <1>7, <1>8, <1>9 DEF StreamInv

(* The getter keeps what it answers.                                       *)
LEMMA ReadingKeeps ==
    ASSUME StreamInv, NEW s \in Stream, Made(s), Reads(s),
           UNCHANGED <<filters, written, copy>>,
           acc' = acc \/ acc' = [acc EXCEPT !.data = DataOf(s)]
    PROVE  StreamInv'
<1> DEFINE data == DataOf(s)
<1>1. StreamsTyped /\ stream[s] \in Record
  BY DEF StreamInv, StreamsTyped, Made
<1>2. data = Decode(stream[s].raw, FiltersOf(s)) /\ data \in Decoded
  <2>1. stream[s].raw \in Data /\ FiltersOf(s) \in FilterLists
    BY <1>1 DEF StreamInv, OwnDicts, StreamsTyped, Record, FiltersOf
  <2> QED
    BY <2>1, DataAreDecoded DEF StreamInv, Decoded
<1> HIDE DEF data
<1>3. stream' = [stream EXCEPT ![s].decoded = data]
  BY DEF Reads, data
<1>4. /\ stream'[s] \in Record /\ stream'[s].decoded = data
      /\ stream'[s].raw = stream[s].raw /\ stream'[s].dict = stream[s].dict
  BY <1>1, <1>2, <1>3 DEF StreamsTyped, Record
<1>5. NotMade \notin Record
  BY DEF NotMade, Record
<1>6. ASSUME NEW t \in Stream
      PROVE  /\ stream'[t] \in {NotMade} \cup Record
             /\ t # s => stream'[t] = stream[t]
             /\ stream'[t].raw = stream[t].raw /\ stream'[t].dict = stream[t].dict
             /\ Made(t)' = Made(t)
             /\ FiltersOf(t)' = FiltersOf(t)
  <2>1. t # s => stream'[t] = stream[t]
    BY <1>1, <1>3 DEF StreamsTyped
  <2>2. stream'[t].raw = stream[t].raw /\ stream'[t].dict = stream[t].dict
    BY <1>4, <2>1
  <2>3. Made(t)' = Made(t)
    BY <1>1, <1>4, <1>5, <2>1 DEF Made
  <2> QED
    BY <1>1, <1>4, <2>1, <2>2, <2>3 DEF StreamsTyped, FiltersOf
<1>7. stream' \in [Stream -> {NotMade} \cup Record]
  BY <1>1, <1>3, <1>6 DEF StreamsTyped
<1>8. acc' \in [of : Stream \cup {NoStream}, data : Data \cup {Undecoded} \cup Decoded]
      /\ acc'.of = acc.of
  BY <1>1, <1>2 DEF StreamsTyped, data
<1>9. StreamsTyped'
  <2>1. acc'.of \in Stream => Made(acc.of)'
    BY <1>1, <1>6, <1>8 DEF StreamsTyped
  <2> QED
    BY <1>1, <1>7, <1>8, <2>1 DEF StreamsTyped
<1>10. OwnDicts' /\ CopiesSame'
  BY <1>6 DEF StreamInv, OwnDicts, CopiesSame
<1>11. RawIsWritten'
  BY <1>2, <1>4, <1>6 DEF StreamInv, RawIsWritten
<1> QED
  BY <1>9, <1>10, <1>11 DEF StreamInv

(* Data are set; those kept from then on need no decoding.                 *)
LEMMA WritingKeeps ==
    ASSUME StreamInv, NEW s \in Stream, Made(s), NEW data \in Data,
           NEW kept \in Data \cup {Undecoded}, NEW b \in BOOLEAN,
           kept # Undecoded => kept = data /\ FiltersOf(s) = <<>>,
           b => FiltersOf(s) = <<>>,
           stream' = [stream EXCEPT ![s].raw = data, ![s].decoded = kept],
           Writes(s, b, data), UNCHANGED <<filters, acc>>
    PROVE  StreamInv'
<1>1. StreamsTyped /\ stream[s] \in Record
  BY DEF StreamInv, StreamsTyped, Made
<1>2. /\ stream'[s] \in Record /\ stream'[s].decoded = kept
      /\ stream'[s].raw = data /\ stream'[s].dict = stream[s].dict
  BY <1>1 DEF StreamsTyped, Record
<1>3. NotMade \notin Record
  BY DEF NotMade, Record
<1>4. ASSUME NEW t \in Stream
      PROVE  /\ stream'[t] \in {NotMade} \cup Record
             /\ t # s => stream'[t] = stream[t]
             /\ stream'[t].dict = stream[t].dict
             /\ Made(t)' = Made(t)
             /\ FiltersOf(t)' = FiltersOf(t)
  <2>1. t # s => stream'[t] = stream[t]
    BY <1>1 DEF StreamsTyped
  <2>2. stream'[t].dict = stream[t].dict
    BY <1>2, <2>1
  <2>3. Made(t)' = Made(t)
    BY <1>1, <1>2, <1>3, <2>1 DEF Made
  <2> QED
    BY <1>1, <1>2, <2>1, <2>2, <2>3 DEF StreamsTyped, FiltersOf
<1>5. /\ written'[s].decoded = b /\ written'[s].data = data
      /\ \A t \in Stream \ {s} : written'[t] = written[t]
      /\ \A o, t \in Stream : copy'[t] = o => copy[t] = o /\ t # s /\ o # s
  BY <1>1, WritesTyped
<1>6. StreamsTyped'
  <2>1. stream' \in [Stream -> {NotMade} \cup Record]
    BY <1>1, <1>4 DEF StreamsTyped
  <2>2. /\ written' \in [Stream -> [decoded : BOOLEAN, data : Data]]
        /\ copy' \in [Stream -> Stream \cup {NoStream}]
    BY <1>1, WritesTyped
  <2>3. acc'.of \in Stream => Made(acc.of)'
    BY <1>1, <1>4 DEF StreamsTyped
  <2> QED
    BY <1>1, <2>1, <2>2, <2>3 DEF StreamsTyped
<1>7. OwnDicts'
  BY <1>4 DEF StreamInv, OwnDicts
<1>8. CopiesSame'
  <2>1. ASSUME NEW o \in Stream, NEW t \in Stream, copy'[t] = o
        PROVE  /\ Made(t)' /\ Made(o)' /\ stream'[t].raw = stream'[o].raw
               /\ FiltersOf(t)' = FiltersOf(o)'
    <3>1. copy[t] = o /\ t # s /\ o # s
      BY <1>5, <2>1
    <3>2. /\ Made(t) /\ Made(o) /\ stream[t].raw = stream[o].raw
          /\ FiltersOf(t) = FiltersOf(o)
      BY <3>1 DEF StreamInv, CopiesSame
    <3>3. stream'[t] = stream[t] /\ stream'[o] = stream[o]
      BY <1>4, <3>1
    <3>4. /\ Made(t)' /\ FiltersOf(t)' = FiltersOf(t)
          /\ Made(o)' /\ FiltersOf(o)' = FiltersOf(o)
      BY <1>4, <3>2
    <3> QED
      BY <3>2, <3>3, <3>4
  <2> QED
    BY <2>1 DEF CopiesSame
<1>9. RawIsWritten'
  <2>1. ASSUME NEW t \in Stream \ {s}, Made(t)'
        PROVE  /\ stream'[t].raw = written'[t].data
               /\ written'[t].decoded => FiltersOf(t)' = <<>>
               /\ stream'[t].decoded # Undecoded =>
                     stream'[t].decoded = Decode(stream'[t].raw, FiltersOf(t)')
    <3>1. /\ stream'[t] = stream[t] /\ Made(t)
          /\ FiltersOf(t)' = FiltersOf(t)
      BY <1>4, <2>1
    <3>2. written'[t] = written[t]
      BY <1>5
    <3>3. /\ stream[t].raw = written[t].data
          /\ written[t].decoded => FiltersOf(t) = <<>>
          /\ stream[t].decoded # Undecoded =>
                stream[t].decoded = Decode(stream[t].raw, FiltersOf(t))
      BY <3>1 DEF StreamInv, RawIsWritten
    <3> QED
      BY <3>1, <3>2, <3>3
  <2>2. stream'[s].decoded # Undecoded =>
           stream'[s].decoded = Decode(stream'[s].raw, FiltersOf(s)')
    BY <1>2, <1>4, DecodedByNone
  <2> QED
    BY <1>2, <1>4, <1>5, <2>1, <2>2 DEF RawIsWritten
<1> QED
  BY <1>6, <1>7, <1>8, <1>9 DEF StreamInv

(* What declares filters anew has nothing decoded and counts as a write of *)
(* the raw data; no other stream has the dictionary.                       *)
LEMMA Redeclared ==
    ASSUME StreamInv, Careful, NEW s \in Stream, Redeclares(s)
    PROVE  /\ Made(s) /\ stream[s] \in Record /\ stream[s].decoded = Undecoded
           /\ written' \in [Stream -> [decoded : BOOLEAN, data : Data]]
           /\ copy' \in [Stream -> Stream \cup {NoStream}]
           /\ ~written'[s].decoded /\ written'[s].data = stream[s].raw
           /\ \A t \in Stream \ {s} : written'[t] = written[t]
           /\ \A o, t \in Stream : copy'[t] = o => copy[t] = o /\ t # s /\ o # s
<1>1. /\ Made(s) /\ stream[s].decoded = Undecoded
      /\ Writes(s, FALSE, stream[s].raw)
  BY DEF Redeclares, Careful
<1>2. StreamsTyped /\ stream[s] \in Record /\ stream[s].raw \in Data
  BY <1>1 DEF StreamInv, StreamsTyped, Made, Record
<1>3. /\ written' \in [Stream -> [decoded : BOOLEAN, data : Data]]
      /\ copy' \in [Stream -> Stream \cup {NoStream}]
      /\ written'[s].decoded = FALSE /\ written'[s].data = stream[s].raw
      /\ \A t \in Stream \ {s} : written'[t] = written[t]
      /\ \A o, t \in Stream : copy'[t] = o => copy[t] = o /\ t # s /\ o # s
  BY <1>1, <1>2, WritesTyped
<1> QED
  BY <1>1, <1>2, <1>3

LEMMA RedeclaringKeeps ==
    ASSUME StreamInv, Careful, NEW s \in Stream, Redeclares(s), acc' = acc,
           filters' \in [DictId -> FilterLists \cup {"none"}],
           stream' \in [Stream -> {NotMade} \cup Record], OwnDicts',
           Made(s)', stream'[s].raw = stream[s].raw, stream'[s].decoded = Undecoded,
           \A t \in Stream \ {s} :
              /\ stream'[t] = stream[t] /\ Made(t)' = Made(t)
              /\ Made(t) => FiltersOf(t)' = FiltersOf(t)
    PROVE  StreamInv'
<1>1. /\ written' \in [Stream -> [decoded : BOOLEAN, data : Data]]
      /\ copy' \in [Stream -> Stream \cup {NoStream}]
      /\ ~written'[s].decoded /\ written'[s].data = stream[s].raw
      /\ \A t \in Stream \ {s} : written'[t] = written[t]
      /\ \A o, t \in Stream : copy'[t] = o => copy[t] = o /\ t # s /\ o # s
  BY Redeclared
<1>2. StreamsTyped'
  <2>1. acc'.of \in Stream => Made(acc.of)'
    BY DEF StreamInv, StreamsTyped
  <2> QED
    BY <1>1, <2>1 DEF StreamInv, StreamsTyped
<1>3. RawIsWritten'
  BY <1>1 DEF StreamInv, RawIsWritten
<1>4. CopiesSame'
  BY <1>1 DEF StreamInv, CopiesSame
<1> QED
  BY <1>2, <1>3, <1>4 DEF StreamInv

LEMMA SetFilterKeeps ==
    ASSUME StreamInv, Careful, NEW s \in Stream, NEW list \in FilterLists,
           SetFilter(s, list)
    PROVE  StreamInv'
<1>1. /\ Redeclares(s) /\ filters' = [filters EXCEPT ![stream[s].dict] = list]
      /\ stream' = stream /\ acc' = acc
  BY DEF SetFilter
<1>2. Made(s) /\ stream[s] \in Record /\ stream[s].decoded = Undecoded
  BY <1>1, Redeclared
<1>3. StreamsTyped /\ OwnDicts /\ "none" \notin FilterLists /\ stream[s].dict \in DictId
  BY <1>2, FiltersAssumption DEF StreamInv, Record
<1>4. \A t \in Stream : Made(t)' = Made(t)
  BY <1>1 DEF Made
<1>5. filters' \in [DictId -> FilterLists \cup {"none"}] /\ FiltersOf(s)' = list
  BY <1>1, <1>3 DEF StreamsTyped, FiltersOf
<1>6. ASSUME NEW t \in Stream \ {s}, Made(t)
      PROVE  FiltersOf(t)' = FiltersOf(t)
  <2>1. stream[t] \in Record
    BY <1>3, <1>6 DEF StreamsTyped, Made
  <2>2. stream[t].dict \in DictId \ {stream[s].dict}
    BY <1>2, <1>3, <1>6, <2>1 DEF OwnDicts, Record
  <2> QED
    BY <1>1, <1>3, <2>2 DEF StreamsTyped, FiltersOf
<1>7. OwnDicts'
  BY <1>1, <1>3, <1>4, <1>5, <1>6 DEF OwnDicts
<1>8. /\ stream' \in [Stream -> {NotMade} \cup Record]
      /\ Made(s)' /\ stream'[s].raw = stream[s].raw /\ stream'[s].decoded = Undecoded
  BY <1>1, <1>2, <1>3, <1>4 DEF StreamsTyped
<1>9. ASSUME NEW t \in Stream \ {s}
      PROVE  /\ stream'[t] = stream[t] /\ Made(t)' = Made(t)
             /\ Made(t) => FiltersOf(t)' = FiltersOf(t)
  BY <1>1, <1>4, <1>6
<1> QED
  BY <1>1, <1>5, <1>7, <1>8, <1>9, RedeclaringKeeps

LEMMA SetDictKeeps ==
    ASSUME StreamInv, Careful, NEW s \in Stream, NEW d \in DictId, NEW list \in FilterLists,
           SetDict(s, d, list)
    PROVE  StreamInv'
<1>1. /\ Redeclares(s) /\ NewDict(d, list)
      /\ stream' = [stream EXCEPT ![s].dict = d] /\ acc' = acc
  BY DEF SetDict
<1>2. Made(s) /\ stream[s] \in Record /\ stream[s].decoded = Undecoded
  BY <1>1, Redeclared
<1>3. StreamsTyped /\ OwnDicts /\ "none" \notin FilterLists
  BY FiltersAssumption DEF StreamInv
<1>4. /\ filters' \in [DictId -> FilterLists \cup {"none"}] /\ filters'[d] = list
      /\ filters[d] = "none" /\ \A e \in DictId \ {d} : filters'[e] = filters[e]
  BY <1>1, <1>3 DEF StreamsTyped, NewDict
<1>5. /\ stream'[s] \in Record /\ stream'[s].dict = d
      /\ stream'[s].raw = stream[s].raw /\ stream'[s].decoded = Undecoded
      /\ \A t \in Stream \ {s} : stream'[t] = stream[t]
  BY <1>1, <1>2, <1>3 DEF StreamsTyped, Record
<1>6. NotMade \notin Record
  BY DEF NotMade, Record
<1>7. Made(s)' /\ FiltersOf(s)' = list
  BY <1>4, <1>5, <1>6 DEF Made, FiltersOf
<1>8. ASSUME NEW t \in Stream \ {s}
      PROVE  /\ stream'[t] = stream[t] /\ Made(t)' = Made(t)
             /\ Made(t) =>
                   stream[t].dict # d /\ FiltersOf(t)' = FiltersOf(t)
  <2>1. stream'[t] = stream[t] /\ Made(t)' = Made(t)
    BY <1>5 DEF Made
  <2>2. ASSUME Made(t) PROVE stream[t].dict \in DictId \ {d}
    <3>1. stream[t] \in Record
      BY <1>3, <2>2 DEF StreamsTyped, Made
    <3> QED
      BY <1>3, <1>4, <2>2, <3>1 DEF OwnDicts, FiltersOf, Record
  <2> QED
    BY <1>4, <2>1, <2>2 DEF FiltersOf
<1>9. OwnDicts'
  BY <1>3, <1>5, <1>7, <1>8 DEF OwnDicts
<1>10. stream' \in [Stream -> {NotMade} \cup Record]
  BY <1>1, <1>3, <1>5 DEF StreamsTyped
<1> QED
  BY <1>1, <1>4, <1>5, <1>7, <1>8, <1>9, <1>10, RedeclaringKeeps

LEMMA NextStreams ==
    ASSUME Careful, StreamInv, [StreamNext]_streamVars
    PROVE  StreamInv'
<1>1. /\ StreamsTyped /\ EmptyData \in Data /\ Undecoded \notin Data
      /\ <<>> \in FilterLists /\ NoStream \notin Stream /\ SetsUnfiltered
  BY DataAssumption, FiltersAssumption DEF StreamInv, Careful
<1>2. ASSUME NEW s \in Stream, NEW d \in DictId, NEW list \in FilterLists, NEW data \in Data,
             \/ NewEmpty(s, d)
             \/ NewStream(s, d, list, data)
             \/ WithData(s, d, list, data)
      PROVE  StreamInv'
  <2>1. CASE NewEmpty(s, d)
    <3>1. /\ NewDict(d, <<>>) /\ Makes(s, d, EmptyData, Undecoded)
          /\ Writes(s, FALSE, EmptyData) /\ acc' = acc
      BY <2>1 DEF NewEmpty
    <3> QED
      BY <1>1, <3>1, MakingKeeps
  <2>2. CASE NewStream(s, d, list, data)
    <3>1. /\ NewDict(d, list) /\ Makes(s, d, data, Undecoded)
          /\ Writes(s, FALSE, data) /\ acc' = acc
      BY <2>2 DEF NewStream
    <3> QED
      BY <1>1, <3>1, MakingKeeps
  <2>3. CASE WithData(s, d, list, data)
    <3>1. /\ NewDict(d, list) /\ Makes(s, d, data, data) /\ list = <<>>
          /\ Writes(s, TRUE, data) /\ acc' = acc
      BY <1>1, <2>3 DEF WithData
    <3> QED
      BY <1>1, <3>1, MakingKeeps
  <2> QED
    BY <1>2, <2>1, <2>2, <2>3
<1>3. ASSUME NEW s \in Stream, NEW data \in Data,
             SetRawData(s, data) \/ SetData(s, data)
      PROVE  StreamInv'
  <2>1. CASE SetRawData(s, data)
    <3>1. /\ Made(s) /\ Writes(s, FALSE, data) /\ UNCHANGED <<filters, acc>>
          /\ stream' = [stream EXCEPT ![s].raw = data, ![s].decoded = Undecoded]
      BY <2>1 DEF SetRawData
    <3> QED
      BY <1>1, <3>1, WritingKeeps
  <2>2. CASE SetData(s, data)
    <3>1. /\ Made(s) /\ Writes(s, TRUE, data) /\ UNCHANGED <<filters, acc>>
          /\ stream' = [stream EXCEPT ![s].raw = data, ![s].decoded = data]
          /\ FiltersOf(s) = <<>>
      BY <1>1, <2>2 DEF SetData
    <3> QED
      BY <1>1, <3>1, WritingKeeps
  <2> QED
    BY <1>3, <2>1, <2>2
<1>4. ASSUME NEW s \in Stream, ReadData(s) PROVE StreamInv'
  BY <1>4, ReadingKeeps DEF ReadData
<1>5. ASSUME LoadAllData \/ ReadAcc PROVE StreamInv'
  <2>1. acc.of \in Stream /\ Made(acc.of)
    BY <1>1, <1>5 DEF StreamsTyped, LoadAllData, ReadAcc
  <2>2. CASE LoadAllData
    BY <2>1, <2>2, ReadingKeeps DEF LoadAllData
  <2>3. CASE ReadAcc /\ acc.data = Undecoded
    BY <2>1, <2>3, ReadingKeeps DEF ReadAcc
  <2>4. CASE ReadAcc /\ acc.data # Undecoded
    <3>1. UNCHANGED streamVars
      BY <2>4 DEF ReadAcc, streamVars
    <3> QED
      BY <3>1 DEF streamVars, StreamInv, StreamsTyped, OwnDicts, RawIsWritten, CopiesSame,
                  Made, FiltersOf
  <2> QED
    BY <1>5, <2>2, <2>3, <2>4
<1>6. ASSUME NEW s \in Stream, NewAcc(s) PROVE StreamInv'
  <2>1. /\ Made(s) /\ acc' = [of |-> s, data |-> Undecoded]
        /\ UNCHANGED <<filters, stream, written, copy>>
    BY <1>6 DEF NewAcc
  <2>2. StreamsTyped'
    BY <1>1, <2>1 DEF StreamsTyped, Made
  <2> QED
    BY <2>1, <2>2 DEF StreamInv, OwnDicts, RawIsWritten, CopiesSame,
                      Made, FiltersOf
<1>7. CASE UNCHANGED streamVars
  BY <1>7 DEF streamVars, StreamInv, StreamsTyped, OwnDicts, RawIsWritten, CopiesSame,
              Made, FiltersOf
<1>8. ASSUME NEW s \in Stream, NEW d \in DictId, NewEmpty(s, d) PROVE StreamInv'
  BY <1>1, <1>2, <1>8
<1>9. CASE StreamNext
  BY <1>1, <1>2, <1>3, <1>4, <1>5, <1>6, <1>8, <1>9, CloningKeeps, SetFilterKeeps, SetDictKeeps
     DEF StreamNext
<1> QED
  BY <1>7, <1>9

(* A stream answers what was written into it last, whatever was read,      *)
(* cloned or kept before (PdfStream.data, setData, setRawData).            *)
THEOREM StreamsAnswer == Careful => (StreamSpec => []ReadsLastWritten)
<1> SUFFICES ASSUME Careful PROVE StreamSpec => []ReadsLastWritten
  OBVIOUS
<1>1. StreamInit => StreamInv
  BY InitStreams
<1>2. StreamInv /\ [StreamNext]_streamVars => StreamInv'
  BY NextStreams
<1>3. StreamInv => ReadsLastWritten
  BY InvAnswers
<1> QED
  BY <1>1, <1>2, <1>3, PTL DEF StreamSpec

(* A clone that neither side wrote to since answers what the stream does   *)
(* (PdfStream.clone).                                                      *)
THEOREM ClonesAnswer == Careful => (StreamSpec => []CopiesAgree)
<1> SUFFICES ASSUME Careful PROVE StreamSpec => []CopiesAgree
  OBVIOUS
<1>1. StreamInit => StreamInv
  BY InitStreams
<1>2. StreamInv /\ [StreamNext]_streamVars => StreamInv'
  BY NextStreams
<1>3. StreamInv => CopiesAgree
  BY InvAnswers
<1> QED
  BY <1>1, <1>2, <1>3, PTL DEF StreamSpec
=============================================================================
